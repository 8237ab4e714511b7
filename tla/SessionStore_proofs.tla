------------------------- MODULE SessionStore_proofs -------------------------
(***************************************************************************)
(* The page's store keeps its rows and its obligations in order, for every *)
(* set of sessions and directories and every bound.                        *)
(*                                                                         *)
(* Rows.  A read is a prefix of what its session contains: it was answered *)
(* at some head of the log, and contains everything up to it.  So two      *)
(* reads of one session and lifetime are ordered by their heads, and a row *)
(* that is older than a read is contained in it.  RowsInv says so of every *)
(* row and of every read that may still be merged into it; then the merge  *)
(* loses nothing, whichever of them is newer.                              *)
(*                                                                         *)
(* Obligations.  Cover says of the running pass, its reads and the two     *)
(* listings of each directory that whatever would drain an obligation was  *)
(* asked for after the last signal: a pass that is still current has no    *)
(* stale read and no stale listing, and a listing that was superseded left *)
(* the work to a fresh one, or to one that is done.                        *)
(*                                                                         *)
(* Transcripts.  Whole says, while the page is in the daemon's lifetime,   *)
(* that every turn a cursor has passed is in the row, was given up, or     *)
(* is owed: to a read that is still to come, or to a record in lost.  A    *)
(* read that is in flight owes the other half, that the row has what the   *)
(* stream passed after the read was answered (Holds); for a hydrate, a     *)
(* recovery read and a reconnect alike.  Clocks keeps the cursors, frames  *)
(* and reads in the order of the log, which the reconnect relies on.       *)
(*                                                                         *)
(* Every handler is a function of the page, so every action is one step:   *)
(* what its handlers do, field by field (the Does and Fields lemmas), and  *)
(* that the outcome Advances the page (the Step lemmas).                   *)
(***************************************************************************)
EXTENDS SessionStore, TLAPS, WellFoundedInduction

\* Reads a handler may meet: a detail belongs to a lifetime, and has a head.
Answered == {r \in Reads : r.kind = "detail" => r.epoch \in Epochs /\ r.row.last >= 0}

Attempts == 0 .. MaxAttempts + 1
Heads == 0 .. MaxSequence
Cursors == -1 .. MaxSequence

Stores == [epoch : Epochs, rows : [Sessions -> Row],
           cursor : [Sessions -> Cursors],
           hydrated : SUBSET Sessions, tombstones : SUBSET Sessions,
           restoring : SUBSET Sessions, loadError : SUBSET Sessions,
           selected : Sessions \cup {NoSession},
           connection : {"ready", "error"}, error : BOOLEAN]

Recoveries ==
    [residents : SUBSET Sessions, directories : SUBSET Directories,
     stage : {"idle", "residents", "directories"}, current : BOOLEAN,
     todo : SUBSET (Sessions \cup Directories),
     reply : [Sessions -> Answered], attempt : Attempts,
     timer : BOOLEAN, failed : SUBSET Directories,
     stale : SUBSET Sessions,
     covered : SUBSET (Sessions \cup Directories)]

Frames == {NoFrame} \cup
    [session : Sessions, head : Heads, after : Heads]

\* A reconnect that was asked for something is one of a session.
Reconnects ==
    {r \in [active : BOOLEAN, superseded : BOOLEAN, session : Sessions \cup {NoSession},
            cursor : Cursors, reply : Answered] :
        /\ r.active => r.session \in Sessions
        /\ r.reply # Unasked => r.active}

Streams == [kind : {"bootstrap", "cluster", "reconnect"}, up : BOOLEAN,
            epoch : Epochs, cursor : Heads, frame : Frames,
            resyncObserved : BOOLEAN, reconnect : Reconnects]

Pages == [st : Stores, rec : Recoveries, str : Streams, ft : [Sessions -> Answered],
          ls : [Directories -> [Callers -> List]], lo : Loss]

\* What a page's record has, field by field.
LEMMA PageFields ==
    ASSUME NEW c \in Pages
    PROVE  /\ c.st \in Stores /\ c.rec \in Recoveries /\ c.str \in Streams
           /\ c.ft \in [Sessions -> Answered]
           /\ c.ls \in [Directories -> [Callers -> List]] /\ c.lo \in Loss
           /\ c = [st |-> c.st, rec |-> c.rec, str |-> c.str, ft |-> c.ft,
                   ls |-> c.ls, lo |-> c.lo]
BY DEF Pages

\* The constants of the model have their types, and differ where it matters.
LEMMA Values ==
    /\ NoRow \in Row /\ NoRow.last = -1 /\ NoRow.seen = {}
    /\ NoSequence = -1 /\ NoSequence \in Cursors
    /\ NoLoss \in Loss
    /\ Unasked \in Answered /\ Asked \in Answered /\ Read("failed") \in Answered
    /\ Read("gone") \in Answered
    /\ Unasked.kind = "unasked" /\ Asked.kind = "asked" /\ Unasked # Asked
    /\ NoFrame \in Frames /\ NoReconnect \in Reconnects
    /\ 0 \in Attempts
    /\ NoList \in List
<1>1. NoRow \in Row /\ NoRow.last = -1 /\ NoRow.seen = {}
  BY StoreAssumption DEF NoRow, Row, NoSequence
<1>2. \A k \in {"unasked", "asked", "gone", "failed"} :
         Read(k) \in Reads /\ Read(k).kind = k
  BY <1>1, StoreAssumption DEF Read, Reads
<1>3. \A k \in {"unasked", "asked", "gone", "failed"} : Read(k) \in Answered
  BY <1>2 DEF Answered
<1>4. NoLoss \in Loss
  BY DEF NoLoss, Loss
<1>5. NoList \in List
  BY <1>2 DEF NoList, List, Unasked
<1>6. QED
  <2>1. NoReconnect \in Reconnects
    BY <1>3, StoreAssumption DEF NoReconnect, Reconnects, NoSequence, Cursors, Unasked
  <2>2. QED
    BY <1>1, <1>2, <1>3, <1>4, <1>5, <2>1, StoreAssumption
    DEF NoSequence, Cursors, Unasked, Asked, Frames, Attempts

-----------------------------------------------------------------------------
(* What the handlers do to the page. *)

Starting(rec) ==
    [rec EXCEPT !.stage = "residents", !.current = TRUE, !.todo = rec.residents]

\* A pass that starts changes the recovery only.
LEMMA StartPassDoes ==
    ASSUME NEW c \in Pages
    PROVE  /\ StartPass(c) \in Pages
           /\ StartPass(c).st = c.st /\ StartPass(c).str = c.str
           /\ StartPass(c).ft = c.ft /\ StartPass(c).ls = c.ls
           /\ StartPass(c).lo = c.lo
           /\ StartPass(c).rec =
                IF c.rec.stage = "idle" /\ Owed(c) THEN Starting(c.rec) ELSE c.rec
<1> DEFINE rec == Starting(c.rec)
<1>1. rec \in Recoveries
  BY PageFields DEF Recoveries, Starting
<1>2. StartPass(c) = IF c.rec.stage # "idle" \/ ~Owed(c) THEN c
                     ELSE [c EXCEPT !.rec = rec]
  BY DEF StartPass, Starting
<1> HIDE DEF rec
<1>3. QED
  BY <1>1, <1>2 DEF Pages, rec

\* Marking listings stale leaves them listings.
LEMMA StaledLists ==
    ASSUME NEW ls \in [Directories -> [Callers -> List]], NEW directories
    PROVE  Staled(ls, directories) \in [Directories -> [Callers -> List]]
<1> SUFFICES ASSUME NEW d \in Directories, NEW o \in Callers
             PROVE  [ls[d][o] EXCEPT !.fresh = @ /\ d \notin directories] \in List
  BY DEF Staled
<1> DEFINE l == ls[d][o]
           b == l.fresh /\ d \notin directories
<1>1. b \in BOOLEAN
  OBVIOUS
<1>2. l \in List
  OBVIOUS
<1> HIDE DEF b, l
<1>3. [l EXCEPT !.fresh = b] \in List
  BY <1>1, <1>2 DEF List
<1>4. QED
  BY <1>3 DEF b, l

\* A signal's obligations leave the recovery in its type.
LEMMA AskingDoes ==
    ASSUME NEW rec \in Recoveries,
           NEW sessions \in SUBSET Sessions, NEW directories \in SUBSET Directories
    PROVE  Asking(rec, sessions, directories) \in Recoveries
BY DEF Asking, Recoveries

\* A signal as QueueRecovery leaves it before the pass starts.
Signalled(rec, sessions, directories) ==
    [Asking(rec, sessions, directories) EXCEPT
        !.attempt = 0, !.timer = FALSE, !.current = FALSE]

\* And as it leaves it in the end.
SignalledPass(old, sessions, directories) ==
    LET rec == Signalled(old, sessions, directories)
    IN  IF rec.stage = "idle" THEN Starting(rec) ELSE rec

\* All a signal changes is the pass and the listings.
OnlySignal(q, c, sessions, directories) ==
    /\ q \in Pages
    /\ q.st = c.st /\ q.str = c.str /\ q.ft = c.ft /\ q.lo = c.lo
    /\ q.ls = Staled(c.ls, directories)
    /\ q.rec = SignalledPass(c.rec, sessions, directories)

\* queueSyncRecovery changes the recovery and the freshness of listings only.
LEMMA QueueDoes ==
    ASSUME NEW c \in Pages,
           NEW sessions \in SUBSET Sessions, NEW directories \in SUBSET Directories,
           sessions \cup directories # {},
           NEW q, q = QueueRecovery(c, sessions, directories)
    PROVE  OnlySignal(q, c, sessions, directories)
<1> DEFINE rec == Signalled(c.rec, sessions, directories)
           zero == 0
           asking == Asking(c.rec, sessions, directories)
           ls == Staled(c.ls, directories)
           b == [c EXCEPT !.rec = rec, !.ls = ls]
<1>1. asking \in Recoveries /\ zero \in Attempts
  BY AskingDoes, PageFields, Values
<1>2. ls \in [Directories -> [Callers -> List]]
  BY StaledLists, PageFields
<1>3. rec = [asking EXCEPT !.attempt = zero, !.timer = FALSE, !.current = FALSE]
  BY DEF Signalled
<1>4. asking.residents = c.rec.residents \cup sessions
      /\ asking.directories = c.rec.directories \cup directories
  BY PageFields DEF Asking, Recoveries
<1>5. q = StartPass(b)
  <2>1. q = StartPass([c EXCEPT !.rec = [Asking(@, sessions, directories) EXCEPT
                                !.attempt = 0, !.timer = FALSE, !.current = FALSE],
                     !.ls = Staled(@, directories)])
    BY DEF QueueRecovery
  <2>2. QED
    BY <2>1, <1>3 DEF b, ls, asking, zero
<1> HIDE DEF zero, asking, ls, rec
<1>6. rec \in Recoveries
  BY <1>1, <1>3 DEF Recoveries
<1>7. b \in Pages /\ b.rec = rec /\ b.st = c.st /\ b.str = c.str /\ b.ft = c.ft
      /\ b.lo = c.lo /\ b.ls = ls
  BY <1>2, <1>6 DEF Pages
<1>8. Owed(b)
  <2>1. rec.residents = c.rec.residents \cup sessions
        /\ rec.directories = c.rec.directories \cup directories
    BY <1>1, <1>3, <1>4 DEF Recoveries
  <2>2. QED
    BY <2>1, <1>7 DEF Owed
<1> HIDE DEF b
<1>9. QED
  <2>1. /\ q \in Pages /\ q.st = c.st /\ q.str = c.str /\ q.ft = c.ft
        /\ q.lo = c.lo /\ q.ls = ls
        /\ q.rec = IF rec.stage = "idle" THEN Starting(rec) ELSE rec
    BY <1>5, <1>7, <1>8, StartPassDoes
  <2>2. QED
    BY <2>1 DEF ls, rec, SignalledPass, OnlySignal

\* The page as ApplyEpochChange leaves it before the signal.
RenewedStore(st, e) ==
    [st EXCEPT !.epoch = e, !.rows = [s \in Sessions |-> NoRow],
               !.cursor = [s \in Sessions |-> NoSequence],
               !.hydrated = {}, !.restoring = {}]
RenewedWork(rec, overtaken) ==
    [rec EXCEPT !.current = FALSE, !.covered = @ \cup overtaken]
Renewed(c, e) ==
    [c EXCEPT !.st = RenewedStore(c.st, e),
              !.ft = [s \in Sessions |-> Unasked],
              !.rec = RenewedWork(c.rec, c.lo.overtaken),
              !.lo = NoLoss]

\* The store of a new lifetime has neither rows nor cursors.
LEMMA RenewedStoreFields ==
    ASSUME NEW old \in Stores, NEW e \in Epochs, NEW st, st = RenewedStore(old, e)
    PROVE  /\ st \in Stores /\ st.epoch = e
           /\ st.tombstones = old.tombstones /\ st.hydrated = {} /\ st.restoring = {}
           /\ st.loadError = old.loadError /\ st.connection = old.connection
           /\ st.error = old.error /\ st.selected = old.selected
           /\ \A s \in Sessions : st.rows[s] = NoRow /\ st.cursor[s] = -1
<1> DEFINE rows == [s \in Sessions |-> NoRow]
           cursor == [s \in Sessions |-> NoSequence]
<1>1. rows \in [Sessions -> Row] /\ cursor \in [Sessions -> Cursors]
      /\ \A s \in Sessions : rows[s] = NoRow /\ cursor[s] = -1
  BY Values
<1>2. st = [old EXCEPT !.epoch = e, !.rows = rows, !.cursor = cursor,
                       !.hydrated = {}, !.restoring = {}]
  BY DEF RenewedStore
<1> HIDE DEF rows, cursor
<1>3. QED
  BY <1>1, <1>2 DEF Stores

\* A new lifetime ends the currency of the pass, and covers what was overtaken.
LEMMA RenewedWorkFields ==
    ASSUME NEW old \in Recoveries, NEW overtaken \in SUBSET Sessions,
           NEW rec, rec = RenewedWork(old, overtaken)
    PROVE  /\ rec \in Recoveries
           /\ rec.residents = old.residents /\ rec.directories = old.directories
           /\ rec.covered = old.covered \cup overtaken
           /\ rec.reply = old.reply /\ rec.failed = old.failed
           /\ rec.stale = old.stale /\ rec.stage = old.stage
           /\ rec.todo = old.todo /\ ~rec.current
           /\ rec.attempt = old.attempt /\ rec.timer = old.timer
BY DEF RenewedWork, Recoveries

\* The page of a new lifetime, before its signal.
LEMMA RenewedDoes ==
    ASSUME NEW c \in Pages, NEW e \in Epochs, NEW q, q = Renewed(c, e)
    PROVE  /\ q \in Pages
           /\ q.str = c.str /\ q.ls = c.ls /\ q.lo = NoLoss
           /\ q.ft = [s \in Sessions |-> Unasked]
           /\ q.st = RenewedStore(c.st, e)
           /\ q.rec = RenewedWork(c.rec, c.lo.overtaken)
<1> DEFINE ft == [s \in Sessions |-> Unasked]
           st == RenewedStore(c.st, e)
           rec == RenewedWork(c.rec, c.lo.overtaken)
<1>1. ft \in [Sessions -> Answered]
  BY Values
<1>2. c.lo.overtaken \in SUBSET Sessions
  BY PageFields DEF Loss
<1>3. q = [c EXCEPT !.st = st, !.ft = ft, !.rec = rec, !.lo = NoLoss]
  BY DEF Renewed
<1>4. st \in Stores
  BY PageFields, RenewedStoreFields
<1>5. rec \in Recoveries
  BY <1>2, PageFields, RenewedWorkFields
<1> HIDE DEF ft, st, rec
<1>6. q \in Pages /\ q.str = c.str /\ q.ls = c.ls /\ q.lo = NoLoss /\ q.ft = ft
      /\ q.st = st /\ q.rec = rec
  BY <1>1, <1>3, <1>4, <1>5, Values DEF Pages
<1>7. QED
  BY <1>6 DEF st, rec, ft

\* applyVerifiedEpochChange is that page, and then a signal for its residents.
LEMMA EpochChangeDoes ==
    ASSUME NEW c \in Pages, NEW e \in Epochs
    PROVE  ApplyEpochChange(c, e) =
             IF c.st.epoch = e THEN c
             ELSE QueueRecovery(Renewed(c, e), c.st.hydrated, Directories)
BY DEF ApplyEpochChange, Renewed, RenewedStore, RenewedWork

\* queueSyncRecovery leaves the page in its type.
LEMMA QueueTyped ==
    ASSUME NEW c \in Pages,
           NEW sessions \in SUBSET Sessions, NEW directories \in SUBSET Directories
    PROVE  QueueRecovery(c, sessions, directories) \in Pages
<1>1. CASE sessions \cup directories = {}
  BY <1>1 DEF QueueRecovery
<1>2. CASE sessions \cup directories # {}
  BY <1>2, QueueDoes DEF OnlySignal
<1>3. QED
  BY <1>1, <1>2

\* So does applyVerifiedEpochChange.
LEMMA EpochChangeTyped ==
    ASSUME NEW c \in Pages, NEW e \in Epochs
    PROVE  ApplyEpochChange(c, e) \in Pages
<1>1. Renewed(c, e) \in Pages
  BY RenewedDoes
<1>2. c.st.hydrated \in SUBSET Sessions
  BY PageFields DEF Stores
<1>3. QED
  BY <1>1, <1>2, QueueTyped, EpochChangeDoes

-----------------------------------------------------------------------------
(* What the handlers make of the store, and its fields.                    *)

Reloaded(st, s) == [st EXCEPT !.loadError = @ \ {s}]
Restoring(st, s) == [st EXCEPT !.loadError = @ \ {s}, !.restoring = @ \cup {s}]
Restored(st, s) == [st EXCEPT !.restoring = @ \cup {s}]
Buried(st, s) ==
    [st EXCEPT !.tombstones = @ \cup {s}, !.rows[s] = NoRow,
               !.hydrated = @ \ {s}, !.loadError = @ \ {s}, !.restoring = @ \ {s},
               !.selected = IF @ = s THEN NoSession ELSE @]
WithRow(st, s, row) == [st EXCEPT !.rows[s] = row, !.cursor[s] = row.last]
WithDetail(st, s, row) ==
    [WithRow(st, s, row) EXCEPT
       !.hydrated = @ \cup {s}, !.loadError = @ \ {s}, !.error = FALSE]

\* The fields none of these handlers touches.
SameChrome(st, old) ==
    /\ st.epoch = old.epoch /\ st.connection = old.connection

\* A new hydrate clears the session's error.
LEMMA ReloadedFields ==
    ASSUME NEW old \in Stores, NEW s \in Sessions, NEW st,
           st = Reloaded(old, s)
    PROVE  /\ st \in Stores /\ SameChrome(st, old)
           /\ st.loadError = old.loadError \ {s}
           /\ st.rows = old.rows /\ st.cursor = old.cursor
           /\ st.hydrated = old.hydrated /\ st.tombstones = old.tombstones
           /\ st.restoring = old.restoring /\ st.selected = old.selected
           /\ st.error = old.error
BY DEF Reloaded, Stores, SameChrome

\* restoreTranscript marks the session.
LEMMA RestoredFields ==
    ASSUME NEW old \in Stores, NEW s \in Sessions, NEW st,
           st = Restored(old, s)
    PROVE  /\ st \in Stores /\ SameChrome(st, old)
           /\ st.loadError = old.loadError
           /\ st.rows = old.rows /\ st.cursor = old.cursor
           /\ st.hydrated = old.hydrated /\ st.tombstones = old.tombstones
           /\ st.restoring = old.restoring \cup {s} /\ st.selected = old.selected
           /\ st.error = old.error
BY DEF Restored, Stores, SameChrome

\* commitDeletion removes the row and keeps the cursor.
LEMMA BuriedFields ==
    ASSUME NEW old \in Stores, NEW s \in Sessions, NEW st,
           st = Buried(old, s)
    PROVE  /\ st \in Stores /\ SameChrome(st, old)
           /\ st.tombstones = old.tombstones \cup {s}
           /\ st.hydrated = old.hydrated \ {s}
           /\ st.loadError = old.loadError \ {s}
           /\ st.restoring = old.restoring \ {s}
           /\ st.cursor = old.cursor /\ st.error = old.error
           /\ st.rows[s] = NoRow
           /\ \A t \in Sessions \ {s} : st.rows[t] = old.rows[t]
<1> DEFINE rows == [old.rows EXCEPT ![s] = NoRow]
           selected == IF old.selected = s THEN NoSession ELSE old.selected
<1>1. rows \in [Sessions -> Row] /\ selected \in Sessions \cup {NoSession}
  BY Values DEF Stores
<1>2. rows[s] = NoRow /\ \A t \in Sessions \ {s} : rows[t] = old.rows[t]
  BY DEF Stores
<1>3. st = [old EXCEPT !.tombstones = @ \cup {s}, !.rows = rows,
               !.hydrated = @ \ {s}, !.loadError = @ \ {s}, !.restoring = @ \ {s},
               !.selected = selected]
  <2> DEFINE a == [old EXCEPT !.tombstones = @ \cup {s}]
  <2>1. a.rows = old.rows
    BY DEF Stores
  <2>2. QED
    BY <2>1 DEF Buried, Stores
<1> HIDE DEF rows, selected
<1>4. st \in Stores
  <2> DEFINE a == [old EXCEPT !.tombstones = @ \cup {s}, !.rows = rows,
                              !.selected = selected]
  <2>1. a \in Stores
    BY <1>1 DEF Stores
  <2>2. st = [a EXCEPT !.hydrated = @ \ {s}, !.loadError = @ \ {s},
                       !.restoring = @ \ {s}]
    BY <1>3 DEF Stores
  <2> HIDE DEF a
  <2>3. QED
    BY <2>1, <2>2 DEF Stores
<1>5. /\ st.tombstones = old.tombstones \cup {s}
      /\ st.hydrated = old.hydrated \ {s}
      /\ st.loadError = old.loadError \ {s}
      /\ st.restoring = old.restoring \ {s}
      /\ st.rows = rows
  BY <1>3 DEF Stores
<1>6. /\ st.cursor = old.cursor /\ st.error = old.error
      /\ st.epoch = old.epoch /\ st.connection = old.connection
  BY <1>3 DEF Stores
<1>7. QED
  BY <1>2, <1>4, <1>5, <1>6 DEF SameChrome

\* A row is set together with its cursor.
LEMMA WithRowFields ==
    ASSUME NEW old \in Stores, NEW s \in Sessions, NEW row \in Row, NEW st,
           st = WithRow(old, s, row)
    PROVE  /\ st \in Stores /\ SameChrome(st, old)
           /\ st.tombstones = old.tombstones /\ st.hydrated = old.hydrated
           /\ st.loadError = old.loadError /\ st.restoring = old.restoring
           /\ st.error = old.error /\ st.selected = old.selected
           /\ st.rows[s] = row /\ st.cursor[s] = row.last
           /\ \A t \in Sessions \ {s} : st.rows[t] = old.rows[t]
           /\ \A t \in Sessions \ {s} : st.cursor[t] = old.cursor[t]
<1> DEFINE rows == [old.rows EXCEPT ![s] = row]
           cursor == [old.cursor EXCEPT ![s] = row.last]
<1>1. rows \in [Sessions -> Row] /\ cursor \in [Sessions -> Cursors]
  BY DEF Stores, Row, Cursors
<1>2. rows[s] = row /\ \A t \in Sessions \ {s} : rows[t] = old.rows[t]
  BY DEF Stores
<1>3. cursor[s] = row.last /\ \A t \in Sessions \ {s} : cursor[t] = old.cursor[t]
  BY DEF Stores
<1>4. st = [old EXCEPT !.rows = rows, !.cursor = cursor]
  BY DEF WithRow, Stores
<1> HIDE DEF rows, cursor
<1>5. QED
  BY <1>1, <1>2, <1>3, <1>4 DEF Stores, SameChrome

\* commitHydratedSession sets the row, and counts the session as hydrated.
LEMMA WithDetailFields ==
    ASSUME NEW old \in Stores, NEW s \in Sessions, NEW row \in Row, NEW st,
           st = WithDetail(old, s, row)
    PROVE  /\ st \in Stores /\ SameChrome(st, old)
           /\ st.tombstones = old.tombstones
           /\ st.hydrated = old.hydrated \cup {s}
           /\ st.loadError = old.loadError \ {s}
           /\ st.restoring = old.restoring /\ st.selected = old.selected
           /\ st.rows[s] = row /\ st.cursor[s] = row.last
           /\ \A t \in Sessions \ {s} : st.rows[t] = old.rows[t]
           /\ \A t \in Sessions \ {s} : st.cursor[t] = old.cursor[t]
<1> DEFINE a == WithRow(old, s, row)
<1>1. st = [a EXCEPT !.hydrated = @ \cup {s}, !.loadError = @ \ {s}, !.error = FALSE]
  BY DEF WithDetail
<1>2. /\ a \in Stores /\ SameChrome(a, old)
      /\ a.tombstones = old.tombstones /\ a.hydrated = old.hydrated
      /\ a.loadError = old.loadError /\ a.restoring = old.restoring
      /\ a.selected = old.selected
      /\ a.rows[s] = row /\ a.cursor[s] = row.last
      /\ \A t \in Sessions \ {s} : a.rows[t] = old.rows[t]
      /\ \A t \in Sessions \ {s} : a.cursor[t] = old.cursor[t]
  BY WithRowFields
<1> HIDE DEF a
<1>3. st \in Stores
  <2>1. a \in Stores
    BY <1>2
  <2> HIDE <1>2
  <2>2. [a EXCEPT !.hydrated = @ \cup {s}, !.loadError = @ \ {s}, !.error = FALSE]
          \in Stores
    BY <2>1 DEF Stores
  <2>3. QED
    BY <1>1, <2>2
<1>4. /\ st.epoch = a.epoch /\ st.connection = a.connection
      /\ st.tombstones = a.tombstones /\ st.rows = a.rows /\ st.cursor = a.cursor
      /\ st.restoring = a.restoring /\ st.selected = a.selected
  BY <1>1, <1>2 DEF Stores
<1>5. /\ st.hydrated = a.hydrated \cup {s} /\ st.loadError = a.loadError \ {s}
  BY <1>1, <1>2 DEF Stores
<1>6. QED
  BY <1>2, <1>3, <1>4, <1>5 DEF SameChrome

-----------------------------------------------------------------------------
(* The handlers of transcripts.                                            *)

\* A handler that touches only the store and the fetches.
OnlyTranscripts(q, c) ==
    /\ q \in Pages
    /\ q.rec = c.rec /\ q.str = c.str /\ q.ls = c.ls /\ q.lo = c.lo

\* Replacing the store replaces nothing else.
LEMMA NewStore ==
    ASSUME NEW c \in Pages, NEW st \in Stores, NEW q, q = [c EXCEPT !.st = st]
    PROVE  OnlyTranscripts(q, c) /\ q.ft = c.ft /\ q.st = st
BY DEF Pages, OnlyTranscripts

\* A read of session s is begun.
Refetched(q, c, s) ==
    /\ s \notin c.st.tombstones /\ c.ft[s] = Unasked
    /\ q.st = Reloaded(c.st, s)
    /\ q.ft[s] = Asked
    /\ \A t \in Sessions \ {s} : q.ft[t] = c.ft[t]

\* hydrate asks at most once, and not for a deleted session.
LEMMA HydrateDoes ==
    ASSUME NEW c \in Pages, NEW s \in Sessions, NEW q, q = Hydrate(c, s)
    PROVE  /\ OnlyTranscripts(q, c)
           /\ \/ q = c /\ (s \in c.st.tombstones \/ c.ft[s] # Unasked)
              \/ Refetched(q, c, s)
<1> DEFINE ft == [c.ft EXCEPT ![s] = Asked]
           st == Reloaded(c.st, s)
<1>1. /\ ft \in [Sessions -> Answered]
      /\ ft[s] = Asked
      /\ \A t \in Sessions \ {s} : ft[t] = c.ft[t]
  BY Values, PageFields
<1>2. st \in Stores
  BY PageFields, ReloadedFields
<1>3. q = IF s \in c.st.tombstones \/ c.ft[s] # Unasked THEN c
          ELSE [c EXCEPT !.ft = ft, !.st = st]
  BY PageFields DEF Hydrate, Reloaded
<1> HIDE DEF ft, st
<1>4. CASE s \in c.st.tombstones \/ c.ft[s] # Unasked
  BY <1>3, <1>4 DEF OnlyTranscripts
<1>5. CASE ~(s \in c.st.tombstones \/ c.ft[s] # Unasked)
  <2>1. q \in Pages /\ q.rec = c.rec /\ q.str = c.str /\ q.ls = c.ls /\ q.lo = c.lo
        /\ q.st = st /\ q.ft = ft
    BY <1>1, <1>2, <1>3, <1>5 DEF Pages
  <2>2. QED
    BY <1>1, <1>5, <2>1 DEF OnlyTranscripts, Refetched, st
<1>6. QED
  BY <1>4, <1>5

\* restoreTranscript hydrates the session, unless it is at it already.
LEMMA RestoreDoes ==
    ASSUME NEW c \in Pages, NEW s \in Sessions \ c.st.tombstones,
           NEW q, q = Restore(c, s)
    PROVE  /\ OnlyTranscripts(q, c)
           /\ \/ q = c /\ s \in c.st.restoring
              \/ /\ s \notin c.st.restoring /\ c.ft[s] # Unasked
                 /\ q.ft = c.ft
                 /\ q.st = Restored(c.st, s)
              \/ /\ s \notin c.st.restoring /\ c.ft[s] = Unasked
                 /\ q.st = Restored(Reloaded(c.st, s), s)
                 /\ q.ft[s] = Asked
                 /\ \A t \in Sessions \ {s} : q.ft[t] = c.ft[t]
<1> DEFINE h == Hydrate(c, s)
           st == Restored(h.st, s)
<1>1. h \in Pages /\ h.rec = c.rec /\ h.str = c.str /\ h.ls = c.ls /\ h.lo = c.lo
  BY HydrateDoes DEF OnlyTranscripts
<1>2. \/ h = c /\ c.ft[s] # Unasked
      \/ /\ c.ft[s] = Unasked
         /\ h.st = Reloaded(c.st, s)
         /\ h.ft[s] = Asked
         /\ \A t \in Sessions \ {s} : h.ft[t] = c.ft[t]
  BY HydrateDoes DEF Refetched
<1>3. q = IF s \in c.st.restoring THEN c ELSE [h EXCEPT !.st = st]
  <2>1. s \notin c.st.tombstones
    OBVIOUS
  <2>2. [h EXCEPT !.st.restoring = IF s \in c.st.tombstones THEN @ ELSE @ \cup {s}]
          = [h EXCEPT !.st = st]
    BY <1>1, <2>1, PageFields DEF Restored
  <2>3. QED
    BY <2>2 DEF Restore
<1> HIDE DEF h
<1>4. st \in Stores
  BY <1>1, PageFields, RestoredFields
<1>5. CASE s \in c.st.restoring
  BY <1>3, <1>5 DEF OnlyTranscripts
<1>6. CASE s \notin c.st.restoring
  <2> DEFINE goal == [h EXCEPT !.st = st]
  <2>1. OnlyTranscripts(q, h) /\ q.ft = h.ft /\ q.st = st
    <3> HIDE DEF st
    <3> QED BY <1>1, <1>3, <1>4, <1>6, NewStore
  <2>2. QED
    BY <1>1, <1>2, <1>6, <2>1 DEF OnlyTranscripts
<1>7. QED
  BY <1>5, <1>6

\* commitDeletion changes the store only.
LEMMA DeletionDoes ==
    ASSUME NEW c \in Pages, NEW s \in Sessions, NEW q, q = CommitDeletion(c, s)
    PROVE  OnlyTranscripts(q, c) /\ q.ft = c.ft /\ q.st = Buried(c.st, s)
<1>1. Buried(c.st, s) \in Stores
  BY BuriedFields, PageFields
<1>2. q = [c EXCEPT !.st = Buried(c.st, s)]
  BY DEF CommitDeletion, Buried
<1>3. QED
  BY <1>1, <1>2, NewStore

\* Setting a row changes the store only.
LEMMA SetRowDoes ==
    ASSUME NEW c \in Pages, NEW s \in Sessions, NEW row \in Row,
           NEW q, q = SetRow(c, s, row)
    PROVE  OnlyTranscripts(q, c) /\ q.ft = c.ft /\ q.st = WithRow(c.st, s, row)
<1>1. WithRow(c.st, s, row) \in Stores
  BY WithRowFields, PageFields
<1>2. q = [c EXCEPT !.st = WithRow(c.st, s, row)]
  BY DEF SetRow, WithRow
<1>3. QED
  BY <1>1, <1>2, NewStore

\* mergeHydratedSession makes a row of two rows.
LEMMA MergeTyped ==
    ASSUME NEW fetched \in Row, NEW existing \in Row
    PROVE  Merge(fetched, existing) \in Row
BY DEF Merge, Row

\* commitHydratedSession, of a session that is not deleted, merges the row.
LEMMA DetailDoes ==
    ASSUME NEW c \in Pages, NEW s \in Sessions, NEW row \in Row,
           s \notin c.st.tombstones,
           NEW q, q = CommitDetail(c, s, row)
    PROVE  /\ OnlyTranscripts(q, c) /\ q.ft = c.ft
           /\ Merge(row, c.st.rows[s]) \in Row
           /\ q.st = WithDetail(c.st, s, Merge(row, c.st.rows[s]))
<1> DEFINE merged == Merge(row, c.st.rows[s])
           p == SetRow(c, s, merged)
           st == WithDetail(c.st, s, merged)
<1>1. merged \in Row
  BY PageFields, MergeTyped DEF Stores
<1>2. q = Hydrated(p, s)
  BY DEF CommitDetail
<1> HIDE DEF merged
<1>3. OnlyTranscripts(p, c) /\ p.ft = c.ft /\ p.st = WithRow(c.st, s, merged)
  BY <1>1, SetRowDoes
<1> HIDE DEF p
<1>4. st \in Stores
  BY <1>1, WithDetailFields, PageFields
<1>5. q = [p EXCEPT !.st = st]
  BY <1>2, <1>3 DEF Hydrated, WithDetail
<1> HIDE DEF st
<1>6. OnlyTranscripts(q, p) /\ q.ft = p.ft /\ q.st = st
  BY <1>3, <1>4, <1>5, NewStore DEF OnlyTranscripts
<1>7. QED
  BY <1>1, <1>3, <1>6 DEF OnlyTranscripts, merged, st

\* A row is set and its transcript read again.
LEMMA RestoredRow ==
    ASSUME NEW c \in Pages, NEW s \in Sessions \ c.st.tombstones, NEW row \in Row,
           NEW q, q = Restore(SetRow(c, s, row), s)
    PROVE  /\ OnlyTranscripts(q, c)
           /\ q.st.epoch = c.st.epoch /\ q.st.hydrated = c.st.hydrated
           /\ q.st.tombstones = c.st.tombstones
           /\ q.st.restoring = c.st.restoring \cup {s}
           /\ q.st.rows[s] = row /\ q.st.cursor[s] = row.last
           /\ \A t \in Sessions \ {s} : q.st.rows[t] = c.st.rows[t]
           /\ \A t \in Sessions \ {s} : q.st.cursor[t] = c.st.cursor[t]
           /\ \A t \in Sessions \ {s} : t \in q.st.loadError <=> t \in c.st.loadError
           /\ \A t \in Sessions \ {s} : q.ft[t] = c.ft[t]
           /\ \/ q.ft[s] = c.ft[s] /\ (s \in c.st.restoring \/ c.ft[s] # Unasked)
              \/ q.ft[s] = Asked /\ c.ft[s] = Unasked
<1> DEFINE p == SetRow(c, s, row)
           st == WithRow(c.st, s, row)
<1>1. OnlyTranscripts(p, c) /\ p.ft = c.ft /\ p.st = st
  BY SetRowDoes
<1>2. /\ st \in Stores /\ st.epoch = c.st.epoch
      /\ st.tombstones = c.st.tombstones /\ st.hydrated = c.st.hydrated
      /\ st.loadError = c.st.loadError /\ st.restoring = c.st.restoring
      /\ st.rows[s] = row /\ st.cursor[s] = row.last
      /\ \A t \in Sessions \ {s} : st.rows[t] = c.st.rows[t]
      /\ \A t \in Sessions \ {s} : st.cursor[t] = c.st.cursor[t]
  BY PageFields, WithRowFields DEF SameChrome
<1> HIDE DEF p, st
<1>3. /\ OnlyTranscripts(q, p)
      /\ \/ q = p /\ s \in p.st.restoring
         \/ /\ s \notin p.st.restoring /\ p.ft[s] # Unasked
            /\ q.ft = p.ft
            /\ q.st = Restored(p.st, s)
         \/ /\ s \notin p.st.restoring /\ p.ft[s] = Unasked
            /\ q.st = Restored(Reloaded(p.st, s), s)
            /\ q.ft[s] = Asked
            /\ \A t \in Sessions \ {s} : q.ft[t] = p.ft[t]
  <2>1. p \in Pages /\ s \in Sessions \ p.st.tombstones
    BY <1>1, <1>2 DEF OnlyTranscripts
  <2>2. QED
    BY <2>1, RestoreDoes DEF p
<1>4. OnlyTranscripts(q, c)
  BY <1>1, <1>3 DEF OnlyTranscripts
<1>5. CASE q = p /\ s \in p.st.restoring
  <2>1. c.st.restoring = c.st.restoring \cup {s}
    BY <1>5, <1>1, <1>2
  <2>2. QED
    BY <1>1, <1>2, <1>4, <1>5, <2>1
<1>6. CASE /\ s \notin p.st.restoring /\ p.ft[s] # Unasked
           /\ q.ft = p.ft
           /\ q.st = Restored(p.st, s)
  <2>1. /\ q.st.epoch = st.epoch /\ q.st.loadError = st.loadError
        /\ q.st.rows = st.rows /\ q.st.cursor = st.cursor
        /\ q.st.hydrated = st.hydrated /\ q.st.tombstones = st.tombstones
        /\ q.st.restoring = st.restoring \cup {s}
    BY <1>1, <1>2, <1>6, RestoredFields DEF SameChrome
  <2>2. QED
    BY <1>1, <1>2, <1>4, <1>6, <2>1
<1>7. CASE /\ s \notin p.st.restoring /\ p.ft[s] = Unasked
           /\ q.st = Restored(Reloaded(p.st, s), s)
           /\ q.ft[s] = Asked
           /\ \A t \in Sessions \ {s} : q.ft[t] = p.ft[t]
  <2> DEFINE w == Reloaded(st, s)
  <2>1. /\ w \in Stores /\ w.epoch = st.epoch /\ w.loadError = st.loadError \ {s}
        /\ w.rows = st.rows /\ w.cursor = st.cursor
        /\ w.hydrated = st.hydrated /\ w.tombstones = st.tombstones
        /\ w.restoring = st.restoring
    BY <1>2, ReloadedFields DEF SameChrome
  <2> HIDE DEF w
  <2>2. q.st = Restored(w, s)
    BY <1>1, <1>7 DEF w
  <2>3. /\ q.st.epoch = w.epoch /\ q.st.loadError = w.loadError
        /\ q.st.rows = w.rows /\ q.st.cursor = w.cursor
        /\ q.st.hydrated = w.hydrated /\ q.st.tombstones = w.tombstones
        /\ q.st.restoring = w.restoring \cup {s}
    BY <2>1, <2>2, RestoredFields DEF SameChrome
  <2>4. QED
    BY <1>1, <1>2, <1>4, <1>7, <2>1, <2>3
<1>8. QED
  BY <1>3, <1>5, <1>6, <1>7

-----------------------------------------------------------------------------
(* The handlers of the stream.                                             *)

\* A set of naturals that is not empty has a least element.
LEMMA LeastNatural ==
    ASSUME NEW T \in SUBSET Nat, T # {}
    PROVE  \E n \in T : \A m \in T : n <= m
<1> DEFINE less == {ss \in Nat \X Nat : ss[1] < ss[2]}
<1>1. IsWellFoundedOn(less, Nat)
  BY NatLessThanWellFounded DEF OpToRel
<1> HIDE DEF less
<1>2. PICK n \in T : \A m \in T : ~ (<<m, n>> \in less)
  BY <1>1, WFMin
<1>3. \A m \in T : ~(m < n)
  BY <1>2 DEF less
<1> QED
  BY <1>2, <1>3

\* streamCursor is one of the cursors, or there is none.
LEMMA StreamCursorIs ==
    ASSUME NEW c \in Pages
    PROVE  /\ StreamCursor(c) \in Cursors
           /\ StreamCursor(c) = -1 \/ \E s \in Sessions : StreamCursor(c) = c.st.cursor[s]
<1> DEFINE S == {c.st.cursor[s] : s \in Sessions} \cup {NoSequence}
           T == {MaxSequence - x : x \in S}
<1>1. S \subseteq Cursors /\ S # {}
  BY PageFields, Values DEF Stores
<1>2. \A x \in S : x = -1 \/ \E s \in Sessions : x = c.st.cursor[s]
  BY Values
<1>3. StreamCursor(c) = Max(S)
  BY DEF StreamCursor
<1> HIDE DEF S
<1>4. T \in SUBSET Nat /\ T # {}
  <2>1. \A x \in Cursors : MaxSequence - x \in Nat
    BY StoreAssumption DEF Cursors
  <2>2. QED
    BY <1>1, <2>1
<1>5. PICK n \in T : \A m \in T : n <= m
  BY <1>4, LeastNatural
<1>6. PICK x \in S : n = MaxSequence - x
  BY <1>5
<1>7. \A y \in S : x >= y
  <2> SUFFICES ASSUME NEW y \in S PROVE x >= y
    OBVIOUS
  <2>1. n <= MaxSequence - y
    BY <1>5
  <2>2. QED
    BY <1>1, <1>6, <2>1, StoreAssumption DEF Cursors
<1>8. Max(S) \in S
  BY <1>7 DEF Max
<1>9. QED
  BY <1>1, <1>2, <1>3, <1>8

SameTransport(str, old) ==
    /\ str.kind = old.kind /\ str.up = old.up /\ str.epoch = old.epoch
    /\ str.cursor = old.cursor /\ str.frame = old.frame
    /\ str.resyncObserved = old.resyncObserved

OnlyStream(q, c) ==
    /\ q \in Pages
    /\ q.st = c.st /\ q.rec = c.rec /\ q.ft = c.ft /\ q.ls = c.ls /\ q.lo = c.lo

\* Replacing the stream replaces nothing else.
LEMMA NewStream ==
    ASSUME NEW c \in Pages, NEW str \in Streams, NEW q, q = [c EXCEPT !.str = str]
    PROVE  OnlyStream(q, c) /\ q.str = str
BY DEF Pages, OnlyStream

\* A reconnect begins from the cursor of this moment, unless one is active.
LEMMA BeginReconnectDoes ==
    ASSUME NEW c \in Pages, NEW s \in Sessions, NEW q, q = BeginReconnect(c, s)
    PROVE  /\ OnlyStream(q, c)
           /\ SameTransport(q.str, c.str)
           /\ \/ q = c /\ c.str.reconnect.active
              \/ /\ ~c.str.reconnect.active
                 /\ q.str.reconnect.active /\ ~q.str.reconnect.superseded
                 /\ q.str.reconnect.session = s
                 /\ q.str.reconnect.cursor = StreamCursor(c)
                 /\ q.str.reconnect.reply = Asked
<1> DEFINE r == [active |-> TRUE, superseded |-> FALSE, session |-> s,
                 cursor |-> StreamCursor(c), reply |-> Asked]
           str == [c.str EXCEPT !.reconnect = r]
<1>1. r \in Reconnects
  BY StreamCursorIs, Values DEF Reconnects
<1>2. r.active /\ ~r.superseded /\ r.session = s /\ r.cursor = StreamCursor(c)
      /\ r.reply = Asked
  OBVIOUS
<1>3. q = IF c.str.reconnect.active THEN c ELSE [c EXCEPT !.str = str]
  BY DEF BeginReconnect
<1> HIDE DEF r
<1>4. str \in Streams /\ SameTransport(str, c.str) /\ str.reconnect = r
  BY <1>1, PageFields DEF Streams, SameTransport
<1> HIDE DEF str
<1>5. CASE c.str.reconnect.active
  BY <1>3, <1>5 DEF OnlyStream, SameTransport
<1>6. CASE ~c.str.reconnect.active
  <2>1. OnlyStream(q, c) /\ q.str = str
    BY <1>3, <1>4, <1>6, NewStream
  <2>2. QED
    BY <1>2, <1>4, <1>6, <2>1
<1>7. QED
  BY <1>5, <1>6

\* The transcripts and all that decides on them.
SameTranscripts(st, old) ==
    /\ st.epoch = old.epoch /\ st.rows = old.rows /\ st.cursor = old.cursor
    /\ st.hydrated = old.hydrated /\ st.tombstones = old.tombstones
    /\ st.restoring = old.restoring /\ st.loadError = old.loadError

SameWork(rec, old) ==
    /\ rec.residents = old.residents /\ rec.directories = old.directories
    /\ rec.reply = old.reply /\ rec.failed = old.failed
    /\ rec.stale = old.stale /\ rec.covered = old.covered

SamePass(rec, old) ==
    /\ rec.stage = old.stage /\ rec.todo = old.todo /\ rec.current = old.current

\* A pass that begins.
Begun(rec, old) ==
    /\ old.stage = "idle" /\ rec.stage = "residents"
    /\ rec.current = TRUE /\ rec.todo = rec.residents

\* The attempts that are left to a pass that runs or waits for its timer.
Timely(rec) == rec.stage # "idle" \/ rec.timer => rec.attempt <= MaxAttempts

\* A pass that starts leaves the obligations as they are.
LEMMA BegunOrSame ==
    ASSUME NEW c \in Pages
    PROVE  /\ SameWork(StartPass(c).rec, c.rec)
           /\ SamePass(StartPass(c).rec, c.rec) \/ Begun(StartPass(c).rec, c.rec)
           /\ StartPass(c).rec.attempt = c.rec.attempt
           /\ StartPass(c).rec.timer = c.rec.timer
<1> DEFINE rec == StartPass(c).rec
<1>1. rec = IF c.rec.stage = "idle" /\ Owed(c) THEN Starting(c.rec) ELSE c.rec
  BY StartPassDoes
<1> HIDE DEF rec
<1>2. SameWork(rec, c.rec) /\ rec.attempt = c.rec.attempt /\ rec.timer = c.rec.timer
  BY <1>1, PageFields DEF Recoveries, SameWork, Starting
<1>3. SamePass(rec, c.rec) \/ Begun(rec, c.rec)
  BY <1>1, PageFields DEF Recoveries, SamePass, Begun, Starting
<1>4. QED
  BY <1>2, <1>3 DEF rec

\* A stream that is up again supersedes the reconnect, and may start a pass.
LEMMA StreamReconnectedDoes ==
    ASSUME NEW c \in Pages, NEW q, q = StreamReconnected(c)
    PROVE  /\ q \in Pages /\ q.ft = c.ft /\ q.ls = c.ls /\ q.lo = c.lo
           /\ SameTranscripts(q.st, c.st) /\ q.st.selected = c.st.selected
           /\ SameWork(q.rec, c.rec)
           /\ SamePass(q.rec, c.rec) \/ Begun(q.rec, c.rec)
           /\ Timely(c.rec) => Timely(q.rec)
           /\ SameTransport(q.str, c.str)
           /\ q.str.reconnect.active = c.str.reconnect.active
           /\ q.str.reconnect.session = c.str.reconnect.session
           /\ q.str.reconnect.cursor = c.str.reconnect.cursor
           /\ q.str.reconnect.reply = c.str.reconnect.reply
           /\ c.str.reconnect.active => q.str.reconnect.superseded
<1> DEFINE old == c.str.reconnect
           b == old.superseded \/ old.active
           r == [old EXCEPT !.superseded = b]
           str == [c.str EXCEPT !.reconnect = r]
           a == [c EXCEPT !.str = str]
<1>1. b \in BOOLEAN /\ (old.active => b)
  OBVIOUS
<1>2. old \in Reconnects
  BY PageFields DEF Streams
<1>3. a = [c EXCEPT !.str.reconnect.superseded = @ \/ c.str.reconnect.active]
  BY PageFields DEF Streams, Reconnects
<1> HIDE DEF b
<1> HIDE DEF old
<1>4. /\ r \in Reconnects /\ r.active = old.active /\ r.session = old.session
      /\ r.cursor = old.cursor /\ r.reply = old.reply /\ r.superseded = b
  BY <1>1, <1>2 DEF Reconnects
<1> HIDE DEF r
<1>5. str \in Streams /\ SameTransport(str, c.str) /\ str.reconnect = r
  BY <1>4, PageFields DEF Streams, SameTransport
<1> HIDE DEF str
<1>6. OnlyStream(a, c) /\ a.str = str
  BY <1>5, NewStream
<1> DEFINE zero == 0
           rec == [a.rec EXCEPT !.attempt = zero]
           p == [a EXCEPT !.rec = rec]
           st == [a.st EXCEPT !.connection = "ready", !.error = FALSE]
           e == [a EXCEPT !.st = st]
<1>7. q = IF c.st.connection = "ready" /\ ~c.st.error
          THEN IF Owed(c) THEN StartPass(p) ELSE a
          ELSE e
  <2>1. [a EXCEPT !.rec.attempt = 0] = p
    OBVIOUS
  <2>2. [a EXCEPT !.st.connection = "ready", !.st.error = FALSE] = e
    BY <1>6 DEF OnlyStream, Pages, Stores
  <2> HIDE DEF a, p, e
  <2>3. QED
    BY <1>3, <2>1, <2>2 DEF StreamReconnected
<1> HIDE DEF a
<1>8. zero \in Attempts /\ zero <= MaxAttempts
  BY Values, StoreAssumption
<1> HIDE DEF zero
<1>9. a \in Pages /\ a.st = c.st /\ a.rec = c.rec /\ a.ft = c.ft /\ a.ls = c.ls
      /\ a.lo = c.lo
  BY <1>6 DEF OnlyStream
<1>10. /\ rec \in Recoveries /\ SameWork(rec, c.rec) /\ SamePass(rec, c.rec)
       /\ rec.timer = c.rec.timer /\ rec.attempt = zero
  BY <1>8, <1>9, PageFields DEF Recoveries, SameWork, SamePass
<1>11. st \in Stores /\ SameTranscripts(st, c.st) /\ st.selected = c.st.selected
  BY <1>9, PageFields DEF Stores, SameTranscripts
<1> HIDE DEF rec, st
<1>12. CASE q = StartPass(p)
  <2>1. p \in Pages /\ p.rec = rec /\ p.st = c.st /\ p.str = str /\ p.ft = c.ft
        /\ p.ls = c.ls /\ p.lo = c.lo
    BY <1>6, <1>9, <1>10 DEF Pages
  <2> HIDE DEF p
  <2>2. q \in Pages /\ q.st = c.st /\ q.str = str /\ q.ft = c.ft /\ q.ls = c.ls
        /\ q.lo = c.lo
    BY <1>12, <2>1, StartPassDoes
  <2>3. /\ SameWork(q.rec, c.rec)
        /\ SamePass(q.rec, c.rec) \/ Begun(q.rec, c.rec)
        /\ q.rec.attempt = zero
    <3>1. /\ SameWork(q.rec, rec) /\ q.rec.attempt = rec.attempt
          /\ SamePass(q.rec, rec) \/ Begun(q.rec, rec)
      BY <1>12, <2>1, BegunOrSame
    <3>2. SameWork(q.rec, c.rec) /\ q.rec.attempt = zero
      BY <1>10, <3>1 DEF SameWork
    <3>3. CASE SamePass(q.rec, rec)
      BY <1>10, <3>2, <3>3 DEF SamePass
    <3>4. CASE Begun(q.rec, rec)
      BY <1>10, <3>2, <3>4 DEF Begun, SamePass
    <3>5. QED
      BY <3>1, <3>2, <3>3, <3>4
  <2>4. QED
    BY <1>1, <1>4, <1>5, <1>8, <2>2, <2>3 DEF old, Timely, SameTranscripts
<1>13. CASE q = a
  BY <1>1, <1>4, <1>5, <1>6, <1>9, <1>13
  DEF old, SameTranscripts, SameWork, SamePass
<1>14. CASE q = e
  <2>1. q \in Pages /\ q.st = st /\ q.str = str /\ q.ft = c.ft /\ q.ls = c.ls
        /\ q.lo = c.lo /\ q.rec = c.rec
    BY <1>6, <1>9, <1>11, <1>14 DEF Pages
  <2>2. QED
    BY <1>1, <1>4, <1>5, <1>11, <2>1 DEF old, SameWork, SamePass
<1>15. QED
  BY <1>7, <1>12, <1>13, <1>14

-----------------------------------------------------------------------------
(* The obligations of the recovery: what has to hold between the pass, its *)
(* reads and the listings.                                                 *)

\* Reads are in flight for the residents left to do, and a current pass has none
\* that is older than the last signal.
PassInv(rec) ==
    /\ rec.stage = "idle" => rec.todo = {}
    /\ \A s \in Sessions :
          rec.reply[s] # Unasked =>
            s \in rec.todo /\ rec.stage = "residents" /\ (rec.current => s \notin rec.stale)
    /\ \A s \in rec.stale : rec.reply[s] # Unasked
    /\ Timely(rec)

\* A session is still owed, or was read, or needs no read.
SessionsCovered(c) ==
    \A s \in Sessions : s \in c.rec.residents \cup c.rec.covered
                                \cup c.st.tombstones \cup c.lo.overtaken

\* One directory d, whose two listings are p (the pass's) and o.
Listed(rec, d, p, o) ==
    /\ \/ d \in rec.directories \cup rec.covered \cup rec.failed
       \/ o.latest /\ o.fresh
    /\ p # NoList => /\ rec.stage = "directories" /\ d \in rec.todo
                     /\ d \in rec.directories /\ (rec.current => p.fresh)
    /\ p.fresh /\ ~p.latest => d \in rec.covered \cup rec.failed \/ (o.latest /\ o.fresh)
    /\ o.latest /\ p.fresh /\ ~p.latest => o.fresh
    /\ ~(o.latest /\ p.latest)
    /\ o.latest /\ ~o.fresh => d \in rec.directories

DirectoriesCovered(c) ==
    \A d \in Directories : Listed(c.rec, d, c.ls[d]["pass"], c.ls[d]["other"])

\* The obligations are in order.
Cover(c) == PassInv(c.rec) /\ SessionsCovered(c) /\ DirectoriesCovered(c)

\* A handler that leaves the obligations as they are, or begins a pass.
SameObligations(q, c) ==
    /\ SameWork(q.rec, c.rec)
    /\ SamePass(q.rec, c.rec) \/ Begun(q.rec, c.rec)
    /\ Timely(c.rec) => Timely(q.rec)
    /\ q.ls = c.ls
    /\ c.lo.overtaken \subseteq q.lo.overtaken
    /\ c.st.tombstones \subseteq q.st.tombstones

\* A pass that begins, or stays where it is, keeps its invariant.
LEMMA PassKept ==
    ASSUME NEW rec \in Recoveries, NEW old \in Recoveries, PassInv(old),
           rec.reply = old.reply, rec.stale = old.stale,
           SamePass(rec, old) \/ Begun(rec, old), Timely(rec)
    PROVE  PassInv(rec)
<1>1. CASE SamePass(rec, old)
  BY <1>1 DEF PassInv, SamePass
<1>2. CASE Begun(rec, old)
  <2>1. old.todo = {} /\ rec.stage = "residents"
    BY <1>2 DEF PassInv, Begun
  <2>2. \A s \in Sessions : rec.reply[s] = Unasked
    BY <2>1 DEF PassInv
  <2>3. rec.stale = {}
    BY <2>2 DEF PassInv, Recoveries
  <2>4. QED
    BY <2>1, <2>2, <2>3 DEF PassInv
<1>3. QED
  BY <1>1, <1>2

\* A handler that leaves the obligations as they are keeps them covered.
LEMMA CoverKept ==
    ASSUME NEW c \in Pages, NEW q \in Pages, Cover(c), SameObligations(q, c)
    PROVE  Cover(q)
<1>1. PassInv(q.rec)
  BY PassKept, PageFields DEF Cover, SameObligations, SameWork, PassInv
<1>2. SessionsCovered(q)
  BY DEF Cover, SameObligations, SameWork, SessionsCovered
<1>3. ASSUME NEW d \in Directories
      PROVE  Listed(q.rec, d, q.ls[d]["pass"], q.ls[d]["other"])
  <2>1. Listed(c.rec, d, q.ls[d]["pass"], q.ls[d]["other"])
    BY DEF Cover, SameObligations, DirectoriesCovered
  <2>2. CASE SamePass(q.rec, c.rec)
    BY <2>1, <2>2 DEF SameObligations, SameWork, SamePass, Listed
  <2>3. CASE Begun(q.rec, c.rec)
    BY <2>1, <2>3 DEF SameObligations, SameWork, Begun, Listed
  <2>4. QED
    BY <2>2, <2>3 DEF SameObligations
<1>4. QED
  BY <1>1, <1>2, <1>3 DEF Cover, DirectoriesCovered

\* The sessions among these whose recovery read is in flight.
Reading(rec, sessions) == {s \in sessions : rec.reply[s] # Unasked}

\* What a signal makes of the work, whether or not it begins a pass.
SignalledWork(rec, old, sessions, directories) ==
    /\ rec.residents = old.residents \cup sessions
    /\ rec.directories = old.directories \cup directories
    /\ rec.covered = old.covered \ (sessions \cup directories)
    /\ rec.stale = old.stale \cup Reading(old, sessions)
    /\ rec.reply = old.reply /\ rec.failed = old.failed
    /\ Timely(rec)
    /\ \/ rec.stage = old.stage /\ rec.todo = old.todo /\ ~rec.current /\ old.stage # "idle"
       \/ Begun(rec, old)

\* A signal marks as stale just the reads that are in flight.
LEMMA SignalledDoes ==
    ASSUME NEW old \in Recoveries,
           NEW sessions \in SUBSET Sessions, NEW directories \in SUBSET Directories,
           NEW rec, rec = Signalled(old, sessions, directories)
    PROVE  /\ rec \in Recoveries
           /\ rec.residents = old.residents \cup sessions
           /\ rec.directories = old.directories \cup directories
           /\ rec.covered = old.covered \ (sessions \cup directories)
           /\ rec.stale = old.stale \cup Reading(old, sessions)
           /\ rec.reply = old.reply /\ rec.failed = old.failed
           /\ rec.stage = old.stage /\ rec.todo = old.todo
           /\ rec.attempt = 0 /\ ~rec.timer /\ ~rec.current
<1> DEFINE zero == 0
           asking == Asking(old, sessions, directories)
<1>1. asking \in Recoveries /\ zero \in Attempts
  BY AskingDoes, Values
<1>2. /\ asking.residents = old.residents \cup sessions
      /\ asking.directories = old.directories \cup directories
      /\ asking.covered = old.covered \ (sessions \cup directories)
      /\ asking.stale = old.stale \cup Reading(old, sessions)
      /\ asking.reply = old.reply /\ asking.failed = old.failed
      /\ asking.stage = old.stage /\ asking.todo = old.todo
  BY DEF Asking, Recoveries, Reading
<1>3. rec = [asking EXCEPT !.attempt = zero, !.timer = FALSE, !.current = FALSE]
  BY DEF Signalled
<1> HIDE DEF zero, asking
<1>4. rec \in Recoveries /\ rec.attempt = zero /\ ~rec.timer /\ ~rec.current
  BY <1>1, <1>3 DEF Recoveries
<1>5. /\ rec.residents = asking.residents /\ rec.directories = asking.directories
      /\ rec.covered = asking.covered /\ rec.stale = asking.stale
      /\ rec.reply = asking.reply /\ rec.failed = asking.failed
      /\ rec.stage = asking.stage /\ rec.todo = asking.todo
  BY <1>1, <1>3 DEF Recoveries
<1>6. QED
  BY <1>2, <1>4, <1>5 DEF zero

\* What a signal makes of the recovery, field by field.
LEMMA QueueWork ==
    ASSUME NEW c \in Pages,
           NEW sessions \in SUBSET Sessions, NEW directories \in SUBSET Directories,
           sessions \cup directories # {},
           NEW q, q = QueueRecovery(c, sessions, directories)
    PROVE  SignalledWork(q.rec, c.rec, sessions, directories)
<1> DEFINE rec == Signalled(c.rec, sessions, directories)
<1>0. rec = Signalled(c.rec, sessions, directories)
  OBVIOUS
<1>1. q.rec = IF rec.stage = "idle" THEN Starting(rec) ELSE rec
  <2>1. q.rec = SignalledPass(c.rec, sessions, directories)
    BY QueueDoes DEF OnlySignal
  <2>2. QED
    BY <2>1 DEF SignalledPass
<1> HIDE DEF rec
<1>2. /\ rec \in Recoveries
      /\ rec.residents = c.rec.residents \cup sessions
      /\ rec.directories = c.rec.directories \cup directories
      /\ rec.covered = c.rec.covered \ (sessions \cup directories)
      /\ rec.stale = c.rec.stale \cup Reading(c.rec, sessions)
      /\ rec.reply = c.rec.reply /\ rec.failed = c.rec.failed
      /\ rec.stage = c.rec.stage /\ rec.todo = c.rec.todo
      /\ rec.attempt = 0 /\ ~rec.timer /\ ~rec.current
  <2>1. c.rec \in Recoveries
    BY PageFields
  <2>2. QED
    BY <1>0, <2>1, SignalledDoes
<1>3. 0 <= MaxAttempts
  BY StoreAssumption
<1>4. CASE rec.stage = "idle"
  <2>1. SameWork(q.rec, rec) /\ q.rec.attempt = 0 /\ ~q.rec.timer
        /\ q.rec.stage = "residents" /\ q.rec.current /\ q.rec.todo = q.rec.residents
    BY <1>1, <1>2, <1>4 DEF Recoveries, SameWork, Starting
  <2>2. QED
    BY <1>2, <1>3, <1>4, <2>1 DEF SignalledWork, SameWork, Begun, Timely
<1>5. CASE rec.stage # "idle"
  BY <1>1, <1>2, <1>3, <1>5 DEF SignalledWork, Timely
<1>6. QED
  BY <1>4, <1>5

\* The listings a signal finds are not fresh any more.
LEMMA StaledDoes ==
    ASSUME NEW ls \in [Directories -> [Callers -> List]],
           NEW directories \in SUBSET Directories,
           NEW d \in Directories, NEW o \in Callers,
           NEW l, l = ls[d][o], NEW m, m = Staled(ls, directories)[d][o]
    PROVE  /\ d \notin directories => m = l
           /\ d \in directories => m.latest = l.latest /\ ~m.fresh /\ (l = NoList => m = l)
<1> DEFINE b == l.fresh /\ d \notin directories
<1>1. b \in BOOLEAN /\ l \in List
  BY DEF List
<1>2. (d \in directories => b = FALSE) /\ (d \notin directories => b = l.fresh)
  BY <1>1 DEF List
<1>3. m = [l EXCEPT !.fresh = b]
  BY DEF Staled
<1>4. l = NoList => l.fresh = FALSE
  BY DEF NoList
<1> HIDE DEF b
<1>5. m.fresh = b /\ m.latest = l.latest
  BY <1>1, <1>3 DEF List
<1>6. b = l.fresh => m = l
  BY <1>1, <1>3 DEF List
<1>7. QED
  BY <1>1, <1>2, <1>4, <1>5, <1>6

\* A signal keeps the obligations covered: what it takes back it asks for.
LEMMA QueueCovers ==
    ASSUME NEW c \in Pages, Cover(c),
           NEW sessions \in SUBSET Sessions, NEW directories \in SUBSET Directories,
           NEW q, q = QueueRecovery(c, sessions, directories)
    PROVE  Cover(q)
<1>1. CASE sessions \cup directories = {}
  BY <1>1 DEF QueueRecovery
<1>2. CASE sessions \cup directories # {}
  <2>1. /\ q \in Pages /\ q.st = c.st /\ q.lo = c.lo
        /\ q.ls = Staled(c.ls, directories)
    <3>1. OnlySignal(q, c, sessions, directories)
      BY <1>2, QueueDoes
    <3>2. QED
      BY <3>1 DEF OnlySignal
  <2>2. SignalledWork(q.rec, c.rec, sessions, directories)
    BY <1>2, QueueWork
  <2>3. PassInv(c.rec) /\ SessionsCovered(c) /\ DirectoriesCovered(c)
    BY DEF Cover
  <2>4. PassInv(q.rec)
    <3>1. CASE Begun(q.rec, c.rec)
      <4>1. c.rec.todo = {} /\ q.rec.stage = "residents"
        BY <2>3, <3>1 DEF PassInv, Begun
      <4>2. \A s \in Sessions : c.rec.reply[s] = Unasked
        BY <2>3, <4>1 DEF PassInv
      <4>3. c.rec.stale = {}
        BY <2>3, <4>2, PageFields DEF PassInv, Recoveries
      <4>4. q.rec.stale = {} /\ q.rec.reply = c.rec.reply /\ Timely(q.rec)
        BY <2>2, <4>2, <4>3 DEF SignalledWork, Reading
      <4>5. QED
        BY <4>1, <4>2, <4>4 DEF PassInv
    <3>2. CASE ~Begun(q.rec, c.rec)
      <4>1. q.rec.stage = c.rec.stage /\ q.rec.todo = c.rec.todo /\ ~q.rec.current
            /\ c.rec.stage # "idle" /\ Timely(q.rec) /\ q.rec.reply = c.rec.reply
            /\ q.rec.stale = c.rec.stale \cup Reading(c.rec, sessions)
        BY <2>2, <3>2 DEF SignalledWork
      <4>2. QED
        BY <2>3, <4>1 DEF PassInv, Reading
    <3>3. QED
      BY <3>1, <3>2
  <2>5. SessionsCovered(q)
    <3>1. \A s \in Sessions : s \notin directories
      BY StoreAssumption
    <3>2. QED
      BY <2>1, <2>2, <2>3, <3>1 DEF SessionsCovered, SignalledWork
  <2>6. ASSUME NEW d \in Directories
        PROVE  Listed(q.rec, d, q.ls[d]["pass"], q.ls[d]["other"])
    <3> DEFINE p == c.ls[d]["pass"]
               o == c.ls[d]["other"]
               pp == q.ls[d]["pass"]
               oo == q.ls[d]["other"]
    <3>1. /\ d \notin directories => pp = p /\ oo = o
          /\ d \in directories => /\ pp.latest = p.latest /\ ~pp.fresh /\ (p = NoList => pp = p)
                                  /\ oo.latest = o.latest /\ ~oo.fresh
      <4>1. "pass" \in Callers /\ "other" \in Callers
            /\ c.ls \in [Directories -> [Callers -> List]]
        BY PageFields DEF Callers
      <4>2. pp = Staled(c.ls, directories)[d]["pass"]
            /\ oo = Staled(c.ls, directories)[d]["other"]
        BY <2>1
      <4>3. p = c.ls[d]["pass"] /\ o = c.ls[d]["other"]
        OBVIOUS
      <4> HIDE DEF p, o, pp, oo
      <4>4. QED
        BY <4>1, <4>2, <4>3, StaledDoes
    <3>2. Listed(c.rec, d, p, o)
      BY <2>3 DEF DirectoriesCovered
    <3>3. d \notin sessions
      BY StoreAssumption
    <3> HIDE DEF p, o, pp, oo
    <3>4. /\ d \in q.rec.directories <=> d \in c.rec.directories \/ d \in directories
          /\ d \notin directories => (d \in q.rec.covered <=> d \in c.rec.covered)
          /\ q.rec.failed = c.rec.failed
          /\ \/ q.rec.stage = c.rec.stage /\ q.rec.todo = c.rec.todo /\ ~q.rec.current
             \/ c.rec.stage = "idle"
      BY <2>2, <3>3 DEF SignalledWork, Begun
    <3>5. QED
      BY <3>1, <3>2, <3>4 DEF Listed, p, o, pp, oo
  <2>7. QED
    BY <2>4, <2>5, <2>6 DEF Cover, DirectoriesCovered
<1>3. QED
  BY <1>1, <1>2

\* So does a new lifetime: what was overtaken in the old one is gone with it.
LEMMA EpochChangeCovers ==
    ASSUME NEW c \in Pages, Cover(c), NEW e \in Epochs
    PROVE  Cover(ApplyEpochChange(c, e))
<1> DEFINE p == Renewed(c, e)
<1>0. p = Renewed(c, e)
  OBVIOUS
<1> HIDE DEF p
<1>1. /\ p \in Pages /\ p.ls = c.ls /\ p.lo = NoLoss
      /\ p.st = RenewedStore(c.st, e)
      /\ p.rec = RenewedWork(c.rec, c.lo.overtaken)
  BY <1>0, RenewedDoes
<1>2. p.st.tombstones = c.st.tombstones
  BY <1>1, PageFields, RenewedStoreFields
<1>3. /\ p.rec.residents = c.rec.residents /\ p.rec.directories = c.rec.directories
      /\ p.rec.covered = c.rec.covered \cup c.lo.overtaken
      /\ p.rec.reply = c.rec.reply /\ p.rec.failed = c.rec.failed
      /\ p.rec.stale = c.rec.stale /\ p.rec.stage = c.rec.stage
      /\ p.rec.todo = c.rec.todo /\ ~p.rec.current
      /\ p.rec.attempt = c.rec.attempt /\ p.rec.timer = c.rec.timer
  <2>1. c.lo.overtaken \in SUBSET Sessions /\ c.rec \in Recoveries
    BY PageFields DEF Loss
  <2>2. QED
    BY <1>1, <2>1, RenewedWorkFields
<1>4. PassInv(p.rec)
  BY <1>3 DEF Cover, PassInv, Timely
<1>5. SessionsCovered(p)
  BY <1>2, <1>3 DEF Cover, SessionsCovered
<1>6. DirectoriesCovered(p)
  <2> SUFFICES ASSUME NEW d \in Directories
               PROVE  Listed(p.rec, d, c.ls[d]["pass"], c.ls[d]["other"])
    BY <1>1 DEF DirectoriesCovered
  <2>1. Listed(c.rec, d, c.ls[d]["pass"], c.ls[d]["other"])
    BY DEF Cover, DirectoriesCovered
  <2>2. QED
    BY <1>3, <2>1 DEF Listed
<1>7. Cover(QueueRecovery(p, c.st.hydrated, Directories))
  <2>1. c.st.hydrated \in SUBSET Sessions
    BY PageFields DEF Stores
  <2>2. QED
    BY <1>1, <1>4, <1>5, <1>6, <2>1, QueueCovers DEF Cover
<1>8. QED
  BY <1>7, EpochChangeDoes DEF p

-----------------------------------------------------------------------------
(* The rows and the reads that may still be merged into them.              *)

\* A daemon within its bounds.
Daemons ==
    {d \in [epoch : Epochs, log : Seq([session : Sessions, kind : {"turn", "deleted"}]),
            forgotten : Nat, gone : SUBSET Sessions] :
        Len(d.log) <= MaxSequence /\ d.forgotten <= Len(d.log)}

\* What session s contains.
Turns(d, s) == {0} \cup {n \in 1 .. Len(d.log) : d.log[n] = Turn(s)}

\* r is a detail of session s that a handler may still merge.
IsRead(c, s, r) ==
    /\ r.kind = "detail"
    /\ \/ r = c.ft[s] \/ r = c.rec.reply[s]
       \/ c.str.reconnect.session = s /\ r = c.str.reconnect.reply

\* y is not older than x without containing it.
SameOrder(x, y) == x.last <= y.last => x.seen \subseteq y.seen

\* A read of this lifetime is what the session had at some head of the log.
TrueRead(d, s, r) ==
    /\ r.epoch <= d.epoch
    /\ r.epoch = d.epoch => /\ r.row.last <= Len(d.log)
                            /\ r.row.seen = {n \in Turns(d, s) : n <= r.row.last}

\* A row that session s could have in lifetime e, as far as its reads go.
Sound(d, c, e, s, row) ==
    /\ e = d.epoch => row.seen \subseteq Turns(d, s)
    /\ \A r \in Answered : IsRead(c, s, r) /\ r.epoch = e => SameOrder(row, r.row)

\* The reads of session s that may still be merged are true, and ordered.
ReadsInv(d, c, s) ==
    /\ \A r \in Answered : IsRead(c, s, r) => TrueRead(d, s, r)
    /\ \A r, x \in Answered :
          IsRead(c, s, r) /\ IsRead(c, s, x) /\ r.epoch = x.epoch => SameOrder(x.row, r.row)

\* Every row is sound, and no row is ahead of its cursor.
RowsInv(d, c) ==
    /\ c.st.epoch = c.str.epoch /\ c.st.epoch <= d.epoch
    /\ \A s \in Sessions : /\ c.st.rows[s].last <= c.st.cursor[s]
                           /\ Sound(d, c, c.st.epoch, s, c.st.rows[s])
                           /\ ReadsInv(d, c, s)

\* A row goes, stays, or grows into a sound one.
RowStep(d, c, q, s) ==
    \/ q.st.rows[s] = NoRow
    \/ q.st.epoch = c.st.epoch /\ q.st.rows[s] = c.st.rows[s]
    \/ /\ s \notin c.st.tombstones \/ c.str.reconnect.session = s
       /\ q.st.epoch = c.st.epoch => c.st.rows[s].seen \subseteq q.st.rows[s].seen
       /\ Sound(d, c, q.st.epoch, s, q.st.rows[s])

\* No read is new.
FewerReads(q, c) ==
    \A s \in Sessions : \A r \in Answered : IsRead(q, s, r) => IsRead(c, s, r)

\* A step of the rows: no read is new, and every row makes a RowStep.
RowsStep(d, c, q) ==
    /\ q.st.epoch = q.str.epoch /\ q.st.epoch <= d.epoch
    /\ FewerReads(q, c)
    /\ \A s \in Sessions : q.st.rows[s].last <= q.st.cursor[s] /\ RowStep(d, c, q, s)

\* An absent row is sound.
LEMMA NoRowSound ==
    ASSUME NEW d, NEW c, NEW e, NEW s
    PROVE  Sound(d, c, e, s, NoRow)
BY DEF Sound, SameOrder, NoRow

\* A step of the page keeps the rows and the reads sound.
LEMMA RowsKept ==
    ASSUME NEW d, NEW c, NEW q, RowsInv(d, c), RowsStep(d, c, q)
    PROVE  RowsInv(d, q)
<1> SUFFICES ASSUME NEW s \in Sessions
             PROVE  Sound(d, q, q.st.epoch, s, q.st.rows[s]) /\ ReadsInv(d, q, s)
  BY DEF RowsInv, RowsStep
<1>1. \A r \in Answered : IsRead(q, s, r) => IsRead(c, s, r)
  BY DEF RowsStep, FewerReads
<1>2. ReadsInv(d, q, s)
  BY <1>1 DEF RowsInv, ReadsInv
<1>3. Sound(d, c, q.st.epoch, s, q.st.rows[s])
  <2>1. RowStep(d, c, q, s) /\ Sound(d, c, c.st.epoch, s, c.st.rows[s])
    BY DEF RowsInv, RowsStep
  <2>2. QED
    BY <2>1, NoRowSound DEF RowStep
<1>4. QED
  BY <1>1, <1>2, <1>3 DEF Sound

\* A read that is merged into a sound row leaves a sound row, and loses nothing.
LEMMA MergeSound ==
    ASSUME NEW d, NEW c, NEW s \in Sessions, ReadsInv(d, c, s),
           NEW r \in Answered, IsRead(c, s, r), NEW row \in Row,
           Sound(d, c, r.epoch, s, row),
           NEW merged, merged = Merge(r.row, row)
    PROVE  Sound(d, c, r.epoch, s, merged) /\ row.seen \subseteq merged.seen
<1>1. r.row \in Row /\ r.row.last \in Cursors /\ row.last \in Cursors
  BY DEF Answered, Reads, Row, Cursors
<1>2. /\ TrueRead(d, s, r) /\ SameOrder(row, r.row)
      /\ \A x \in Answered : IsRead(c, s, x) /\ x.epoch = r.epoch =>
             SameOrder(r.row, x.row) /\ SameOrder(row, x.row) /\ x.row.last \in Cursors
  BY DEF ReadsInv, Sound, Answered, Reads, Row, Cursors
<1>3. r.epoch = d.epoch => r.row.seen \subseteq Turns(d, s) /\ row.seen \subseteq Turns(d, s)
  BY <1>2 DEF TrueRead, Sound
<1>4. CASE row.last > r.row.last
  <2>1. merged.seen = r.row.seen \cup row.seen /\ merged.last = row.last
    BY <1>4 DEF Merge
  <2>2. ASSUME NEW x \in Answered, IsRead(c, s, x), x.epoch = r.epoch
        PROVE  SameOrder(merged, x.row)
    <3>1. row.last <= x.row.last => r.row.last <= x.row.last
      BY <1>1, <1>2, <1>4, <2>2 DEF Cursors
    <3>2. QED
      BY <1>2, <2>1, <2>2, <3>1 DEF SameOrder
  <2>3. QED
    BY <1>3, <2>1, <2>2 DEF Sound
<1>5. CASE ~(row.last > r.row.last)
  <2>1. merged = r.row
    BY <1>5 DEF Merge
  <2>2. row.seen \subseteq r.row.seen
    BY <1>1, <1>2, <1>5 DEF SameOrder, Cursors
  <2>3. QED
    BY <1>2, <1>3, <2>1, <2>2 DEF Sound
<1>6. QED
  BY <1>4, <1>5

\* The reads that differ are those of one session, and the one that is new was
\* answered now.
Answers(d, s, c, q) ==
    /\ q.st = c.st /\ q.str.epoch = c.str.epoch
    /\ \A t \in Sessions : \A r \in Answered :
          IsRead(q, t, r) =>
            \/ IsRead(c, t, r)
            \/ /\ t = s /\ r.epoch = d.epoch
               /\ r.row.last = Len(d.log) /\ r.row.seen = Turns(d, s)

\* A read that is answered now is true, and newer than every other read.
LEMMA AnswerKeeps ==
    ASSUME NEW d \in Daemons, NEW s \in Sessions, NEW c, NEW q, RowsInv(d, c),
           c.st \in Stores, Answers(d, s, c, q)
    PROVE  RowsInv(d, q)
<1> SUFFICES ASSUME NEW t \in Sessions
             PROVE  Sound(d, q, c.st.epoch, t, c.st.rows[t]) /\ ReadsInv(d, q, t)
  BY DEF RowsInv, Answers
<1>1. Sound(d, c, c.st.epoch, t, c.st.rows[t]) /\ ReadsInv(d, c, t)
  BY DEF RowsInv
<1>2. CASE t # s
  BY <1>1, <1>2 DEF Answers, Sound, ReadsInv
<1>3. CASE t = s
  <2> DEFINE New(r) == r.epoch = d.epoch /\ r.row.last = Len(d.log)
                       /\ r.row.seen = Turns(d, s)
  <2>1. \A r \in Answered : IsRead(q, s, r) => IsRead(c, s, r) \/ New(r)
    BY DEF Answers
  <2>2. Len(d.log) \in Nat /\ d.epoch \in Nat
        /\ \A n \in Turns(d, s) : n \in Nat /\ n <= Len(d.log)
    BY StoreAssumption DEF Daemons, Turns, Epochs
  <2>3. ASSUME NEW r \in Answered, New(r)
        PROVE  /\ TrueRead(d, s, r)
               /\ \A x \in Answered : TrueRead(d, s, x) /\ x.epoch = r.epoch =>
                     SameOrder(x.row, r.row) /\ SameOrder(r.row, x.row)
    <3>1. TrueRead(d, s, r)
      BY <2>2, <2>3 DEF TrueRead
    <3>2. ASSUME NEW x \in Answered, TrueRead(d, s, x), x.epoch = r.epoch
          PROVE  SameOrder(x.row, r.row) /\ SameOrder(r.row, x.row)
      <4>1. x.row.seen = {n \in Turns(d, s) : n <= x.row.last}
        BY <2>3, <3>2 DEF TrueRead
      <4>2. r.row.seen = Turns(d, s) /\ r.row.last = Len(d.log)
        BY <2>3
      <4>3. x.row.seen \subseteq r.row.seen
        BY <4>1, <4>2
      <4>4. r.row.last <= x.row.last => r.row.seen \subseteq x.row.seen
        <5>1. x.row.last \in Cursors
          BY DEF Answered, Reads, Row, Cursors
        <5>2. QED
          BY <2>2, <4>1, <4>2, <5>1, StoreAssumption DEF Cursors
      <4>5. QED
        BY <4>3, <4>4 DEF SameOrder
    <3>3. QED
      BY <3>1, <3>2
  <2> HIDE DEF New
  <2>4. \A r \in Answered : IsRead(q, s, r) => TrueRead(d, s, r)
    BY <1>1, <1>3, <2>1, <2>3 DEF ReadsInv
  <2>5. \A r, x \in Answered : IsRead(q, s, r) /\ IsRead(q, s, x) /\ r.epoch = x.epoch
             => SameOrder(x.row, r.row)
    BY <1>1, <1>3, <2>1, <2>3, <2>4 DEF ReadsInv
  <2>6. \A r \in Answered : IsRead(q, s, r) /\ r.epoch = c.st.epoch =>
             SameOrder(c.st.rows[s], r.row)
    <3> SUFFICES ASSUME NEW r \in Answered, IsRead(q, s, r), r.epoch = c.st.epoch
                 PROVE  SameOrder(c.st.rows[s], r.row)
      OBVIOUS
    <3>1. CASE IsRead(c, s, r)
      BY <1>1, <1>3, <3>1 DEF Sound
    <3>2. CASE New(r)
      <4>1. c.st.rows[s].seen \subseteq r.row.seen
        BY <1>1, <1>3, <3>2 DEF New, Sound
      <4>2. QED
        BY <4>1 DEF SameOrder
    <3>3. QED
      BY <2>1, <3>1, <3>2
  <2>7. QED
    BY <1>1, <1>3, <2>4, <2>5, <2>6 DEF Sound, ReadsInv
<1>4. QED
  BY <1>2, <1>3

-----------------------------------------------------------------------------
(* What a step of the page has to do.                                      *)

\* The invariant of a page c and its daemon d.
Inv(d, c) == d \in Daemons /\ c \in Pages /\ Cover(c) /\ RowsInv(d, c)

\* A step of the page from c to q.
Advances(d, c, q) == q \in Pages /\ Cover(q) /\ RowsStep(d, c, q)

\* A handler that leaves the reads alone, or ends some, adds none.
LEMMA ReadsFewer ==
    ASSUME NEW c, NEW q,
           \A s \in Sessions : q.ft[s] = c.ft[s] \/ q.ft[s].kind # "detail",
           \A s \in Sessions : q.rec.reply[s] = c.rec.reply[s]
                               \/ q.rec.reply[s].kind # "detail",
           \/ /\ q.str.reconnect.session = c.str.reconnect.session
              /\ q.str.reconnect.reply = c.str.reconnect.reply
           \/ q.str.reconnect.reply.kind # "detail"
    PROVE  FewerReads(q, c)
BY DEF FewerReads, IsRead

\* No row changes.
LEMMA Quiet ==
    ASSUME NEW d, NEW c, NEW q, Inv(d, c),
           q.st.epoch = c.st.epoch, q.str.epoch = c.str.epoch,
           q.st.rows = c.st.rows, q.st.cursor = c.st.cursor, FewerReads(q, c)
    PROVE  RowsStep(d, c, q)
BY DEF Inv, RowsInv, RowsStep, RowStep

\* Only the row of session s changes.
LEMMA OneRow ==
    ASSUME NEW d, NEW c, NEW q, NEW s \in Sessions, Inv(d, c),
           q.st.epoch = c.st.epoch, q.str.epoch = c.str.epoch,
           \A t \in Sessions \ {s} : q.st.rows[t] = c.st.rows[t],
           \A t \in Sessions \ {s} : q.st.cursor[t] = c.st.cursor[t],
           FewerReads(q, c), q.st.rows[s].last <= q.st.cursor[s], RowStep(d, c, q, s)
    PROVE  RowsStep(d, c, q)
BY DEF Inv, RowsInv, RowsStep, RowStep

\* A step of the stream's own record.
LEMMA StreamStep ==
    ASSUME NEW d, NEW c, NEW q, Inv(d, c), OnlyStream(q, c),
           q.str.epoch = c.str.epoch,
           \/ /\ q.str.reconnect.session = c.str.reconnect.session
              /\ q.str.reconnect.reply = c.str.reconnect.reply
           \/ q.str.reconnect.reply.kind # "detail"
    PROVE  Advances(d, c, q)
<1>1. q \in Pages /\ c \in Pages
  BY DEF OnlyStream, Inv
<1>2. Cover(q)
  <2>1. SameObligations(q, c)
    BY DEF OnlyStream, SameObligations, SameWork, SamePass
  <2>2. QED
    BY <1>1, <2>1, CoverKept DEF Inv
<1>3. FewerReads(q, c)
  BY ReadsFewer DEF OnlyStream
<1>4. RowsStep(d, c, q)
  BY <1>3, Quiet DEF OnlyStream
<1>5. QED
  BY <1>1, <1>2, <1>4 DEF Advances

\* A step of the transcripts of session s.
LEMMA TranscriptStep ==
    ASSUME NEW d, NEW c, NEW q, NEW s \in Sessions, Inv(d, c), OnlyTranscripts(q, c),
           q.st.epoch = c.st.epoch, c.st.tombstones \subseteq q.st.tombstones,
           \A t \in Sessions \ {s} : q.st.rows[t] = c.st.rows[t],
           \A t \in Sessions \ {s} : q.st.cursor[t] = c.st.cursor[t],
           \A t \in Sessions : q.ft[t] = c.ft[t] \/ q.ft[t].kind # "detail",
           q.st.rows[s].last <= q.st.cursor[s], RowStep(d, c, q, s)
    PROVE  Advances(d, c, q)
<1>1. q \in Pages /\ c \in Pages
  BY DEF OnlyTranscripts, Inv
<1>2. Cover(q)
  <2>1. SameObligations(q, c)
    BY DEF OnlyTranscripts, SameObligations, SameWork, SamePass
  <2>2. QED
    BY <1>1, <2>1, CoverKept DEF Inv
<1>3. FewerReads(q, c)
  BY ReadsFewer DEF OnlyTranscripts
<1>4. RowsStep(d, c, q)
  BY <1>3, OneRow DEF OnlyTranscripts
<1>5. QED
  BY <1>1, <1>2, <1>4 DEF Advances

\* And one that changes no row.
LEMMA TranscriptQuiet ==
    ASSUME NEW d, NEW c, NEW q, Inv(d, c), OnlyTranscripts(q, c),
           q.st.epoch = c.st.epoch, q.st.tombstones = c.st.tombstones,
           q.st.rows = c.st.rows, q.st.cursor = c.st.cursor,
           \A t \in Sessions : q.ft[t] = c.ft[t] \/ q.ft[t].kind # "detail"
    PROVE  Advances(d, c, q)
<1>1. q \in Pages /\ c \in Pages
  BY DEF OnlyTranscripts, Inv
<1>2. Cover(q)
  <2>1. SameObligations(q, c)
    BY DEF OnlyTranscripts, SameObligations, SameWork, SamePass
  <2>2. QED
    BY <1>1, <2>1, CoverKept DEF Inv
<1>3. FewerReads(q, c)
  BY ReadsFewer DEF OnlyTranscripts
<1>4. RowsStep(d, c, q)
  BY <1>3, Quiet DEF OnlyTranscripts
<1>5. QED
  BY <1>1, <1>2, <1>4 DEF Advances

\* Doing nothing is a step.
LEMMA SameStep ==
    ASSUME NEW d, NEW c, Inv(d, c)
    PROVE  Advances(d, c, c)
BY TranscriptQuiet DEF OnlyTranscripts, Inv

-----------------------------------------------------------------------------
(* The daemon's steps.                                                     *)

\* A longer log keeps the rows and the reads sound.
LEMMA LongerLog ==
    ASSUME NEW d \in Daemons, NEW c \in Pages, RowsInv(d, c), NEW D \in Daemons,
           D.epoch = d.epoch, Len(D.log) >= Len(d.log),
           \A n \in 1 .. Len(d.log) : D.log[n] = d.log[n]
    PROVE  RowsInv(D, c)
<1> SUFFICES ASSUME NEW s \in Sessions
             PROVE  Sound(D, c, c.st.epoch, s, c.st.rows[s]) /\ ReadsInv(D, c, s)
  BY DEF RowsInv
<1>1. Sound(d, c, c.st.epoch, s, c.st.rows[s]) /\ ReadsInv(d, c, s)
  BY DEF RowsInv
<1>2. Len(d.log) \in Nat /\ Len(D.log) \in Nat
  BY DEF Daemons
<1>3. Turns(d, s) = {n \in Turns(D, s) : n <= Len(d.log)}
  BY <1>2 DEF Turns
<1>4. ASSUME NEW r \in Answered, TrueRead(d, s, r) PROVE TrueRead(D, s, r)
  <2>1. r.row.last \in Cursors /\ \A n \in Turns(D, s) : n \in Nat
    BY <1>2 DEF Answered, Reads, Row, Cursors, Turns
  <2>2. CASE r.epoch = d.epoch
    <3>1. r.row.last <= Len(d.log)
          /\ r.row.seen = {n \in Turns(d, s) : n <= r.row.last}
      BY <1>4, <2>2 DEF TrueRead
    <3>2. {n \in Turns(d, s) : n <= r.row.last} = {n \in Turns(D, s) : n <= r.row.last}
      BY <1>2, <1>3, <2>1, <3>1, StoreAssumption DEF Cursors
    <3>3. r.row.last <= Len(D.log)
      BY <1>2, <2>1, <3>1, StoreAssumption DEF Cursors
    <3>4. QED
      BY <1>4, <3>1, <3>2, <3>3 DEF TrueRead
  <2>3. CASE r.epoch # d.epoch
    BY <1>4, <2>3 DEF TrueRead
  <2>4. QED
    BY <2>2, <2>3
<1>5. ReadsInv(D, c, s)
  BY <1>1, <1>4 DEF ReadsInv
<1>6. Turns(d, s) \subseteq Turns(D, s)
  BY <1>3
<1>7. QED
  BY <1>1, <1>5, <1>6 DEF Sound

\* And so does a new lifetime: nothing that was read belongs to it.
LEMMA NewLifetime ==
    ASSUME NEW d \in Daemons, NEW c \in Pages, RowsInv(d, c), NEW D \in Daemons,
           D.epoch = d.epoch + 1
    PROVE  RowsInv(D, c)
<1>1. d.epoch \in Nat /\ c.st.epoch \in Nat /\ \A r \in Answered : r.epoch \in Int
  BY PageFields, StoreAssumption DEF Daemons, Stores, Answered, Reads, Epochs
<1>2. c.st.epoch <= D.epoch /\ c.st.epoch # D.epoch
  BY <1>1 DEF RowsInv
<1>3. \A s \in Sessions, r \in Answered : TrueRead(d, s, r) => TrueRead(D, s, r)
  BY <1>1 DEF TrueRead
<1> SUFFICES ASSUME NEW s \in Sessions
             PROVE  Sound(D, c, c.st.epoch, s, c.st.rows[s]) /\ ReadsInv(D, c, s)
  BY <1>2 DEF RowsInv
<1>4. Sound(d, c, c.st.epoch, s, c.st.rows[s]) /\ ReadsInv(d, c, s)
  BY DEF RowsInv
<1>5. QED
  BY <1>2, <1>3, <1>4 DEF Sound, ReadsInv

\* The steps of the daemon leave the page as it is, but for its connection.
DaemonDoes(d, D) ==
    /\ D \in Daemons
    /\ \/ /\ D.epoch = d.epoch /\ Len(D.log) >= Len(d.log)
          /\ \A n \in 1 .. Len(d.log) : D.log[n] = d.log[n]
       \/ D.epoch = d.epoch + 1

\* Either way the page's invariant holds of the new daemon.
LEMMA DaemonKeeps ==
    ASSUME NEW d, NEW c, Inv(d, c), NEW D, DaemonDoes(d, D)
    PROVE  Inv(D, c)
BY LongerLog, NewLifetime DEF Inv, DaemonDoes

\* An event that is appended makes a longer log.
LEMMA AppendDoes ==
    ASSUME NEW d \in Daemons, Len(d.log) < MaxSequence,
           NEW x \in [session : Sessions, kind : {"turn", "deleted"}],
           NEW D, NEW gone \in SUBSET Sessions,
           D = [d EXCEPT !.log = Append(@, x), !.gone = gone]
    PROVE  DaemonDoes(d, D)
<1> DEFINE log == Append(d.log, x)
           Events == [session : Sessions, kind : {"turn", "deleted"}]
<1>1. d.log \in Seq(Events) /\ x \in Events
  BY DEF Daemons
<1> HIDE DEF Events
<1>2. /\ log \in Seq(Events) /\ Len(log) = Len(d.log) + 1 /\ Len(d.log) \in Nat
      /\ \A n \in 1 .. Len(d.log) : log[n] = d.log[n]
  BY <1>1
<1>3. D = [d EXCEPT !.log = log, !.gone = gone]
  OBVIOUS
<1> HIDE DEF log
<1>4. D \in Daemons /\ D.epoch = d.epoch /\ D.log = log
  <2> DEFINE Records == [epoch : Epochs, log : Seq(Events), forgotten : Nat,
                         gone : SUBSET Sessions]
  <2>1. d \in Records /\ d.forgotten <= Len(d.log)
    BY DEF Daemons, Events
  <2>2. D \in Records /\ D.epoch = d.epoch /\ D.log = log /\ D.forgotten = d.forgotten
    BY <1>2, <1>3, <2>1
  <2>3. d.forgotten \in Nat
    BY <2>1
  <2> HIDE DEF Records
  <2>4. Len(D.log) <= MaxSequence /\ D.forgotten <= Len(D.log)
    BY <1>2, <2>1, <2>2, <2>3, StoreAssumption
  <2>5. QED
    BY <2>2, <2>4 DEF Daemons, Records, Events
<1>5. QED
  BY <1>2, <1>4 DEF DaemonDoes

-----------------------------------------------------------------------------
(* The stream's steps.                                                     *)

\* The page becomes what the handler made of it.
LEMMA Arrives ==
    ASSUME NEW c, NEW q, Advances(daemon, c, q), c = Page, Becomes(q)
    PROVE  Advances(daemon, Page, Page')
<1>1. q \in Pages
  BY DEF Advances
<1>2. q = Page'
  BY <1>1, PageFields DEF Becomes, Page
<1>3. QED
  BY <1>2

\* The page's parts are the variables, and have their types.
LEMMA SamePage ==
    ASSUME Inv(daemon, Page)
    PROVE  /\ Page.st = store /\ Page.rec = recovery /\ Page.str = stream
           /\ Page.ft = fetch /\ Page.ls = lists /\ Page.lo = lost
           /\ store \in Stores /\ recovery \in Recoveries /\ stream \in Streams
           /\ fetch \in [Sessions -> Answered]
           /\ lists \in [Directories -> [Callers -> List]] /\ lost \in Loss
           /\ daemon \in Daemons
<1>1. Page.st = store /\ Page.rec = recovery /\ Page.str = stream
      /\ Page.ft = fetch /\ Page.ls = lists /\ Page.lo = lost
  BY DEF Page
<1>2. Page \in Pages /\ daemon \in Daemons
  BY DEF Inv
<1>3. QED
  BY <1>1, <1>2, PageFields

\* Frames of the stream's own bookkeeping.
LEMMA StreamFields ==
    ASSUME NEW old \in Streams, NEW up \in BOOLEAN, NEW frame \in Frames,
           NEW cursor \in Heads, NEW epoch \in Epochs, NEW observed \in BOOLEAN, NEW str,
           str = [old EXCEPT !.up = up, !.frame = frame, !.cursor = cursor,
                             !.epoch = epoch, !.resyncObserved = observed]
    PROVE  /\ str \in Streams /\ str.epoch = epoch /\ str.cursor = cursor
           /\ str.frame = frame /\ str.reconnect = old.reconnect
BY DEF Streams

Down(c) == [c EXCEPT !.str.up = FALSE, !.str.frame = NoFrame]

\* A connection that ends leaves everything else alone.
LEMMA DownDoes ==
    ASSUME NEW d, NEW c, Inv(d, c), NEW q, q = Down(c)
    PROVE  OnlyStream(q, c) /\ q.str.epoch = c.str.epoch
           /\ q.str.reconnect = c.str.reconnect
           /\ q.str.cursor = c.str.cursor /\ q.str.frame = NoFrame
<1> DEFINE str == [c.str EXCEPT !.up = FALSE, !.frame = NoFrame]
<1>1. c.str \in Streams /\ NoFrame \in Frames /\ c \in Pages
  BY PageFields, Values DEF Inv
<1>2. /\ str \in Streams /\ str.epoch = c.str.epoch /\ str.reconnect = c.str.reconnect
      /\ str.cursor = c.str.cursor /\ str.frame = NoFrame
  BY <1>1 DEF Streams
<1>3. q = [c EXCEPT !.str = str]
  BY <1>1 DEF Pages, Down
<1> HIDE DEF str
<1>4. OnlyStream(q, c) /\ q.str = str
  BY <1>1, <1>2, <1>3, NewStream
<1>5. QED
  BY <1>2, <1>4

\* Beginning a reconnect is a step.
LEMMA BeginReconnectStep ==
    ASSUME NEW d, NEW c, NEW b, Inv(d, c), OnlyStream(b, c), b.str.epoch = c.str.epoch,
           b.str.reconnect = c.str.reconnect, NEW s \in Sessions
    PROVE  Advances(d, c, BeginReconnect(b, s))
<1> DEFINE q == BeginReconnect(b, s)
<1>0. q = BeginReconnect(b, s) /\ b \in Pages
  BY DEF OnlyStream
<1> HIDE DEF q
<1>1. /\ OnlyStream(q, b) /\ SameTransport(q.str, b.str)
      /\ q = b \/ q.str.reconnect.reply = Asked
  BY <1>0, BeginReconnectDoes
<1>2. OnlyStream(q, c) /\ q.str.epoch = c.str.epoch
  BY <1>1 DEF OnlyStream, SameTransport
<1>3. \/ /\ q.str.reconnect.session = c.str.reconnect.session
         /\ q.str.reconnect.reply = c.str.reconnect.reply
      \/ q.str.reconnect.reply.kind # "detail"
  BY <1>1, Values
<1>4. QED
  BY <1>0, <1>2, <1>3, StreamStep

\* Disconnect keeps the invariant.
LEMMA DisconnectStep ==
    ASSUME Inv(daemon, Page), Disconnect
    PROVE  Advances(daemon, Page, Page') /\ UNCHANGED daemon
<1> DEFINE c == Page
           down == Down(c)
<1>1. c = Page /\ down = Down(c) /\ Inv(daemon, c)
  OBVIOUS
<1>2. store.selected \in Sessions \cup {NoSession}
  BY SamePage DEF Stores
<1>3. \/ Becomes(down)
      \/ \E s \in Sessions : Becomes(BeginReconnect(down, s))
  BY <1>2 DEF Disconnect, Down
<1>4. UNCHANGED daemon
  BY DEF Disconnect
<1> HIDE DEF c, down
<1>5. OnlyStream(down, c) /\ down.str.epoch = c.str.epoch
      /\ down.str.reconnect = c.str.reconnect
  BY <1>1, DownDoes
<1>6. CASE Becomes(down)
  <2>1. Advances(daemon, c, down)
    BY <1>1, <1>5, StreamStep
  <2>2. QED
    BY <1>1, <1>4, <1>6, <2>1, Arrives
<1>7. ASSUME NEW s \in Sessions, Becomes(BeginReconnect(down, s))
      PROVE  Advances(daemon, Page, Page')
  <2>1. Advances(daemon, c, BeginReconnect(down, s))
    BY <1>1, <1>5, BeginReconnectStep
  <2>2. QED
    BY <1>1, <1>7, <2>1, Arrives
<1>8. QED
  BY <1>3, <1>4, <1>6, <1>7

\* A switch of the transport keeps the invariant.
LEMMA SwitchTransportStep ==
    ASSUME Inv(daemon, Page), SwitchTransport
    PROVE  Advances(daemon, Page, Page') /\ UNCHANGED daemon
<1> DEFINE c == Page
           s == store.selected
<1>1. c = Page /\ Inv(daemon, c) /\ OnlyStream(c, c)
  BY DEF OnlyStream, Inv
<1>2. s \in Sessions /\ Becomes(BeginReconnect(c, s)) /\ UNCHANGED daemon
  BY SamePage DEF SwitchTransport, Stores
<1> HIDE DEF c, s
<1>3. Advances(daemon, c, BeginReconnect(c, s))
  BY <1>1, <1>2, BeginReconnectStep
<1>4. QED
  BY <1>1, <1>2, <1>3, Arrives

\* What the daemon answers to a read of session s.
LEMMA AnswerIs ==
    ASSUME daemon \in Daemons, NEW s \in Sessions, NEW a \in Outcomes(s)
    PROVE  /\ a \in Answered
           /\ a.kind = "detail" => /\ a.epoch = daemon.epoch
                                   /\ a.row.last = Len(daemon.log)
                                   /\ a.row.seen = Turns(daemon, s)
<1>1. CASE a = Read("failed") \/ a = Read("gone")
  BY <1>1, Values DEF Read
<1>2. CASE ~(a = Read("failed") \/ a = Read("gone"))
  <2> DEFINE row == Detail(s)
  <2>1. Len(daemon.log) \in 0 .. MaxSequence /\ daemon.epoch \in Epochs
    BY StoreAssumption DEF Daemons
  <2>2. row = [seen |-> Turns(daemon, s), last |-> Len(daemon.log)]
    BY DEF Detail, Turns, LogHead
  <2>3. Turns(daemon, s) \in SUBSET (0 .. MaxSequence)
    BY <2>1, StoreAssumption DEF Turns
  <2>4. row \in Row /\ row.last >= 0
    BY <2>1, <2>2, <2>3 DEF Row
  <2>5. a = [kind |-> "detail", epoch |-> daemon.epoch, row |-> row]
    BY <1>2 DEF Outcomes, Answer
  <2>6. row.last = Len(daemon.log) /\ row.seen = Turns(daemon, s)
    BY <2>2
  <2> HIDE DEF row
  <2>7. a \in Reads
    BY <2>1, <2>4, <2>5, StoreAssumption DEF Reads, Epochs
  <2>8. QED
    BY <2>1, <2>4, <2>5, <2>6, <2>7 DEF Answered
<1>3. QED
  BY <1>1, <1>2

\* One read is answered, and nothing else changes.
LEMMA AnswerStep ==
    ASSUME Inv(daemon, Page), NEW s \in Sessions, NEW a \in Outcomes(s),
           NEW q \in Pages, Cover(q), q.st = Page.st, q.str.epoch = Page.str.epoch,
           \A t \in Sessions : q.ft[t] = Page.ft[t] \/ (t = s /\ q.ft[t] = a),
           \A t \in Sessions :
              q.rec.reply[t] = Page.rec.reply[t] \/ (t = s /\ q.rec.reply[t] = a),
           q.str.reconnect.session = Page.str.reconnect.session,
           \/ q.str.reconnect.reply = Page.str.reconnect.reply
           \/ q.str.reconnect.session = s /\ q.str.reconnect.reply = a,
           Becomes(q)
    PROVE  Inv(daemon, Page') /\ UNCHANGED store
<1>1. q = Page'
  BY PageFields DEF Becomes, Page
<1>2. Answers(daemon, s, Page, q)
  <2>1. a.kind = "detail" => /\ a.epoch = daemon.epoch
                             /\ a.row.last = Len(daemon.log)
                             /\ a.row.seen = Turns(daemon, s)
    BY AnswerIs DEF Inv
  <2>2. ASSUME NEW t \in Sessions, NEW r \in Answered, IsRead(q, t, r), ~IsRead(Page, t, r)
        PROVE  t = s /\ r = a /\ a.kind = "detail"
    BY <2>2 DEF IsRead
  <2>3. QED
    BY <2>1, <2>2 DEF Answers
<1>3. Page.st \in Stores
  BY SamePage
<1>4. RowsInv(daemon, q)
  BY <1>2, <1>3, AnswerKeeps DEF Inv
<1>5. store' = store
  BY DEF Becomes, Page
<1>6. QED
  BY <1>1, <1>4, <1>5 DEF Inv

\* A reconnect's answer.
Replied(q, c, s, a) ==
    /\ OnlyStream(q, c) /\ q.str.epoch = c.str.epoch
    /\ q.str.cursor = c.str.cursor /\ q.str.frame = c.str.frame /\ q.str.up = c.str.up
    /\ c.str.reconnect.active /\ c.str.reconnect.reply = Asked
    /\ c.str.reconnect.session = s /\ q.str.reconnect.session = s
    /\ q.str.reconnect.cursor = c.str.reconnect.cursor
    /\ q.str.reconnect.active = c.str.reconnect.active
    /\ q.str.reconnect.superseded = c.str.reconnect.superseded
    /\ q.str.reconnect.reply = a

LEMMA ReconnectAnsweredDoes ==
    ASSUME Inv(daemon, Page), ReconnectAnswered
    PROVE  /\ UNCHANGED daemon
           /\ \E s \in Sessions : \E a \in Outcomes(s) : \E q \in Pages :
                 Becomes(q) /\ Replied(q, Page, s, a)
<1> DEFINE s == stream.reconnect.session
<1>1. PICK a \in Outcomes(s) : Becomes([Page EXCEPT !.str.reconnect.reply = a])
  BY DEF ReconnectAnswered
<1>2. stream.reconnect \in Reconnects /\ stream.reconnect.reply = Asked
  BY SamePage DEF Streams, ReconnectAnswered
<1>3. s \in Sessions /\ stream.reconnect.active
  BY <1>2, Values DEF Reconnects
<1>4. a \in Answered
  BY <1>3, SamePage, AnswerIs
<1> DEFINE r == [stream.reconnect EXCEPT !.reply = a]
           str == [stream EXCEPT !.reconnect = r]
           q == [Page EXCEPT !.str = str]
<1>5. /\ r \in Reconnects /\ r.reply = a /\ r.session = s
      /\ r.cursor = stream.reconnect.cursor /\ r.active = stream.reconnect.active
      /\ r.superseded = stream.reconnect.superseded
  BY <1>2, <1>3, <1>4 DEF Reconnects
<1>6. Becomes(q)
  BY <1>1 DEF Page
<1> HIDE DEF r
<1>7. /\ str \in Streams /\ str.epoch = stream.epoch /\ str.reconnect = r
      /\ str.cursor = stream.cursor /\ str.frame = stream.frame /\ str.up = stream.up
  BY <1>5, SamePage DEF Streams
<1> HIDE DEF str
<1>8. OnlyStream(q, Page) /\ q.str = str
  BY <1>7, NewStream DEF Inv
<1> HIDE DEF q
<1>9. Replied(q, Page, s, a) /\ q \in Pages
  BY <1>2, <1>3, <1>5, <1>7, <1>8, SamePage DEF OnlyStream, Replied
<1>10. UNCHANGED daemon
  BY DEF ReconnectAnswered
<1>11. QED
  BY <1>3, <1>6, <1>9, <1>10

\* An answer to the reconnect is a true read.
LEMMA ReconnectAnsweredStep ==
    ASSUME Inv(daemon, Page), ReconnectAnswered
    PROVE  Inv(daemon, Page') /\ UNCHANGED <<store, daemon>>
<1>1. PICK s \in Sessions : \E a \in Outcomes(s) : \E q \in Pages :
          Becomes(q) /\ Replied(q, Page, s, a)
  BY ReconnectAnsweredDoes
<1>2. PICK a \in Outcomes(s), q \in Pages : Becomes(q) /\ Replied(q, Page, s, a)
  BY <1>1
<1>3. OnlyStream(q, Page)
  BY <1>2 DEF Replied
<1>4. q \in Pages /\ Cover(q)
  <2>1. SameObligations(q, Page)
    BY <1>3 DEF OnlyStream, SameObligations, SameWork, SamePass
  <2>2. QED
    BY <1>2, <2>1, CoverKept DEF Inv
<1>5. UNCHANGED daemon
  BY ReconnectAnsweredDoes
<1>6. Inv(daemon, Page') /\ UNCHANGED store
  BY <1>2, <1>3, <1>4, AnswerStep DEF Replied, OnlyStream
<1>7. QED
  BY <1>5, <1>6

\* Another lifetime is taken over.
EpochChanged(q, c, e) ==
    /\ q \in Pages /\ q.str = c.str /\ q.st.epoch = e
    /\ q.st.tombstones = c.st.tombstones
    /\ q.rec.reply = c.rec.reply
    /\ c.st.epoch = e => q = c
    /\ c.st.epoch # e =>
          \A s \in Sessions : /\ q.st.rows[s] = NoRow /\ q.st.cursor[s] = -1
                              /\ q.ft[s] = Unasked

\* What a verified lifetime leaves of the page, with or without a change.
LEMMA EpochChangeIs ==
    ASSUME NEW c \in Pages, NEW e \in Epochs, NEW q, q = ApplyEpochChange(c, e)
    PROVE  EpochChanged(q, c, e)
<1>1. CASE c.st.epoch = e
  BY <1>1, EpochChangeDoes DEF EpochChanged
<1>2. CASE c.st.epoch # e
  <2> DEFINE p == Renewed(c, e)
  <2>1. p = Renewed(c, e) /\ q = QueueRecovery(p, c.st.hydrated, Directories)
    BY <1>2, EpochChangeDoes
  <2> HIDE DEF p
  <2>2. /\ p \in Pages /\ p.str = c.str
        /\ p.ft = [s \in Sessions |-> Unasked]
        /\ p.st = RenewedStore(c.st, e)
        /\ p.rec = RenewedWork(c.rec, c.lo.overtaken)
    BY <2>1, RenewedDoes
  <2>3. c.st.hydrated \in SUBSET Sessions /\ c.st \in Stores /\ c.rec \in Recoveries
        /\ c.lo.overtaken \in SUBSET Sessions
    BY PageFields DEF Stores, Loss
  <2>4. /\ p.st.epoch = e /\ p.st.tombstones = c.st.tombstones
        /\ \A s \in Sessions : p.st.rows[s] = NoRow /\ p.st.cursor[s] = -1
    BY <2>2, <2>3, RenewedStoreFields
  <2>5. p.rec.reply = c.rec.reply
    BY <2>2, <2>3, RenewedWorkFields
  <2>6. /\ q \in Pages /\ q.str = p.str /\ q.st = p.st /\ q.ft = p.ft
        /\ q.rec.reply = p.rec.reply
    <3>1. CASE c.st.hydrated \cup Directories = {}
      <4>1. q = p
        BY <2>1, <3>1 DEF QueueRecovery
      <4>2. QED
        BY <2>2, <4>1
    <3>2. CASE c.st.hydrated \cup Directories # {}
      <4>1. OnlySignal(q, p, c.st.hydrated, Directories)
        BY <2>1, <2>2, <2>3, <3>2, QueueDoes
      <4>2. SignalledWork(q.rec, p.rec, c.st.hydrated, Directories)
        BY <2>1, <2>2, <2>3, <3>2, QueueWork
      <4>3. QED
        BY <4>1, <4>2 DEF OnlySignal, SignalledWork
    <3>3. QED
      BY <3>1, <3>2
  <2>7. \A s \in Sessions : q.ft[s] = Unasked
    BY <2>2, <2>6
  <2>8. QED
    BY <1>2, <2>2, <2>4, <2>5, <2>6, <2>7 DEF EpochChanged
<1>3. QED
  BY <1>1, <1>2

\* The page, when its stream is connected again.
Up(c) == [StreamReconnected(c) EXCEPT !.str.up = TRUE]

ConnectedAs(q, c) ==
    /\ q \in Pages /\ SameObligations(q, c)
    /\ q.st.epoch = c.st.epoch /\ q.st.rows = c.st.rows /\ q.st.cursor = c.st.cursor
    /\ q.ft = c.ft
    /\ q.str.reconnect.session = c.str.reconnect.session
    /\ q.str.reconnect.reply = c.str.reconnect.reply

\* A connection that is made changes no transcript.
LEMMA UpDoes ==
    ASSUME NEW c \in Pages, NEW q, q = Up(c)
    PROVE  /\ ConnectedAs(q, c) /\ q.str.epoch = c.str.epoch
           /\ SameTranscripts(q.st, c.st) /\ q.lo = c.lo /\ q.str.up
           /\ q.str.cursor = c.str.cursor /\ q.str.frame = c.str.frame
           /\ q.str.reconnect.active => q.str.reconnect.superseded
<1> DEFINE p == StreamReconnected(c)
           str == [p.str EXCEPT !.up = TRUE]
<1>1. p = StreamReconnected(c)
  OBVIOUS
<1> HIDE DEF p
<1>2. /\ p \in Pages /\ p.ft = c.ft /\ p.ls = c.ls /\ p.lo = c.lo
      /\ SameTranscripts(p.st, c.st)
      /\ SameWork(p.rec, c.rec)
      /\ SamePass(p.rec, c.rec) \/ Begun(p.rec, c.rec)
      /\ Timely(c.rec) => Timely(p.rec)
      /\ SameTransport(p.str, c.str)
      /\ p.str.reconnect.session = c.str.reconnect.session
      /\ p.str.reconnect.reply = c.str.reconnect.reply
      /\ p.str.reconnect.active => p.str.reconnect.superseded
  BY <1>1, StreamReconnectedDoes
<1>3. q = [p EXCEPT !.str = str]
  BY <1>1 DEF Up
<1>4. /\ str \in Streams /\ str.epoch = p.str.epoch /\ str.reconnect = p.str.reconnect
      /\ str.cursor = p.str.cursor /\ str.frame = p.str.frame /\ str.up
  BY <1>2, PageFields DEF Streams
<1> HIDE DEF str
<1>5. OnlyStream(q, p) /\ q.str = str
  BY <1>2, <1>3, <1>4, NewStream
<1>6. SameObligations(q, c)
  BY <1>2, <1>5 DEF OnlyStream, SameObligations, SameTranscripts
<1>7. QED
  BY <1>2, <1>4, <1>5, <1>6 DEF OnlyStream, ConnectedAs, SameTranscripts, SameTransport

\* Making the connection is a step.
LEMMA ConnectedStep ==
    ASSUME NEW d, NEW c, NEW q, Inv(d, c), ConnectedAs(q, c), q.str.epoch = c.str.epoch
    PROVE  Advances(d, c, q)
<1>1. q \in Pages /\ Cover(q)
  BY CoverKept DEF ConnectedAs, Inv
<1>2. FewerReads(q, c)
  <2>1. q.rec.reply = c.rec.reply
    BY DEF ConnectedAs, SameObligations, SameWork
  <2>2. QED
    BY <2>1, ReadsFewer DEF ConnectedAs
<1>3. RowsStep(d, c, q)
  BY <1>2, Quiet DEF ConnectedAs
<1>4. QED
  BY <1>1, <1>3 DEF Advances

\* A connection to another lifetime.
LEMMA MovedStep ==
    ASSUME NEW d, NEW c, NEW p, Inv(d, c), ConnectedAs(p, c), c.str.epoch # d.epoch,
           p.str.epoch = d.epoch
    PROVE  Advances(d, c, ApplyEpochChange(p, d.epoch))
<1> DEFINE q == ApplyEpochChange(p, d.epoch)
<1>1. q = ApplyEpochChange(p, d.epoch) /\ p \in Pages /\ d.epoch \in Epochs
  BY DEF ConnectedAs, Inv, Daemons
<1>2. Cover(q)
  <2>1. Cover(p)
    BY CoverKept DEF ConnectedAs, Inv
  <2>2. QED
    BY <1>1, <2>1, EpochChangeCovers
<1> HIDE DEF q
<1>3. EpochChanged(q, p, d.epoch)
  BY <1>1, EpochChangeIs
<1>4. p.st.epoch # d.epoch
  BY DEF ConnectedAs, Inv, RowsInv
<1>5. \A s \in Sessions : q.st.rows[s] = NoRow /\ q.st.cursor[s] = -1
                          /\ q.ft[s].kind # "detail"
  BY <1>3, <1>4, Values DEF EpochChanged
<1>6. FewerReads(q, c)
  <2>1. q.rec.reply = c.rec.reply
    BY <1>3 DEF EpochChanged, ConnectedAs, SameObligations, SameWork
  <2>2. q.str.reconnect.session = c.str.reconnect.session
        /\ q.str.reconnect.reply = c.str.reconnect.reply
    BY <1>3 DEF EpochChanged, ConnectedAs
  <2>3. QED
    BY <1>5, <2>1, <2>2, ReadsFewer
<1>7. RowsStep(d, c, q)
  <2>1. q.st.epoch = d.epoch /\ q.str.epoch = d.epoch /\ d.epoch \in Nat
    BY <1>1, <1>3, StoreAssumption DEF EpochChanged, Epochs
  <2>2. QED
    BY <1>5, <1>6, <2>1, Values DEF RowsStep, RowStep
<1>8. QED
  BY <1>1, <1>2, <1>3, <1>7 DEF Advances, EpochChanged

WithFrame(c, frame) == [c EXCEPT !.str.frame = frame]

\* A resync frame that is waiting leaves everything else alone.
LEMMA Framed ==
    ASSUME NEW d, NEW c, NEW b, Advances(d, c, b), NEW frame \in Frames, NEW q,
           q = WithFrame(b, frame)
    PROVE  Advances(d, c, q)
<1> DEFINE str == [b.str EXCEPT !.frame = frame]
<1>1. b \in Pages /\ b.str \in Streams
  BY PageFields DEF Advances
<1>2. str \in Streams /\ str.epoch = b.str.epoch /\ str.reconnect = b.str.reconnect
  BY <1>1 DEF Streams
<1>3. q = [b EXCEPT !.str = str]
  BY DEF WithFrame
<1> HIDE DEF str
<1>4. OnlyStream(q, b) /\ q.str = str
  BY <1>1, <1>2, <1>3, NewStream
<1>5. Cover(q)
  BY <1>4 DEF Advances, Cover, OnlyStream, SessionsCovered, DirectoriesCovered
<1>6. RowsStep(d, c, q)
  <2>1. \A s \in Sessions, r \in Answered : IsRead(q, s, r) => IsRead(b, s, r)
    BY <1>2, <1>4 DEF IsRead, OnlyStream
  <2>2. QED
    BY <1>2, <1>4, <2>1 DEF Advances, RowsStep, FewerReads, RowStep, OnlyStream
<1>7. QED
  BY <1>4, <1>5, <1>6 DEF Advances, OnlyStream

\* The frames the daemon answers with are frames.
LEMMA FramesTyped ==
    ASSUME daemon \in Daemons, NEW after \in Heads, NEW f \in ResyncFrames(after)
    PROVE  f \in Frames
<1>1. LogHead \in Heads
  BY StoreAssumption DEF Daemons, LogHead, Heads
<1>2. PICK s \in Sessions : f = [session |-> s, head |-> LogHead, after |-> after]
  BY DEF ResyncFrames
<1>3. QED
  BY <1>1, <1>2 DEF Frames

\* The page at the new lifetime's head, and the page that passes over what the
\* daemon cannot replay.
AtHead(c, e, head) == [c EXCEPT !.str.epoch = e, !.str.cursor = head]
Skipped(c, head, cursor) ==
    [c EXCEPT !.str.cursor = head, !.lo.unsignalled = @ \cup (cursor + 1) .. head]

\* A new lifetime is followed from its head on.
LEMMA AtHeadDoes ==
    ASSUME NEW c \in Pages, NEW e \in Epochs, NEW head \in Heads, NEW q,
           q = AtHead(c, e, head)
    PROVE  /\ OnlyStream(q, c) /\ q.str.epoch = e /\ q.str.reconnect = c.str.reconnect
           /\ q.str.cursor = head /\ q.str.frame = c.str.frame /\ (c.str.up => q.str.up)
<1> DEFINE str == [c.str EXCEPT !.epoch = e, !.cursor = head]
<1>1. /\ str \in Streams /\ str.epoch = e /\ str.reconnect = c.str.reconnect
      /\ str.cursor = head /\ str.frame = c.str.frame /\ (c.str.up => str.up)
  BY PageFields DEF Streams
<1>2. q = [c EXCEPT !.str = str]
  BY DEF AtHead, Pages
<1> HIDE DEF str
<1>3. OnlyStream(q, c) /\ q.str = str
  BY <1>1, <1>2, NewStream
<1>4. QED
  BY <1>1, <1>3

\* A resync without a session moves the stream only.
LEMMA SkippedDoes ==
    ASSUME NEW c \in Pages, NEW head \in Heads, NEW cursor \in Heads, NEW q,
           q = Skipped(c, head, cursor)
    PROVE  /\ q \in Pages /\ q.st = c.st /\ q.rec = c.rec /\ q.ft = c.ft
           /\ q.ls = c.ls /\ q.str.epoch = c.str.epoch
           /\ q.str.reconnect = c.str.reconnect /\ q.lo.overtaken = c.lo.overtaken
           /\ q.str.cursor = head /\ q.str.frame = c.str.frame
           /\ q.lo.jumped = c.lo.jumped /\ q.lo.crossed = c.lo.crossed
           /\ q.lo.evicted = c.lo.evicted /\ q.lo.reported = c.lo.reported
           /\ q.lo.unsignalled = c.lo.unsignalled \cup (cursor + 1) .. head
<1> DEFINE str == [c.str EXCEPT !.cursor = head]
           passed == (cursor + 1) .. head
           lo == [c.lo EXCEPT !.unsignalled = @ \cup passed]
<1>1. /\ str \in Streams /\ str.epoch = c.str.epoch /\ str.reconnect = c.str.reconnect
      /\ str.cursor = head /\ str.frame = c.str.frame
  BY PageFields DEF Streams
<1>2. q = [c EXCEPT !.str = str, !.lo = lo]
  <2> DEFINE b == [c EXCEPT !.str = str]
  <2>1. q = [b EXCEPT !.lo = [b.lo EXCEPT !.unsignalled = @ \cup passed]]
    BY DEF Skipped
  <2> HIDE DEF str, passed
  <2>2. b.lo = c.lo
    BY DEF Pages
  <2>3. q = [b EXCEPT !.lo = lo]
    BY <2>1, <2>2
  <2>4. QED
    BY <2>3
<1>3. passed \in SUBSET Sequences
  BY StoreAssumption DEF Heads, Sequences
<1> HIDE DEF str
<1>4. passed = (cursor + 1) .. head
  OBVIOUS
<1> HIDE DEF passed
<1>5. /\ lo \in Loss /\ lo.overtaken = c.lo.overtaken
      /\ lo.jumped = c.lo.jumped /\ lo.crossed = c.lo.crossed
      /\ lo.evicted = c.lo.evicted /\ lo.reported = c.lo.reported
      /\ lo.unsignalled = c.lo.unsignalled \cup passed
  BY <1>3, PageFields DEF Loss
<1> HIDE DEF lo
<1>6. /\ q \in Pages /\ q.st = c.st /\ q.rec = c.rec /\ q.ft = c.ft
      /\ q.ls = c.ls /\ q.str = str /\ q.lo = lo
  BY <1>1, <1>2, <1>5 DEF Pages
<1>7. QED
  BY <1>1, <1>4, <1>5, <1>6

\* What Connect may make of the page.
LEMMA ConnectIs ==
    ASSUME Connect, NEW up, up = Up(Page),
           NEW moved, moved = ApplyEpochChange(AtHead(up, daemon.epoch, LogHead), daemon.epoch)
    PROVE  /\ UNCHANGED daemon
           /\ \/ Becomes(up)
              \/ \E f \in ResyncFrames(stream.cursor) : Becomes(WithFrame(up, f))
              \/ Becomes(Skipped(up, LogHead, stream.cursor))
              \/ /\ stream.epoch # daemon.epoch
                 /\ \/ \E f \in ResyncFrames(LogHead) : Becomes(WithFrame(moved, f))
                    \/ Becomes(moved)
BY DEF Connect, Up, AtHead, WithFrame, Skipped

\* Connect keeps the invariant.
LEMMA ConnectStep ==
    ASSUME Inv(daemon, Page), Connect
    PROVE  Advances(daemon, Page, Page') /\ UNCHANGED daemon
<1> DEFINE c == Page
           up == Up(c)
           at == AtHead(up, daemon.epoch, LogHead)
           moved == ApplyEpochChange(at, daemon.epoch)
           skipped == Skipped(up, LogHead, stream.cursor)
<1>1. /\ c = Page /\ up = Up(c) /\ at = AtHead(up, daemon.epoch, LogHead)
      /\ moved = ApplyEpochChange(at, daemon.epoch)
      /\ skipped = Skipped(up, LogHead, stream.cursor)
      /\ Inv(daemon, c)
  OBVIOUS
<1>2. LogHead \in Heads /\ daemon.epoch \in Epochs
  BY SamePage, StoreAssumption DEF Daemons, LogHead, Heads
<1>3. stream.cursor \in Heads /\ c.str.epoch = stream.epoch
  BY SamePage DEF Streams
<1> HIDE DEF c, up, at, moved, skipped
<1>4. ConnectedAs(up, c) /\ up.str.epoch = c.str.epoch /\ up \in Pages
  <2>1. c \in Pages
    BY <1>1 DEF Inv
  <2>2. QED
    BY <1>1, <2>1, UpDoes DEF ConnectedAs
<1>5. Advances(daemon, c, up)
  BY <1>1, <1>4, ConnectedStep
<1>6. Advances(daemon, c, skipped)
  <2>1. /\ skipped \in Pages /\ skipped.st = up.st /\ skipped.rec = up.rec
        /\ skipped.ft = up.ft /\ skipped.ls = up.ls
        /\ skipped.str.epoch = up.str.epoch
        /\ skipped.str.reconnect = up.str.reconnect
        /\ skipped.lo.overtaken = up.lo.overtaken
    BY <1>1, <1>2, <1>3, <1>4, SkippedDoes
  <2>2. ConnectedAs(skipped, c)
    BY <1>4, <2>1 DEF ConnectedAs, SameObligations
  <2>3. QED
    BY <1>1, <1>4, <2>1, <2>2, ConnectedStep
<1>7. stream.epoch # daemon.epoch => Advances(daemon, c, moved)
  <2>1. OnlyStream(at, up) /\ at.str.epoch = daemon.epoch
        /\ at.str.reconnect = up.str.reconnect
    BY <1>1, <1>2, <1>4, AtHeadDoes
  <2>2. ConnectedAs(at, c)
    BY <1>4, <2>1 DEF ConnectedAs, SameObligations, OnlyStream
  <2>3. QED
    BY <1>1, <1>3, <2>1, <2>2, MovedStep
<1>8. /\ UNCHANGED daemon
      /\ \/ Becomes(up)
         \/ \E f \in ResyncFrames(stream.cursor) : Becomes(WithFrame(up, f))
         \/ Becomes(skipped)
         \/ /\ stream.epoch # daemon.epoch
            /\ \/ \E f \in ResyncFrames(LogHead) : Becomes(WithFrame(moved, f))
               \/ Becomes(moved)
  BY <1>1, ConnectIs
<1>9. \A f \in ResyncFrames(stream.cursor) \cup ResyncFrames(LogHead) : f \in Frames
  BY <1>2, <1>3, SamePage, FramesTyped
<1>10. ASSUME NEW b, Advances(daemon, c, b), Becomes(b)
       PROVE  Advances(daemon, Page, Page')
  BY <1>1, <1>10, Arrives
<1>11. ASSUME NEW b, Advances(daemon, c, b), NEW f \in Frames, Becomes(WithFrame(b, f))
       PROVE  Advances(daemon, Page, Page')
  <2>1. Advances(daemon, c, WithFrame(b, f))
    BY <1>11, Framed
  <2>2. QED
    BY <1>10, <1>11, <2>1
<1>12. QED
  BY <1>5, <1>6, <1>7, <1>8, <1>9, <1>10, <1>11

-----------------------------------------------------------------------------
(* What the stream delivers.                                               *)

\* A step of the page keeps its invariant.
LEMMA AdvancesInv ==
    ASSUME NEW d, NEW c, NEW q, Inv(d, c), Advances(d, c, q)
    PROVE  Inv(d, q)
BY RowsKept DEF Inv, Advances

\* A step that leaves the transcripts alone, and then another one.
Prepares(o, c) ==
    /\ o.st = c.st /\ o.str.reconnect.session = c.str.reconnect.session
    /\ FewerReads(o, c) /\ FewerReads(c, o)

\* A step may follow another one that changed no transcript.
LEMMA ThenAdvances ==
    ASSUME NEW d, NEW c, NEW o, NEW q, Prepares(o, c), Advances(d, o, q)
    PROVE  Advances(d, c, q)
<1>1. FewerReads(q, c)
  BY DEF FewerReads, Prepares, Advances, RowsStep
<1>2. ASSUME NEW s \in Sessions PROVE RowStep(d, c, q, s)
  <2>1. RowStep(d, o, q, s)
    BY DEF Advances, RowsStep
  <2>2. \A r \in Answered : IsRead(c, s, r) => IsRead(o, s, r)
    BY DEF Prepares, FewerReads
  <2>3. ASSUME NEW e, NEW row, Sound(d, o, e, s, row) PROVE Sound(d, c, e, s, row)
    BY <2>2, <2>3 DEF Sound
  <2>4. QED
    BY <2>1, <2>3 DEF RowStep, Prepares
<1>3. QED
  BY <1>1, <1>2 DEF Advances, RowsStep

\* A snapshot moves the cursor of its session, and erases nothing.
LEMMA SnapshotStep ==
    ASSUME NEW d, NEW c, Inv(d, c), NEW s \in Sessions, NEW head \in Heads
    PROVE  Advances(d, c, ApplySnapshot(c, s, head))
<1> DEFINE row == [c.st.rows[s] EXCEPT !.last = head]
           q == ApplySnapshot(c, s, head)
<1>1. CASE s \in c.st.tombstones \/ head < c.st.cursor[s]
  BY <1>1, SameStep DEF ApplySnapshot
<1>2. CASE ~(s \in c.st.tombstones \/ head < c.st.cursor[s])
  <2>1. q = Restore(SetRow(c, s, row), s)
    BY <1>2 DEF ApplySnapshot
  <2>2. c \in Pages /\ s \in Sessions \ c.st.tombstones /\ c.st.rows[s] \in Row
        /\ c.st.cursor[s] \in Cursors
    BY <1>2, PageFields DEF Inv, Stores
  <2>3. row \in Row /\ row.seen = c.st.rows[s].seen /\ row.last = head
    BY <2>2 DEF Row, Heads
  <2> HIDE DEF row, q
  <2>4. /\ OnlyTranscripts(q, c)
        /\ q.st.epoch = c.st.epoch /\ q.st.tombstones = c.st.tombstones
        /\ q.st.rows[s] = row /\ q.st.cursor[s] = row.last
        /\ \A t \in Sessions \ {s} : q.st.rows[t] = c.st.rows[t]
        /\ \A t \in Sessions \ {s} : q.st.cursor[t] = c.st.cursor[t]
        /\ \A t \in Sessions \ {s} : q.ft[t] = c.ft[t]
        /\ q.ft[s] = c.ft[s] \/ q.ft[s] = Asked
    BY <2>1, <2>2, <2>3, RestoredRow
  <2>5. Sound(d, c, c.st.epoch, s, row)
    <3>1. Sound(d, c, c.st.epoch, s, c.st.rows[s]) /\ c.st.rows[s].last <= c.st.cursor[s]
      BY DEF Inv, RowsInv
    <3>2. c.st.rows[s].last \in Cursors /\ c.st.rows[s].last <= head
      BY <1>2, <2>2, <3>1, StoreAssumption DEF Row, Cursors, Heads
    <3>3. \A r \in Answered : SameOrder(c.st.rows[s], r.row) => SameOrder(row, r.row)
      <4> SUFFICES ASSUME NEW r \in Answered, SameOrder(c.st.rows[s], r.row)
                   PROVE  SameOrder(row, r.row)
        OBVIOUS
      <4>1. r.row.last \in Cursors
        BY DEF Answered, Reads, Row, Cursors
      <4>2. QED
        BY <2>3, <3>2, <4>1, StoreAssumption DEF SameOrder, Cursors, Heads
    <3>4. QED
      BY <2>3, <3>1, <3>3 DEF Sound
  <2>6. RowStep(d, c, q, s)
    BY <2>2, <2>3, <2>4, <2>5 DEF RowStep
  <2>7. \A t \in Sessions : q.ft[t] = c.ft[t] \/ q.ft[t].kind # "detail"
    BY <2>4, Values
  <2>8. q.st.rows[s].last <= q.st.cursor[s]
    BY <2>3, <2>4, StoreAssumption DEF Heads
  <2>9. Advances(d, c, q)
    BY <2>4, <2>6, <2>7, <2>8, TranscriptStep
  <2>10. QED
    BY <2>9 DEF q
<1>3. QED
  BY <1>1, <1>2

\* A live event joins its row: it is the session's own, and the row had no later one.
LEMMA TurnStep ==
    ASSUME NEW d, NEW c, Inv(d, c), c.st.epoch = d.epoch, NEW s \in Sessions,
           NEW n \in 1 .. Len(d.log), d.log[n] = Turn(s)
    PROVE  Advances(d, c, ApplyTurn(c, s, n))
<1> DEFINE row == [seen |-> c.st.rows[s].seen \cup {n}, last |-> n]
           applied == SetRow(c, s, row)
           q == ApplyTurn(c, s, n)
<1>1. CASE s \in c.st.tombstones \/ n <= c.st.cursor[s]
  BY <1>1, SameStep DEF ApplyTurn
<1>2. CASE ~(s \in c.st.tombstones \/ n <= c.st.cursor[s])
  <2>1. q = applied \/ q = Restore(SetRow(c, s, row), s)
    BY <1>2 DEF ApplyTurn
  <2>2. c \in Pages /\ s \in Sessions \ c.st.tombstones /\ c.st.rows[s] \in Row
        /\ c.st.cursor[s] \in Cursors /\ c.st \in Stores
    BY <1>2, PageFields DEF Inv, Stores
  <2>3. n \in 1 .. MaxSequence /\ n \in Turns(d, s)
    BY StoreAssumption DEF Inv, Daemons, Turns
  <2>4. row \in Row /\ row.seen = c.st.rows[s].seen \cup {n} /\ row.last = n
    BY <2>2, <2>3, StoreAssumption DEF Row
  <2>5. applied = SetRow(c, s, row)
    OBVIOUS
  <2> HIDE DEF row, applied, q
  <2>6. /\ OnlyTranscripts(q, c)
        /\ q.st.epoch = c.st.epoch /\ q.st.tombstones = c.st.tombstones
        /\ q.st.rows[s] = row /\ q.st.cursor[s] = row.last
        /\ \A t \in Sessions \ {s} : q.st.rows[t] = c.st.rows[t]
        /\ \A t \in Sessions \ {s} : q.st.cursor[t] = c.st.cursor[t]
        /\ \A t \in Sessions : q.ft[t] = c.ft[t] \/ q.ft[t] = Asked
    <3>1. CASE q = applied
      <4>1. OnlyTranscripts(q, c) /\ q.ft = c.ft /\ q.st = WithRow(c.st, s, row)
        BY <2>2, <2>4, <2>5, <3>1, SetRowDoes
      <4>2. /\ SameChrome(q.st, c.st) /\ q.st.tombstones = c.st.tombstones
            /\ q.st.rows[s] = row /\ q.st.cursor[s] = row.last
            /\ \A t \in Sessions \ {s} : q.st.rows[t] = c.st.rows[t]
            /\ \A t \in Sessions \ {s} : q.st.cursor[t] = c.st.cursor[t]
        BY <2>2, <2>4, <4>1, WithRowFields
      <4>3. QED
        BY <4>1, <4>2 DEF SameChrome
    <3>2. CASE q = Restore(SetRow(c, s, row), s)
      <4>1. /\ OnlyTranscripts(q, c)
            /\ q.st.epoch = c.st.epoch /\ q.st.tombstones = c.st.tombstones
            /\ q.st.rows[s] = row /\ q.st.cursor[s] = row.last
            /\ \A t \in Sessions \ {s} : q.st.rows[t] = c.st.rows[t]
            /\ \A t \in Sessions \ {s} : q.st.cursor[t] = c.st.cursor[t]
            /\ \A t \in Sessions \ {s} : q.ft[t] = c.ft[t]
            /\ q.ft[s] = c.ft[s] \/ q.ft[s] = Asked
        BY <2>2, <2>4, <3>2, RestoredRow
      <4>2. QED
        BY <4>1
    <3>3. QED
      BY <2>1, <3>1, <3>2
  <2>7. Sound(d, c, c.st.epoch, s, row)
    <3>1. Sound(d, c, c.st.epoch, s, c.st.rows[s]) /\ c.st.rows[s].last <= c.st.cursor[s]
          /\ ReadsInv(d, c, s)
      BY DEF Inv, RowsInv
    <3>2. c.st.rows[s].last \in Cursors /\ c.st.rows[s].last < n
      BY <1>2, <2>2, <2>3, <3>1, StoreAssumption DEF Row, Cursors
    <3>3. ASSUME NEW r \in Answered, IsRead(c, s, r), r.epoch = c.st.epoch
          PROVE  SameOrder(row, r.row)
      <4>1. r.row.last \in Cursors
        BY DEF Answered, Reads, Row, Cursors
      <4>2. SameOrder(c.st.rows[s], r.row)
        BY <3>1, <3>3 DEF Sound
      <4>3. r.row.seen = {m \in Turns(d, s) : m <= r.row.last}
        BY <3>1, <3>3 DEF ReadsInv, TrueRead
      <4>4. n <= r.row.last => n \in r.row.seen
        BY <2>3, <4>3
      <4>5. n <= r.row.last => c.st.rows[s].last <= r.row.last
        BY <2>3, <3>2, <4>1, StoreAssumption DEF Cursors
      <4>6. QED
        BY <2>4, <4>2, <4>4, <4>5 DEF SameOrder
    <3>4. row.seen \subseteq Turns(d, s)
      BY <2>3, <2>4, <3>1 DEF Sound
    <3>5. QED
      BY <3>3, <3>4 DEF Sound
  <2>8. RowStep(d, c, q, s)
    BY <2>2, <2>4, <2>6, <2>7 DEF RowStep
  <2>9. \A t \in Sessions : q.ft[t] = c.ft[t] \/ q.ft[t].kind # "detail"
    BY <2>6, Values
  <2>10. q.st.rows[s].last <= q.st.cursor[s]
    BY <2>3, <2>4, <2>6, StoreAssumption
  <2>11. Advances(d, c, q)
    BY <2>6, <2>8, <2>9, <2>10, TranscriptStep
  <2>12. QED
    BY <2>11 DEF q
<1>3. QED
  BY <1>1, <1>2

\* A deletion, whoever reports it.
LEMMA DeletionStep ==
    ASSUME NEW d, NEW c, Inv(d, c), NEW s \in Sessions
    PROVE  Advances(d, c, CommitDeletion(c, s))
<1> DEFINE q == CommitDeletion(c, s)
<1>1. q = CommitDeletion(c, s) /\ c \in Pages /\ c.st \in Stores
  BY PageFields DEF Inv
<1> HIDE DEF q
<1>2. OnlyTranscripts(q, c) /\ q.ft = c.ft /\ q.st = Buried(c.st, s)
  BY <1>1, DeletionDoes
<1>3. /\ q.st.epoch = c.st.epoch /\ q.st.tombstones = c.st.tombstones \cup {s}
      /\ q.st.cursor = c.st.cursor /\ q.st.rows[s] = NoRow
      /\ \A t \in Sessions \ {s} : q.st.rows[t] = c.st.rows[t]
  BY <1>1, <1>2, BuriedFields DEF SameChrome
<1>4. q.st.rows[s].last <= q.st.cursor[s]
  BY <1>1, <1>3, Values, StoreAssumption DEF Stores, Cursors
<1>5. RowStep(d, c, q, s)
  BY <1>3 DEF RowStep
<1>6. Advances(d, c, q)
  BY <1>2, <1>3, <1>4, <1>5, TranscriptStep
<1>7. QED
  BY <1>6 DEF q

\* A deletion's event removes the row.
LEMMA DeletedEventStep ==
    ASSUME NEW d, NEW c, Inv(d, c), NEW s \in Sessions, NEW n \in 1 .. Len(d.log)
    PROVE  Advances(d, c, ApplyDeletion(c, s, n))
<1> DEFINE q == ApplyDeletion(c, s, n)
           b == CommitDeletion(c, s)
           cursor == [b.st.cursor EXCEPT ![s] = n]
           st == [b.st EXCEPT !.cursor = cursor]
<1>1. CASE s \in c.st.tombstones \/ n <= c.st.cursor[s]
  BY <1>1, SameStep DEF ApplyDeletion
<1>2. CASE ~(s \in c.st.tombstones \/ n <= c.st.cursor[s])
  <2>1. q = [b EXCEPT !.st = st] /\ b = CommitDeletion(c, s)
    BY <1>2 DEF ApplyDeletion
  <2>2. c \in Pages /\ c.st \in Stores /\ n \in Heads
    BY PageFields, StoreAssumption DEF Inv, Daemons, Heads
  <2> HIDE DEF b, q
  <2>3. OnlyTranscripts(b, c) /\ b.ft = c.ft /\ b.st = Buried(c.st, s)
    BY <2>1, <2>2, DeletionDoes
  <2>4. /\ b.st \in Stores
        /\ b.st.epoch = c.st.epoch /\ b.st.tombstones = c.st.tombstones \cup {s}
        /\ b.st.cursor = c.st.cursor /\ b.st.rows[s] = NoRow
        /\ \A t \in Sessions \ {s} : b.st.rows[t] = c.st.rows[t]
    BY <2>2, <2>3, BuriedFields DEF SameChrome
  <2>5. /\ cursor \in [Sessions -> Cursors] /\ cursor[s] = n
        /\ \A t \in Sessions \ {s} : cursor[t] = b.st.cursor[t]
    BY <2>2, <2>4, StoreAssumption DEF Stores, Heads, Cursors
  <2> HIDE DEF cursor
  <2>6. /\ st \in Stores /\ st.epoch = b.st.epoch /\ st.tombstones = b.st.tombstones
        /\ st.cursor = cursor /\ st.rows = b.st.rows
    BY <2>4, <2>5 DEF Stores
  <2> HIDE DEF st
  <2>7. OnlyTranscripts(q, b) /\ q.ft = b.ft /\ q.st = st
    BY <2>1, <2>3, <2>6, NewStore DEF OnlyTranscripts
  <2>8. OnlyTranscripts(q, c) /\ q.ft = c.ft
    BY <2>3, <2>7 DEF OnlyTranscripts
  <2>9. q.st.rows[s].last <= q.st.cursor[s]
    BY <2>2, <2>4, <2>5, <2>6, <2>7, Values, StoreAssumption DEF Heads
  <2>10. RowStep(d, c, q, s)
    BY <2>4, <2>6, <2>7 DEF RowStep
  <2>11. Advances(d, c, q)
    BY <2>4, <2>5, <2>6, <2>7, <2>8, <2>9, <2>10, TranscriptStep
  <2>12. QED
    BY <2>11 DEF q
<1>3. QED
  BY <1>1, <1>2

Taken(c, f) == [c EXCEPT !.str.frame = NoFrame, !.str.cursor = f.head]

\* Taking a frame moves the stream's cursor only.
LEMMA TakenDoes ==
    ASSUME NEW c \in Pages, NEW f, f.head \in Heads, NEW q, q = Taken(c, f)
    PROVE  OnlyStream(q, c) /\ q.str.epoch = c.str.epoch
           /\ q.str.reconnect = c.str.reconnect
           /\ q.str.cursor = f.head /\ q.str.frame = NoFrame
<1> DEFINE str == [c.str EXCEPT !.frame = NoFrame, !.cursor = f.head]
<1>1. str \in Streams /\ str.epoch = c.str.epoch /\ str.reconnect = c.str.reconnect
      /\ str.cursor = f.head /\ str.frame = NoFrame
  BY PageFields, Values DEF Streams
<1>2. q = [c EXCEPT !.str = str]
  BY DEF Taken, Pages
<1> HIDE DEF str
<1>3. OnlyStream(q, c) /\ q.str = str
  BY <1>1, <1>2, NewStream
<1>4. QED
  BY <1>1, <1>3

\* The page when a resync is seen, before the signal it gives; and when no one
\* looks at it.
Marked(c) == [c EXCEPT !.str.resyncObserved = TRUE, !.lo.crossed = @ \cup Crossed(c)]
Unseen(c, f) == [c EXCEPT !.lo.unsignalled = @ \cup (f.after + 1) .. f.head]

\* Only what the page knows of its losses and of its stream has changed.
NotesOnly(q, c) ==
    /\ q \in Pages /\ q.st = c.st /\ q.rec = c.rec /\ q.ft = c.ft /\ q.ls = c.ls
    /\ q.str.epoch = c.str.epoch /\ q.str.reconnect = c.str.reconnect
    /\ q.lo.overtaken = c.lo.overtaken

\* A resync that is observed notes what it crosses.
LEMMA MarkedDoes ==
    ASSUME NEW c \in Pages, NEW q, q = Marked(c)
    PROVE  /\ NotesOnly(q, c)
           /\ q.str.cursor = c.str.cursor /\ q.str.frame = c.str.frame
           /\ q.lo.jumped = c.lo.jumped /\ q.lo.unsignalled = c.lo.unsignalled
           /\ q.lo.evicted = c.lo.evicted /\ q.lo.reported = c.lo.reported
           /\ q.lo.crossed = c.lo.crossed \cup Crossed(c)
<1> DEFINE str == [c.str EXCEPT !.resyncObserved = TRUE]
           crossed == Crossed(c)
           lo == [c.lo EXCEPT !.crossed = @ \cup crossed]
<1>1. str \in Streams /\ str.epoch = c.str.epoch /\ str.reconnect = c.str.reconnect
      /\ str.cursor = c.str.cursor /\ str.frame = c.str.frame
  BY PageFields DEF Streams
<1>2. q = [c EXCEPT !.str = str, !.lo = lo]
  <2> DEFINE b == [c EXCEPT !.str = str]
  <2>1. q = [b EXCEPT !.lo = [b.lo EXCEPT !.crossed = @ \cup crossed]]
    BY DEF Marked
  <2> HIDE DEF str, crossed
  <2>2. b.lo = c.lo
    BY DEF Pages
  <2>3. q = [b EXCEPT !.lo = lo]
    BY <2>1, <2>2
  <2>4. QED
    BY <2>3
<1>3. crossed \in SUBSET Sessions
  BY DEF Crossed
<1>0. crossed = Crossed(c)
  OBVIOUS
<1> HIDE DEF str, crossed
<1>4. lo \in Loss /\ lo.overtaken = c.lo.overtaken /\ lo.jumped = c.lo.jumped
      /\ lo.unsignalled = c.lo.unsignalled /\ lo.evicted = c.lo.evicted
      /\ lo.reported = c.lo.reported
      /\ lo.crossed = c.lo.crossed \cup crossed
  BY <1>3, PageFields DEF Loss
<1> HIDE DEF lo
<1>5. /\ q \in Pages /\ q.st = c.st /\ q.rec = c.rec /\ q.ft = c.ft
      /\ q.ls = c.ls /\ q.str = str /\ q.lo = lo
  BY <1>1, <1>2, <1>4 DEF Pages
<1>6. QED
  BY <1>0, <1>1, <1>4, <1>5 DEF NotesOnly

\* A resync that is not is noted as unsignalled.
LEMMA UnseenDoes ==
    ASSUME NEW c \in Pages, NEW f, f.after \in Heads, f.head \in Heads,
           NEW q, q = Unseen(c, f)
    PROVE  /\ NotesOnly(q, c)
           /\ q.str.cursor = c.str.cursor /\ q.str.frame = c.str.frame
           /\ q.lo.jumped = c.lo.jumped /\ q.lo.crossed = c.lo.crossed
           /\ q.lo.evicted = c.lo.evicted /\ q.lo.reported = c.lo.reported
           /\ q.lo.unsignalled = c.lo.unsignalled \cup (f.after + 1) .. f.head
<1> DEFINE passed == (f.after + 1) .. f.head
           lo == [c.lo EXCEPT !.unsignalled = @ \cup passed]
<1>1. q = [c EXCEPT !.lo = lo]
  BY DEF Unseen
<1>2. passed \in SUBSET Sequences /\ passed = (f.after + 1) .. f.head
  BY StoreAssumption DEF Heads, Sequences
<1> HIDE DEF passed
<1>3. lo \in Loss /\ lo.overtaken = c.lo.overtaken /\ lo.jumped = c.lo.jumped
      /\ lo.crossed = c.lo.crossed /\ lo.evicted = c.lo.evicted
      /\ lo.reported = c.lo.reported
      /\ lo.unsignalled = c.lo.unsignalled \cup passed
  BY <1>2, PageFields DEF Loss
<1> HIDE DEF lo
<1>4. /\ q \in Pages /\ q.st = c.st /\ q.rec = c.rec /\ q.ft = c.ft /\ q.ls = c.ls
      /\ q.str = c.str /\ q.lo = lo
  BY <1>1, <1>3 DEF Pages
<1>5. QED
  BY <1>2, <1>3, <1>4 DEF NotesOnly

\* Notes change nothing that matters.
LEMMA NotesKeep ==
    ASSUME NEW q, NEW c \in Pages, NotesOnly(q, c)
    PROVE  /\ Cover(c) => Cover(q)
           /\ FewerReads(q, c) /\ FewerReads(c, q)
<1>1. SameObligations(q, c)
  BY DEF NotesOnly, SameObligations, SameWork, SamePass
<1>2. QED
  BY <1>1, CoverKept, ReadsFewer DEF NotesOnly

\* A resync that is looked at, or not, leaves the transcripts to its snapshot.
Observed(q, c) ==
    /\ q \in Pages /\ q.st = c.st /\ q.str.epoch = c.str.epoch
    /\ q.str.reconnect = c.str.reconnect
    /\ FewerReads(q, c) /\ FewerReads(c, q)
    /\ Cover(c) => Cover(q)

\* A resync keeps the obligations covered, and changes no transcript.
LEMMA ObserveDoes ==
    ASSUME NEW c \in Pages, NEW f, f.after \in Heads, f.head \in Heads, NEW q,
           q = ObserveResync(c, f)
    PROVE  Observed(q, c)
<1>1. CASE c.str.kind = "reconnect" /\ ~c.str.resyncObserved
  <2> DEFINE p == Marked(c)
             hydrated == c.st.hydrated
  <2>1. p = Marked(c) /\ q = QueueRecovery(p, hydrated, Directories)
    BY <1>1 DEF ObserveResync, Marked
  <2>2. hydrated \in SUBSET Sessions
    BY PageFields DEF Stores
  <2> HIDE DEF p, hydrated
  <2>3. NotesOnly(p, c)
    BY <2>1, MarkedDoes
  <2>4. p \in Pages /\ (Cover(c) => Cover(p)) /\ FewerReads(p, c) /\ FewerReads(c, p)
    BY <2>3, NotesKeep DEF NotesOnly
  <2>5. Cover(p) => Cover(q)
    BY <2>1, <2>2, <2>4, QueueCovers
  <2>6. /\ q \in Pages /\ q.str = p.str /\ q.st = p.st /\ q.ft = p.ft
        /\ q.rec.reply = p.rec.reply
    <3>1. CASE hydrated \cup Directories = {}
      <4>1. q = p
        BY <2>1, <3>1 DEF QueueRecovery
      <4>2. QED
        BY <2>4, <4>1
    <3>2. CASE hydrated \cup Directories # {}
      <4>1. OnlySignal(q, p, hydrated, Directories)
        BY <2>1, <2>2, <2>4, <3>2, QueueDoes
      <4>2. SignalledWork(q.rec, p.rec, hydrated, Directories)
        BY <2>1, <2>2, <2>4, <3>2, QueueWork
      <4>3. QED
        BY <4>1, <4>2 DEF OnlySignal, SignalledWork
    <3>3. QED
      BY <3>1, <3>2
  <2>7. FewerReads(q, p) /\ FewerReads(p, q)
    BY <2>6, ReadsFewer
  <2>8. FewerReads(q, c) /\ FewerReads(c, q)
    BY <2>4, <2>7 DEF FewerReads
  <2>9. QED
    BY <2>3, <2>4, <2>5, <2>6, <2>8 DEF Observed, NotesOnly
<1>2. CASE ~(c.str.kind = "reconnect" /\ ~c.str.resyncObserved)
  <2>1. q = Unseen(c, f)
    BY <1>2 DEF ObserveResync, Unseen
  <2>2. NotesOnly(q, c)
    BY <2>1, UnseenDoes
  <2>3. QED
    BY <2>2, NotesKeep DEF Observed, NotesOnly
<1>3. QED
  BY <1>1, <1>2

\* ReceiveResync keeps the invariant.
LEMMA ReceiveResyncStep ==
    ASSUME Inv(daemon, Page), ReceiveResync
    PROVE  Advances(daemon, Page, Page') /\ UNCHANGED daemon
<1> DEFINE c == Page
           f == stream.frame
           t == Taken(c, f)
           o == ObserveResync(t, f)
           q == ApplySnapshot(o, f.session, f.head)
<1>1. /\ c = Page /\ t = Taken(c, f) /\ o = ObserveResync(t, f) /\ Inv(daemon, c)
      /\ q = ApplySnapshot(o, f.session, f.head)
  OBVIOUS
<1>2. f.session \in Sessions /\ f.head \in Heads /\ f.after \in Heads
  <2>1. f \in Frames /\ f # NoFrame
    BY SamePage DEF ReceiveResync, Streams
  <2>2. QED
    BY <2>1 DEF Frames
<1>3. Becomes(q) /\ UNCHANGED daemon
  BY DEF ReceiveResync, Taken
<1> HIDE DEF c, f, t, o, q
<1>4. c \in Pages
  BY <1>1 DEF Inv
<1>5. OnlyStream(t, c) /\ t.str.epoch = c.str.epoch /\ t.str.reconnect = c.str.reconnect
  BY <1>1, <1>2, <1>4, TakenDoes
<1>6. Advances(daemon, c, t) /\ t \in Pages
  BY <1>1, <1>5, StreamStep DEF OnlyStream
<1>7. Inv(daemon, t)
  BY <1>1, <1>6, AdvancesInv
<1>8. Observed(o, t)
  BY <1>1, <1>2, <1>6, ObserveDoes
<1>9. Advances(daemon, t, o)
  <2>1. RowsStep(daemon, t, o)
    BY <1>7, <1>8, Quiet DEF Observed
  <2>2. QED
    BY <1>7, <1>8, <2>1 DEF Advances, Observed, Inv
<1>10. Inv(daemon, o)
  BY <1>7, <1>9, AdvancesInv
<1>11. Advances(daemon, o, q)
  BY <1>1, <1>2, <1>10, SnapshotStep
<1>12. Prepares(o, t)
  BY <1>8 DEF Observed, Prepares
<1>13. Prepares(t, c)
  BY <1>5, ReadsFewer DEF OnlyStream, Prepares
<1>14. Advances(daemon, c, q)
  BY <1>11, <1>12, <1>13, ThenAdvances
<1>15. QED
  BY <1>1, <1>3, <1>14, Arrives

\* ReceiveEvent keeps the invariant.
LEMMA ReceiveEventStep ==
    ASSUME Inv(daemon, Page), ReceiveEvent
    PROVE  Advances(daemon, Page, Page') /\ UNCHANGED daemon
<1> DEFINE c == Page
           n == stream.cursor + 1
           s == daemon.log[n].session
           t == [c EXCEPT !.str.cursor = n]
           str == [c.str EXCEPT !.cursor = n]
<1>1. c = Page /\ Inv(daemon, c)
  OBVIOUS
<1>2. n \in 1 .. Len(daemon.log) /\ n \in Heads
  <2>1. stream.cursor \in Heads /\ daemon \in Daemons
    BY SamePage DEF Streams
  <2>2. stream.cursor < Len(daemon.log)
    BY DEF ReceiveEvent, LogHead
  <2>3. Len(daemon.log) \in Nat /\ Len(daemon.log) <= MaxSequence
    BY <2>1 DEF Daemons
  <2>4. QED
    BY <2>1, <2>2, <2>3, StoreAssumption DEF Heads
<1>3. s \in Sessions
  <2> DEFINE Events == [session : Sessions, kind : {"turn", "deleted"}]
             log == daemon.log
  <2>1. log \in Seq(Events) /\ n \in 1 .. Len(log)
    BY <1>2, SamePage DEF Daemons
  <2> HIDE DEF Events, log, n
  <2>2. log[n] \in Events
    BY <2>1
  <2>3. QED
    BY <2>2 DEF Events, log
<1>4. /\ \/ daemon.log[n] = Turn(s) /\ Becomes(ApplyTurn(t, s, n))
         \/ Becomes(ApplyDeletion(t, s, n))
      /\ UNCHANGED daemon
  BY DEF ReceiveEvent
<1>5. c.st.epoch = daemon.epoch
  BY SamePage DEF ReceiveEvent, Inv, RowsInv
<1>6. t = [c EXCEPT !.str = str]
  OBVIOUS
<1> HIDE DEF c, n, s, t
<1>7. c \in Pages /\ c.str \in Streams
  BY <1>1, PageFields DEF Inv
<1>8. str \in Streams /\ str.epoch = c.str.epoch /\ str.reconnect = c.str.reconnect
  BY <1>2, <1>7 DEF Streams
<1> HIDE DEF str
<1>9. OnlyStream(t, c) /\ t.str = str
  BY <1>6, <1>7, <1>8, NewStream
<1>10. Inv(daemon, t)
  BY <1>1, <1>8, <1>9, StreamStep, AdvancesInv
<1>11. Prepares(t, c)
  BY <1>8, <1>9, ReadsFewer DEF OnlyStream, Prepares
<1>12. t.st.epoch = daemon.epoch
  BY <1>5, <1>9 DEF OnlyStream
<1>13. CASE daemon.log[n] = Turn(s) /\ Becomes(ApplyTurn(t, s, n))
  <2>1. Advances(daemon, t, ApplyTurn(t, s, n))
    BY <1>2, <1>3, <1>10, <1>12, <1>13, TurnStep
  <2>2. QED
    BY <1>1, <1>4, <1>11, <1>13, <2>1, ThenAdvances, Arrives
<1>14. CASE Becomes(ApplyDeletion(t, s, n))
  <2>1. Advances(daemon, t, ApplyDeletion(t, s, n))
    BY <1>2, <1>3, <1>10, DeletedEventStep
  <2>2. QED
    BY <1>1, <1>4, <1>11, <1>14, <2>1, ThenAdvances, Arrives
<1>15. QED
  BY <1>4, <1>13, <1>14

-----------------------------------------------------------------------------
(* Reading, evicting and deleting transcripts.                             *)

\* Asking for a hydrate is a step.
LEMMA HydrateStep ==
    ASSUME NEW d, NEW c, Inv(d, c), NEW s \in Sessions
    PROVE  Advances(d, c, Hydrate(c, s))
<1> DEFINE q == Hydrate(c, s)
<1>1. q = Hydrate(c, s) /\ c \in Pages /\ c.st \in Stores
  BY PageFields DEF Inv
<1> HIDE DEF q
<1>2. OnlyTranscripts(q, c) /\ (q = c \/ Refetched(q, c, s))
  BY <1>1, HydrateDoes
<1>3. ASSUME q = c PROVE Advances(d, c, q)
  BY <1>3, SameStep
<1>4. ASSUME Refetched(q, c, s) PROVE Advances(d, c, q)
  <2>0. q.st = Reloaded(c.st, s)
    BY <1>4 DEF Refetched
  <2>1. /\ q.st.epoch = c.st.epoch /\ q.st.tombstones = c.st.tombstones
        /\ q.st.rows = c.st.rows /\ q.st.cursor = c.st.cursor
    BY <1>1, <2>0, ReloadedFields DEF SameChrome
  <2>2. \A t \in Sessions : q.ft[t] = c.ft[t] \/ q.ft[t].kind # "detail"
    BY <1>4, Values DEF Refetched
  <2>3. QED
    BY <1>2, <2>1, <2>2, TranscriptQuiet
<1>5. Advances(d, c, q)
  BY <1>2, <1>3, <1>4
<1>6. QED
  BY <1>5 DEF q

Chosen(c, s) == [c EXCEPT !.st.selected = s, !.st.error = FALSE]

\* A selection changes no transcript.
LEMMA ChosenDoes ==
    ASSUME NEW c \in Pages, NEW s \in Sessions, NEW q, q = Chosen(c, s)
    PROVE  /\ OnlyTranscripts(q, c) /\ q.ft = c.ft
           /\ SameTranscripts(q.st, c.st)
<1> DEFINE st == [c.st EXCEPT !.selected = s, !.error = FALSE]
<1>1. st \in Stores /\ SameTranscripts(st, c.st)
  BY PageFields DEF Stores, SameTranscripts
<1>2. q = [c EXCEPT !.st = st]
  BY DEF Chosen, Pages
<1> HIDE DEF st
<1>3. OnlyTranscripts(q, c) /\ q.ft = c.ft /\ q.st = st
  BY <1>1, <1>2, NewStore
<1>4. QED
  BY <1>1, <1>3

\* Select keeps the invariant.
LEMMA SelectStep ==
    ASSUME Inv(daemon, Page), NEW s \in Sessions, Select(s)
    PROVE  Advances(daemon, Page, Page') /\ UNCHANGED daemon
<1> DEFINE p == Page
           c == Chosen(p, s)
<1>1. p = Page /\ Inv(daemon, p) /\ c = Chosen(p, s)
  OBVIOUS
<1>2. Becomes(c) \/ Becomes(Hydrate(c, s))
  BY DEF Select, Chosen
<1>3. UNCHANGED daemon
  BY DEF Select
<1> HIDE DEF p, c
<1>5. p \in Pages
  BY <1>1 DEF Inv
<1>6. /\ OnlyTranscripts(c, p) /\ c.ft = p.ft
      /\ c.st.epoch = p.st.epoch /\ c.st.tombstones = p.st.tombstones
      /\ c.st.rows = p.st.rows /\ c.st.cursor = p.st.cursor
  BY <1>1, <1>5, ChosenDoes DEF SameTranscripts
<1>8. Advances(daemon, p, c)
  BY <1>1, <1>6, TranscriptQuiet
<1>9. Inv(daemon, c)
  BY <1>1, <1>8, AdvancesInv
<1>10. Advances(daemon, p, Hydrate(c, s))
  <2> DEFINE q == Hydrate(c, s)
  <2>1. Advances(daemon, c, q)
    BY <1>9, HydrateStep
  <2>2. FewerReads(q, p)
    <3>1. FewerReads(c, p)
      BY <1>8 DEF Advances, RowsStep
    <3>2. QED
      BY <2>1, <3>1 DEF Advances, RowsStep, FewerReads
  <2>3. ASSUME NEW t \in Sessions PROVE RowStep(daemon, p, q, t)
    <3>1. RowStep(daemon, c, q, t)
      BY <2>1 DEF Advances, RowsStep
    <3>2. \A r \in Answered : IsRead(p, t, r) => IsRead(c, t, r)
      BY <1>6 DEF IsRead, OnlyTranscripts
    <3>3. ASSUME NEW e, NEW row, Sound(daemon, c, e, t, row)
          PROVE  Sound(daemon, p, e, t, row)
      BY <3>2, <3>3 DEF Sound
    <3>4. c.str = p.str
      BY <1>6 DEF OnlyTranscripts
    <3> HIDE DEF q
    <3>5. QED
      BY <1>6, <3>1, <3>3, <3>4 DEF RowStep
  <2> HIDE DEF q
  <2>4. Advances(daemon, p, q)
    BY <2>1, <2>2, <2>3 DEF Advances, RowsStep
  <2>5. QED
    BY <2>4 DEF q
<1>11. QED
  BY <1>1, <1>2, <1>3, <1>8, <1>10, Arrives

\* ensureHydrated keeps the invariant.
LEMMA EnsureHydratedStep ==
    ASSUME Inv(daemon, Page), NEW s \in Sessions, EnsureHydrated(s)
    PROVE  Advances(daemon, Page, Page') /\ UNCHANGED daemon
<1>1. Becomes(Hydrate(Page, s)) /\ UNCHANGED daemon
  BY DEF EnsureHydrated
<1>2. Advances(daemon, Page, Hydrate(Page, s))
  BY HydrateStep
<1>3. QED
  BY <1>1, <1>2, Arrives

\* The page with the answer to the hydrate of s.
Fetched(q, c, s, a) ==
    /\ OnlyTranscripts(q, c) /\ q.st = c.st
    /\ c.ft[s] = Asked /\ q.ft[s] = a
    /\ \A t \in Sessions \ {s} : q.ft[t] = c.ft[t]

\* A hydrate is answered by an outcome of the daemon, and nothing else changes.
LEMMA FetchAnsweredDoes ==
    ASSUME Inv(daemon, Page), NEW s \in Sessions, FetchAnswered(s)
    PROVE  /\ UNCHANGED daemon
           /\ \E a \in Outcomes(s) : \E q \in Pages :
                 Becomes(q) /\ Fetched(q, Page, s, a)
<1>1. PICK a \in Outcomes(s) : Becomes([Page EXCEPT !.ft[s] = a])
  BY DEF FetchAnswered
<1>2. a \in Answered
  BY SamePage, AnswerIs
<1> DEFINE p == Page
           ft == [p.ft EXCEPT ![s] = a]
           q == [p EXCEPT !.ft = ft]
<1>3. Becomes(q) /\ q = [p EXCEPT !.ft = ft] /\ p = Page /\ p.ft[s] = Asked
  BY <1>1 DEF Page, FetchAnswered
<1> HIDE DEF p, q
<1>4. p \in Pages
  BY <1>3 DEF Inv
<1>5. /\ ft \in [Sessions -> Answered] /\ ft[s] = a
      /\ \A t \in Sessions \ {s} : ft[t] = p.ft[t]
  BY <1>2, <1>4, PageFields
<1> HIDE DEF ft
<1>6. OnlyTranscripts(q, p) /\ q.ft = ft /\ q.st = p.st
  BY <1>3, <1>4, <1>5 DEF Pages, OnlyTranscripts
<1>7. q \in Pages /\ Fetched(q, p, s, a)
  BY <1>3, <1>5, <1>6 DEF Fetched, OnlyTranscripts
<1>8. UNCHANGED daemon
  BY DEF FetchAnswered
<1>9. QED
  BY <1>3, <1>7, <1>8

\* The answer to a hydrate keeps the invariant.
LEMMA FetchAnsweredStep ==
    ASSUME Inv(daemon, Page), NEW s \in Sessions, FetchAnswered(s)
    PROVE  Inv(daemon, Page') /\ UNCHANGED <<store, daemon>>
<1>1. PICK a \in Outcomes(s), q \in Pages : Becomes(q) /\ Fetched(q, Page, s, a)
  BY FetchAnsweredDoes
<1>2. Cover(q)
  <2>1. SameObligations(q, Page)
    BY <1>1 DEF Fetched, OnlyTranscripts, SameObligations, SameWork, SamePass
  <2>2. QED
    BY <1>1, <2>1, CoverKept DEF Inv
<1>3. /\ q.st = Page.st /\ q.str = Page.str /\ q.rec = Page.rec
      /\ \A t \in Sessions : q.ft[t] = Page.ft[t] \/ (t = s /\ q.ft[t] = a)
  BY <1>1 DEF Fetched, OnlyTranscripts
<1>4. Inv(daemon, Page') /\ UNCHANGED store
  BY <1>1, <1>2, <1>3, AnswerStep
<1>5. QED
  BY <1>4, FetchAnsweredDoes

\* A detail that is merged into the row it was read for.
LEMMA DetailRow ==
    ASSUME NEW d, NEW c, Inv(d, c), NEW s \in Sessions \ c.st.tombstones,
           NEW r \in Answered, IsRead(c, s, r), r.epoch = c.st.epoch, NEW q,
           q.st.epoch = c.st.epoch, q.st.rows[s] = Merge(r.row, c.st.rows[s])
    PROVE  RowStep(d, c, q, s)
<1>1. c.st.rows[s] \in Row
  BY PageFields DEF Inv, Stores
<1>2. ReadsInv(d, c, s) /\ Sound(d, c, r.epoch, s, c.st.rows[s])
  BY DEF Inv, RowsInv
<1>3. Sound(d, c, r.epoch, s, q.st.rows[s])
      /\ c.st.rows[s].seen \subseteq q.st.rows[s].seen
  BY <1>1, <1>2, MergeSound
<1>4. QED
  BY <1>3 DEF RowStep

Settled(st, s) == [st EXCEPT !.restoring = @ \ {s}]

\* A hydrate that is over is no longer restoring.
LEMMA SettledFields ==
    ASSUME NEW old \in Stores, NEW s \in Sessions, NEW st, st = Settled(old, s)
    PROVE  /\ st \in Stores /\ SameChrome(st, old)
           /\ st.rows = old.rows /\ st.cursor = old.cursor
           /\ st.hydrated = old.hydrated /\ st.tombstones = old.tombstones
           /\ st.restoring = old.restoring \ {s} /\ st.loadError = old.loadError
BY DEF Settled, Stores, SameChrome

\* The page when the read of s is over.
FetchOver(c, s) == [c EXCEPT !.ft[s] = Unasked, !.st.restoring = @ \ {s}]

\* A hydrate is over before it is committed.
LEMMA FetchOverDoes ==
    ASSUME NEW c \in Pages, NEW s \in Sessions, NEW q, q = FetchOver(c, s)
    PROVE  /\ OnlyTranscripts(q, c) /\ q.st = Settled(c.st, s)
           /\ q.ft[s] = Unasked
           /\ \A t \in Sessions \ {s} : q.ft[t] = c.ft[t]
<1> DEFINE ft == [c.ft EXCEPT ![s] = Unasked]
           st == Settled(c.st, s)
<1>1. /\ ft \in [Sessions -> Answered] /\ ft[s] = Unasked
      /\ \A t \in Sessions \ {s} : ft[t] = c.ft[t]
  BY Values, PageFields
<1>2. st \in Stores
  BY PageFields, SettledFields
<1>3. q = [c EXCEPT !.ft = ft, !.st = st]
  <2> DEFINE b == [c EXCEPT !.ft = ft]
  <2>1. q = [b EXCEPT !.st = [b.st EXCEPT !.restoring = @ \ {s}]]
    BY DEF FetchOver
  <2> HIDE DEF ft
  <2>2. b.st = c.st
    BY DEF Pages
  <2>3. q = [b EXCEPT !.st = st]
    BY <2>1, <2>2 DEF Settled
  <2>4. QED
    BY <2>3
<1> HIDE DEF ft, st
<1>4. q \in Pages /\ q.rec = c.rec /\ q.str = c.str /\ q.ls = c.ls /\ q.lo = c.lo
      /\ q.st = st /\ q.ft = ft
  BY <1>1, <1>2, <1>3 DEF Pages
<1>5. QED
  BY <1>1, <1>4 DEF OnlyTranscripts, st

FetchFailed(c, s) == [c EXCEPT !.st.loadError = @ \cup {s}]

\* A hydrate that failed leaves an error.
LEMMA FetchFailedDoes ==
    ASSUME NEW c \in Pages, NEW s \in Sessions, NEW q, q = FetchFailed(c, s)
    PROVE  /\ OnlyTranscripts(q, c) /\ q.ft = c.ft
           /\ SameChrome(q.st, c.st)
           /\ q.st.rows = c.st.rows /\ q.st.cursor = c.st.cursor
           /\ q.st.hydrated = c.st.hydrated /\ q.st.tombstones = c.st.tombstones
           /\ q.st.restoring = c.st.restoring
           /\ q.st.loadError = c.st.loadError \cup {s}
<1> DEFINE st == [c.st EXCEPT !.loadError = @ \cup {s}]
<1>1. /\ st \in Stores /\ SameChrome(st, c.st)
      /\ st.rows = c.st.rows /\ st.cursor = c.st.cursor
      /\ st.hydrated = c.st.hydrated /\ st.tombstones = c.st.tombstones
      /\ st.restoring = c.st.restoring /\ st.loadError = c.st.loadError \cup {s}
  BY PageFields DEF Stores, SameChrome
<1>2. q = [c EXCEPT !.st = st]
  BY DEF FetchFailed
<1> HIDE DEF st
<1>3. OnlyTranscripts(q, c) /\ q.ft = c.ft /\ q.st = st
  BY <1>1, <1>2, NewStore
<1>4. QED
  BY <1>1, <1>3

Reported(c, s) ==
    [c EXCEPT !.st = [c.st EXCEPT !.connection = "error", !.error = TRUE],
              !.lo.reported = @ \cup {s}]

\* A failure that is the page's leaves no error of the session, and is recorded.
ReportedOnly(q, c, s) ==
    /\ q \in Pages /\ q.rec = c.rec /\ q.str = c.str /\ q.ls = c.ls /\ q.ft = c.ft
    /\ SameTranscripts(q.st, c.st)
    /\ q.lo.overtaken = c.lo.overtaken /\ q.lo.jumped = c.lo.jumped
    /\ q.lo.unsignalled = c.lo.unsignalled /\ q.lo.crossed = c.lo.crossed
    /\ q.lo.evicted = c.lo.evicted /\ q.lo.reported = c.lo.reported \cup {s}

LEMMA ReportedDoes ==
    ASSUME NEW c \in Pages, NEW s \in Sessions, NEW q, q = Reported(c, s)
    PROVE  ReportedOnly(q, c, s)
<1> DEFINE st == [c.st EXCEPT !.connection = "error", !.error = TRUE]
           lo == [c.lo EXCEPT !.reported = @ \cup {s}]
<1>1. st \in Stores /\ SameTranscripts(st, c.st)
  BY PageFields DEF Stores, SameTranscripts
<1>2. /\ lo \in Loss /\ lo.overtaken = c.lo.overtaken /\ lo.jumped = c.lo.jumped
      /\ lo.unsignalled = c.lo.unsignalled /\ lo.crossed = c.lo.crossed
      /\ lo.evicted = c.lo.evicted /\ lo.reported = c.lo.reported \cup {s}
  BY PageFields DEF Loss
<1>3. q = [c EXCEPT !.st = st, !.lo = lo]
  BY DEF Reported, Pages
<1> HIDE DEF st, lo
<1>4. /\ q \in Pages /\ q.st = st /\ q.lo = lo /\ q.rec = c.rec /\ q.str = c.str
      /\ q.ft = c.ft /\ q.ls = c.ls
  BY <1>1, <1>2, <1>3 DEF Pages
<1> QED BY <1>1, <1>2, <1>4 DEF ReportedOnly

\* FetchSettles keeps the invariant.
LEMMA FetchSettlesStep ==
    ASSUME Inv(daemon, Page), NEW s \in Sessions, FetchSettles(s)
    PROVE  Advances(daemon, Page, Page') /\ UNCHANGED daemon
<1> DEFINE p == Page
           c == FetchOver(p, s)
           r == p.ft[s]
           failed == FetchFailed(c, s)
           reported == Reported(c, s)
<1>1. p = Page /\ Inv(daemon, p) /\ c = FetchOver(p, s) /\ r = p.ft[s]
      /\ failed = FetchFailed(c, s) /\ reported = Reported(c, s)
  OBVIOUS
<1>2. \/ Becomes(c)
      \/ /\ r.kind = "detail" /\ r.epoch = p.st.epoch
         /\ Becomes(CommitDetail(c, s, r.row))
      \/ Becomes(CommitDeletion(c, s))
      \/ Becomes(failed)
      \/ Becomes(reported)
  BY SamePage DEF FetchSettles, FetchFails, FetchOver, FetchFailed, Reported
<1>3. UNCHANGED daemon
  BY DEF FetchSettles
<1> HIDE DEF p, c, r, failed, reported
<1>4. p \in Pages /\ r \in Answered
  BY <1>1, PageFields DEF Inv
<1>5. /\ OnlyTranscripts(c, p) /\ c.st = Settled(p.st, s) /\ c.ft[s] = Unasked
      /\ \A t \in Sessions \ {s} : c.ft[t] = p.ft[t]
  BY <1>1, <1>4, FetchOverDoes
<1>6. /\ c.st \in Stores /\ c.st.epoch = p.st.epoch
      /\ c.st.rows = p.st.rows /\ c.st.cursor = p.st.cursor
      /\ c.st.tombstones = p.st.tombstones
  BY <1>4, <1>5, PageFields, SettledFields DEF SameChrome
<1>7. \A t \in Sessions : c.ft[t] = p.ft[t] \/ c.ft[t].kind # "detail"
  BY <1>5, Values
<1>8. Advances(daemon, p, c)
  BY <1>1, <1>5, <1>6, <1>7, TranscriptQuiet
<1>9. c \in Pages
  BY <1>8 DEF Advances
<1>10. ASSUME r.kind = "detail", r.epoch = p.st.epoch
       PROVE  Advances(daemon, p, CommitDetail(c, s, r.row))
  <2> DEFINE q == CommitDetail(c, s, r.row)
  <2>1. CASE s \in c.st.tombstones
    BY <1>8, <2>1 DEF CommitDetail
  <2>2. CASE s \notin c.st.tombstones
    <3> DEFINE merged == Merge(r.row, c.st.rows[s])
    <3>1. q = CommitDetail(c, s, r.row) /\ r.row \in Row
          /\ merged = Merge(r.row, c.st.rows[s])
      BY <1>4 DEF Answered, Reads
    <3> HIDE DEF q, merged
    <3>2. /\ OnlyTranscripts(q, c) /\ q.ft = c.ft /\ merged \in Row
          /\ q.st = WithDetail(c.st, s, merged)
      BY <1>9, <2>2, <3>1, DetailDoes
    <3>3. /\ SameChrome(q.st, c.st) /\ q.st.tombstones = c.st.tombstones
          /\ q.st.rows[s] = merged /\ q.st.cursor[s] = merged.last
          /\ \A t \in Sessions \ {s} : q.st.rows[t] = c.st.rows[t]
          /\ \A t \in Sessions \ {s} : q.st.cursor[t] = c.st.cursor[t]
      BY <1>6, <3>2, WithDetailFields
    <3>4. IsRead(p, s, r) /\ s \in Sessions \ p.st.tombstones
      BY <1>1, <1>6, <1>10, <2>2 DEF IsRead
    <3>5. RowStep(daemon, p, q, s)
      BY <1>1, <1>4, <1>6, <1>10, <3>1, <3>3, <3>4, DetailRow DEF SameChrome
    <3>6. OnlyTranscripts(q, p)
      BY <1>5, <3>2 DEF OnlyTranscripts
    <3>7. q.st.rows[s].last <= q.st.cursor[s]
      BY <3>2, <3>3, StoreAssumption DEF Row
    <3>8. Advances(daemon, p, q)
      BY <1>1, <1>6, <1>7, <3>2, <3>3, <3>5, <3>6, <3>7, TranscriptStep DEF SameChrome
    <3>9. QED
      BY <3>8 DEF q
  <2>3. QED
    BY <2>1, <2>2
<1>11. Advances(daemon, p, CommitDeletion(c, s))
  <2> DEFINE q == CommitDeletion(c, s)
  <2>1. OnlyTranscripts(q, c) /\ q.ft = c.ft /\ q.st = Buried(c.st, s)
    <3>1. q = CommitDeletion(c, s)
      OBVIOUS
    <3> HIDE DEF q
    <3>2. QED
      BY <1>9, <3>1, DeletionDoes
  <2> HIDE DEF q
  <2>2. /\ q.st.epoch = c.st.epoch /\ q.st.tombstones = c.st.tombstones \cup {s}
        /\ q.st.cursor = c.st.cursor /\ q.st.rows[s] = NoRow
        /\ \A t \in Sessions \ {s} : q.st.rows[t] = c.st.rows[t]
    BY <1>6, <2>1, BuriedFields DEF SameChrome
  <2>3. q.st.rows[s].last <= q.st.cursor[s]
    BY <1>6, <2>2, Values, StoreAssumption DEF Stores, Cursors
  <2>4. RowStep(daemon, p, q, s)
    BY <2>2 DEF RowStep
  <2>5. OnlyTranscripts(q, p)
    BY <1>5, <2>1 DEF OnlyTranscripts
  <2>6. Advances(daemon, p, q)
    BY <1>1, <1>6, <1>7, <2>1, <2>2, <2>3, <2>4, <2>5, TranscriptStep
  <2>7. QED
    BY <2>6 DEF q
<1>12. Advances(daemon, p, failed)
  <2>1. /\ OnlyTranscripts(failed, c) /\ failed.ft = c.ft
        /\ failed.st.epoch = c.st.epoch /\ failed.st.tombstones = c.st.tombstones
        /\ failed.st.rows = c.st.rows /\ failed.st.cursor = c.st.cursor
    BY <1>1, <1>9, FetchFailedDoes DEF SameChrome
  <2>2. OnlyTranscripts(failed, p)
    BY <1>5, <2>1 DEF OnlyTranscripts
  <2>3. QED
    BY <1>1, <1>6, <1>7, <2>1, <2>2, TranscriptQuiet
<1>13. Advances(daemon, p, reported)
  <2>1. ReportedOnly(reported, c, s)
    BY <1>1, <1>9, ReportedDoes
  <2>2. reported \in Pages /\ p \in Pages
    BY <1>4, <2>1 DEF ReportedOnly
  <2>3. SameObligations(reported, p)
    BY <1>1, <1>5, <1>6, <2>1
    DEF SameObligations, SameWork, SamePass, ReportedOnly, SameTranscripts, OnlyTranscripts
  <2>4. Cover(reported)
    BY <1>1, <2>2, <2>3, CoverKept DEF Inv
  <2>5. FewerReads(reported, p)
    BY <1>5, <1>7, <2>1, ReadsFewer DEF ReportedOnly, OnlyTranscripts
  <2>6. RowsStep(daemon, p, reported)
    BY <1>1, <1>5, <1>6, <2>1, <2>5, Quiet
    DEF ReportedOnly, OnlyTranscripts, SameTranscripts
  <2> QED BY <2>2, <2>4, <2>6 DEF Advances
<1>14. QED
  BY <1>1, <1>2, <1>3, <1>8, <1>10, <1>11, <1>12, <1>13, Arrives

\* The page without the row of s: its cursor stays, and so do the reads of it.
WithoutRow(q, p, s) ==
    /\ q \in Pages /\ q.rec = p.rec /\ q.str = p.str /\ q.ft = p.ft /\ q.ls = p.ls
    /\ q.st.epoch = p.st.epoch /\ q.st.cursor = p.st.cursor
    /\ q.st.hydrated = p.st.hydrated /\ q.st.tombstones = p.st.tombstones
    /\ q.st.restoring = p.st.restoring /\ q.st.loadError = p.st.loadError
    /\ p.st.rows[s] # NoRow /\ q.st.rows[s] = NoRow
    /\ \A t \in Sessions \ {s} : q.st.rows[t] = p.st.rows[t]
    /\ q.lo.overtaken = p.lo.overtaken /\ q.lo.jumped = p.lo.jumped
    /\ q.lo.unsignalled = p.lo.unsignalled /\ q.lo.crossed = p.lo.crossed
    /\ p.lo.evicted \subseteq q.lo.evicted /\ q.lo.reported = p.lo.reported
    /\ \A r \in {p.ft[s], p.rec.reply[s]} :
          r.kind = "detail" =>
             p.st.rows[s].seen \subseteq r.row.seen \/ s \in q.lo.evicted

LEMMA EvictDoes ==
    ASSUME Inv(daemon, Page), NEW s \in Sessions, Evict(s)
    PROVE  /\ UNCHANGED daemon
           /\ \E q \in Pages : Becomes(q) /\ WithoutRow(q, Page, s)
<1> DEFINE p == Page
           evicted == IF \E r \in {fetch[s], recovery.reply[s]} :
                            /\ r.kind = "detail"
                            /\ ~store.rows[s].seen \subseteq r.row.seen
                      THEN p.lo.evicted \cup {s} ELSE p.lo.evicted
           rows == [p.st.rows EXCEPT ![s] = NoRow]
           st == [p.st EXCEPT !.rows = rows]
           lo == [p.lo EXCEPT !.evicted = evicted]
           q == [p EXCEPT !.st = st, !.lo = lo]
<1>1. p = Page /\ Inv(daemon, p) /\ p.st.rows[s] # NoRow
      /\ p.st = store /\ p.ft = fetch /\ p.rec = recovery
  BY SamePage DEF Evict
<1>2. Becomes(q) /\ UNCHANGED daemon
  BY DEF Evict, Page
<1> HIDE DEF p
<1>3. p \in Pages /\ p.st \in Stores /\ p.lo \in Loss
  BY <1>1, PageFields DEF Inv
<1>4. /\ evicted \in SUBSET Sessions /\ p.lo.evicted \subseteq evicted
      /\ \A r \in {p.ft[s], p.rec.reply[s]} :
            r.kind = "detail" =>
               p.st.rows[s].seen \subseteq r.row.seen \/ s \in evicted
  BY <1>1, <1>3 DEF Loss
<1> HIDE DEF evicted
<1>5. /\ lo \in Loss /\ lo.overtaken = p.lo.overtaken /\ lo.jumped = p.lo.jumped
      /\ lo.unsignalled = p.lo.unsignalled /\ lo.crossed = p.lo.crossed
      /\ lo.evicted = evicted /\ lo.reported = p.lo.reported
  BY <1>3, <1>4 DEF Loss
<1>6. /\ rows \in [Sessions -> Row] /\ rows[s] = NoRow
      /\ \A t \in Sessions \ {s} : rows[t] = p.st.rows[t]
  BY <1>3, Values DEF Stores
<1> HIDE DEF rows, lo
<1>7. /\ st \in Stores /\ st.epoch = p.st.epoch /\ st.rows = rows
      /\ st.cursor = p.st.cursor /\ st.tombstones = p.st.tombstones
      /\ st.hydrated = p.st.hydrated /\ st.restoring = p.st.restoring
      /\ st.loadError = p.st.loadError
  BY <1>3, <1>6 DEF Stores
<1> HIDE DEF st
<1>8. /\ q \in Pages /\ q.st = st /\ q.lo = lo /\ q.rec = p.rec /\ q.str = p.str
      /\ q.ft = p.ft /\ q.ls = p.ls
  BY <1>3, <1>5, <1>7 DEF Pages
<1> HIDE DEF q
<1>9. WithoutRow(q, p, s)
  BY <1>1, <1>4, <1>5, <1>6, <1>7, <1>8 DEF WithoutRow
<1>10. QED
  BY <1>1, <1>2, <1>8, <1>9

\* Evict keeps the invariant.
LEMMA EvictStep ==
    ASSUME Inv(daemon, Page), NEW s \in Sessions, Evict(s)
    PROVE  Advances(daemon, Page, Page') /\ UNCHANGED daemon
<1>1. PICK q \in Pages : Becomes(q) /\ WithoutRow(q, Page, s)
  BY EvictDoes
<1> DEFINE p == Page
<1>2. p = Page /\ Inv(daemon, p) /\ p.st \in Stores /\ WithoutRow(q, p, s)
  BY <1>1, SamePage
<1> HIDE DEF p
<1>3. Cover(q)
  <2>1. SameObligations(q, p)
    BY <1>2 DEF WithoutRow, SameObligations, SameWork, SamePass
  <2>2. QED
    BY <1>2, <2>1, CoverKept DEF Inv
<1>4. RowsStep(daemon, p, q)
  <2>1. FewerReads(q, p)
    BY <1>2, ReadsFewer DEF WithoutRow
  <2>2. RowStep(daemon, p, q, s)
    BY <1>2 DEF RowStep, WithoutRow
  <2>3. q.st.rows[s].last <= q.st.cursor[s]
    BY <1>2, Values, StoreAssumption DEF Stores, Cursors, WithoutRow
  <2>4. QED
    BY <1>2, <2>1, <2>2, <2>3, OneRow DEF WithoutRow
<1>5. Advances(daemon, p, q)
  BY <1>3, <1>4 DEF Advances
<1>6. QED
  BY <1>1, <1>2, <1>5, Arrives, EvictDoes

\* Remove keeps the invariant.
LEMMA RemoveStep ==
    ASSUME Inv(daemon, Page), NEW s \in Sessions, Remove(s)
    PROVE  Advances(daemon, Page, Page') /\ UNCHANGED daemon
<1>1. Becomes(CommitDeletion(Page, s)) /\ UNCHANGED daemon
  BY DEF Remove
<1>2. Advances(daemon, Page, CommitDeletion(Page, s))
  BY DeletionStep
<1>3. QED
  BY <1>1, <1>2, Arrives

-----------------------------------------------------------------------------
(* The end of the store's own reconnect.                                   *)

Dropped(c) == [c EXCEPT !.str.reconnect = NoReconnect]

\* A reconnect is over before it resumes.
LEMMA DroppedDoes ==
    ASSUME NEW c \in Pages, NEW q, q = Dropped(c)
    PROVE  OnlyStream(q, c) /\ q.str.epoch = c.str.epoch
           /\ q.str.reconnect = NoReconnect /\ q.str.cursor = c.str.cursor
           /\ q.str.frame = c.str.frame /\ (c.str.up => q.str.up)
<1> DEFINE str == [c.str EXCEPT !.reconnect = NoReconnect]
<1>1. str \in Streams /\ str.epoch = c.str.epoch /\ str.reconnect = NoReconnect
      /\ str.cursor = c.str.cursor /\ str.frame = c.str.frame
      /\ (c.str.up => str.up)
  BY PageFields, Values DEF Streams
<1>2. q = [c EXCEPT !.str = str]
  BY DEF Dropped
<1> HIDE DEF str
<1>3. OnlyStream(q, c) /\ q.str = str
  BY <1>1, <1>2, NewStream
<1>4. QED
  BY <1>1, <1>3

Broken(c) == [c EXCEPT !.st.connection = "error", !.st.error = TRUE]

\* A reconnect that fails changes no transcript.
LEMMA BrokenDoes ==
    ASSUME NEW c \in Pages, NEW q, q = Broken(c)
    PROVE  /\ OnlyTranscripts(q, c) /\ q.ft = c.ft
           /\ SameTranscripts(q.st, c.st)
<1> DEFINE st == [c.st EXCEPT !.connection = "error", !.error = TRUE]
<1>1. st \in Stores /\ SameTranscripts(st, c.st)
  BY PageFields DEF Stores, SameTranscripts
<1>2. q = [c EXCEPT !.st = st]
  BY DEF Broken, Pages
<1> HIDE DEF st
<1>3. OnlyTranscripts(q, c) /\ q.ft = c.ft /\ q.st = st
  BY <1>1, <1>2, NewStore
<1>4. QED
  BY <1>1, <1>3

ResumedStore(st, s) ==
    [st EXCEPT !.hydrated = @ \cup {s}, !.connection = "ready", !.error = FALSE]

\* A reconnect that resumes counts its session as hydrated.
LEMMA ResumedStoreFields ==
    ASSUME NEW old \in Stores, NEW s \in Sessions, NEW st, st = ResumedStore(old, s)
    PROVE  /\ st \in Stores /\ st.epoch = old.epoch
           /\ st.rows = old.rows /\ st.cursor = old.cursor
           /\ st.hydrated = old.hydrated \cup {s} /\ st.tombstones = old.tombstones
           /\ st.restoring = old.restoring /\ st.loadError = old.loadError
BY DEF ResumedStore, Stores

ResumedStream(e, cursor) ==
    [kind |-> "reconnect", up |-> FALSE, epoch |-> e, cursor |-> cursor,
     frame |-> NoFrame, resyncObserved |-> FALSE, reconnect |-> NoReconnect]

\* The stream it makes is a stream.
LEMMA ResumedStreamTyped ==
    ASSUME NEW e \in Epochs, NEW cursor \in Heads, NEW str, str = ResumedStream(e, cursor)
    PROVE  /\ str \in Streams /\ str.epoch = e /\ str.reconnect = NoReconnect
           /\ str.cursor = cursor /\ str.frame = NoFrame
BY Values DEF ResumedStream, Streams

\* The page that resumes with a detail r of session s, from cursor on.
Resumes(c, s, r, cursor, jumped) ==
    [SetRow(c, s, Merge(r.row, c.st.rows[s])) EXCEPT
        !.st = ResumedStore(SetRow(c, s, Merge(r.row, c.st.rows[s])).st, s),
        !.str = ResumedStream(r.epoch, cursor),
        !.lo.jumped = @ \cup jumped]

ResumedAs(q, c, s, r) ==
    /\ q \in Pages /\ q.rec = c.rec /\ q.ls = c.ls /\ q.ft = c.ft
    /\ q.lo.overtaken = c.lo.overtaken
    /\ q.str.epoch = r.epoch /\ q.str.reconnect = NoReconnect
    /\ q.st.epoch = c.st.epoch /\ q.st.tombstones = c.st.tombstones
    /\ Merge(r.row, c.st.rows[s]) \in Row
    /\ q.st.rows[s] = Merge(r.row, c.st.rows[s])
    /\ q.st.cursor[s] = Merge(r.row, c.st.rows[s]).last
    /\ \A t \in Sessions \ {s} : q.st.rows[t] = c.st.rows[t]
    /\ \A t \in Sessions \ {s} : q.st.cursor[t] = c.st.cursor[t]

\* What it makes of the stream, of what was lost and of what is being read.
ResumedFrom(q, c, s, cursor, jumped) ==
    /\ q.str.cursor = cursor /\ q.str.frame = NoFrame
    /\ q.st.hydrated = c.st.hydrated \cup {s}
    /\ q.st.restoring = c.st.restoring /\ q.st.loadError = c.st.loadError
    /\ q.lo.jumped = c.lo.jumped \cup jumped
    /\ q.lo.unsignalled = c.lo.unsignalled /\ q.lo.crossed = c.lo.crossed
    /\ q.lo.evicted = c.lo.evicted /\ q.lo.reported = c.lo.reported

\* A reconnect that resumes merges the row it read.
LEMMA ResumesDoes ==
    ASSUME NEW c \in Pages, NEW s \in Sessions, NEW r \in Answered, r.epoch \in Epochs,
           NEW cursor \in Heads, NEW jumped \in SUBSET Sequences,
           NEW q, q = Resumes(c, s, r, cursor, jumped)
    PROVE  ResumedAs(q, c, s, r) /\ ResumedFrom(q, c, s, cursor, jumped)
<1> DEFINE merged == Merge(r.row, c.st.rows[s])
           b == SetRow(c, s, merged)
           st == ResumedStore(b.st, s)
           str == ResumedStream(r.epoch, cursor)
           all == c.lo.jumped \cup jumped
           lo == [c.lo EXCEPT !.jumped = all]
<1>1. merged \in Row
  BY PageFields, MergeTyped DEF Stores, Answered, Reads
<1>2. b = SetRow(c, s, merged) /\ merged = Merge(r.row, c.st.rows[s])
      /\ st = ResumedStore(b.st, s) /\ str = ResumedStream(r.epoch, cursor)
  OBVIOUS
<1>3. q = [b EXCEPT !.st = st, !.str = str,
                    !.lo.jumped = @ \cup jumped]
  BY DEF Resumes
<1> HIDE DEF merged, b
<1>4. OnlyTranscripts(b, c) /\ b.ft = c.ft /\ b.st = WithRow(c.st, s, merged)
  BY <1>1, <1>2, SetRowDoes
<1>5. /\ b.st \in Stores /\ SameChrome(b.st, c.st)
      /\ b.st.tombstones = c.st.tombstones /\ b.st.hydrated = c.st.hydrated
      /\ b.st.restoring = c.st.restoring /\ b.st.loadError = c.st.loadError
      /\ b.st.rows[s] = merged /\ b.st.cursor[s] = merged.last
      /\ \A t \in Sessions \ {s} : b.st.rows[t] = c.st.rows[t]
      /\ \A t \in Sessions \ {s} : b.st.cursor[t] = c.st.cursor[t]
  BY <1>1, <1>4, PageFields, WithRowFields
<1>6. /\ st \in Stores /\ st.epoch = b.st.epoch /\ st.tombstones = b.st.tombstones
      /\ st.rows = b.st.rows /\ st.cursor = b.st.cursor
      /\ st.hydrated = b.st.hydrated \cup {s}
      /\ st.restoring = b.st.restoring /\ st.loadError = b.st.loadError
  BY <1>2, <1>5, ResumedStoreFields
<1>7. str \in Streams /\ str.epoch = r.epoch /\ str.reconnect = NoReconnect
      /\ str.cursor = cursor /\ str.frame = NoFrame
  BY <1>2, ResumedStreamTyped
<1>8. all \in SUBSET Sequences /\ all = c.lo.jumped \cup jumped
  BY PageFields DEF Loss
<1>9. q = [b EXCEPT !.st = st, !.str = str, !.lo = lo]
  <2> DEFINE p == [b EXCEPT !.st = st, !.str = str]
  <2> HIDE DEF st, str
  <2>1. q = [p EXCEPT !.lo.jumped = @ \cup jumped]
    BY <1>3
  <2>2. p.lo = c.lo
    BY <1>4 DEF OnlyTranscripts, Pages
  <2>3. q = [p EXCEPT !.lo = [p.lo EXCEPT !.jumped = @ \cup jumped]]
    BY <2>1
  <2> HIDE DEF p
  <2>4. q = [p EXCEPT !.lo = lo]
    BY <2>2, <2>3
  <2>5. QED
    BY <2>4 DEF p
<1> HIDE DEF all, st, str
<1>10. /\ lo \in Loss /\ lo.overtaken = c.lo.overtaken /\ lo.jumped = all
       /\ lo.unsignalled = c.lo.unsignalled /\ lo.crossed = c.lo.crossed
       /\ lo.evicted = c.lo.evicted /\ lo.reported = c.lo.reported
  BY <1>8, PageFields DEF Loss
<1> HIDE DEF lo
<1>11. /\ q \in Pages /\ q.rec = b.rec /\ q.ls = b.ls /\ q.ft = b.ft
       /\ q.st = st /\ q.str = str /\ q.lo = lo
  <2>1. b \in Pages
    BY <1>4 DEF OnlyTranscripts
  <2>2. QED
    BY <1>6, <1>7, <1>9, <1>10, <2>1 DEF Pages
<1>12. QED
  <2>1. /\ q \in Pages /\ q.rec = c.rec /\ q.ls = c.ls /\ q.ft = c.ft
        /\ q.lo.overtaken = c.lo.overtaken
    BY <1>4, <1>10, <1>11 DEF OnlyTranscripts
  <2>2. q.str.epoch = r.epoch /\ q.str.reconnect = NoReconnect
    BY <1>7, <1>11
  <2>3. /\ q.st.epoch = c.st.epoch /\ q.st.tombstones = c.st.tombstones
        /\ q.st.rows[s] = merged /\ q.st.cursor[s] = merged.last
        /\ \A t \in Sessions \ {s} : q.st.rows[t] = c.st.rows[t]
        /\ \A t \in Sessions \ {s} : q.st.cursor[t] = c.st.cursor[t]
    BY <1>5, <1>6, <1>11 DEF SameChrome
  <2>4. ResumedFrom(q, c, s, cursor, jumped)
    BY <1>5, <1>6, <1>7, <1>8, <1>10, <1>11 DEF ResumedFrom
  <2>5. QED
    BY <1>1, <1>2, <2>1, <2>2, <2>3, <2>4 DEF ResumedAs

\* The three ways a reconnect ends.
LEMMA ReconnectSettlesIs ==
    ASSUME ReconnectSettles, NEW done, done = Dropped(Page),
           NEW r, r = stream.reconnect,
           NEW c, c = ApplyEpochChange(done, r.reply.epoch)
    PROVE  /\ UNCHANGED daemon
           /\ \/ Becomes(done)
              \/ Becomes(Broken(done))
              \/ /\ r.reply.kind = "detail" /\ ~r.superseded
                 /\ Becomes(Resumes(c, r.session, r.reply, ResumeCursor(r), Jumped(r)))
BY DEF ReconnectSettles, Dropped, Broken, Resumes, ResumedStore, ResumedStream

\* A detail that a reconnect resumes with, and where it resumes from.
LEMMA ResumeTyped ==
    ASSUME Inv(daemon, Page), NEW r, r = stream.reconnect, r.reply.kind = "detail"
    PROVE  /\ r \in Reconnects /\ r.active
           /\ r.session \in Sessions /\ r.reply.epoch \in Epochs
           /\ r.reply \in Answered /\ r.reply.row \in Row /\ r.reply.row.last >= 0
           /\ ResumeCursor(r) \in Heads /\ Jumped(r) \in SUBSET Sequences
<1> DEFINE a == r.reply
           cursor == ResumeCursor(r)
           jumped == Jumped(r)
           end == IF r.cursor >= 0 THEN r.cursor ELSE a.row.last
<1>1. r \in Reconnects /\ stream.cursor \in Heads
  BY SamePage DEF Streams
<1>2. a \in Answered /\ r.cursor \in Cursors
  BY <1>1 DEF Reconnects
<1>3. a.epoch \in Epochs /\ a.row \in Row /\ a.row.last >= 0 /\ a.row.last \in Cursors
  <2>1. a.kind = "detail"
    OBVIOUS
  <2> HIDE DEF a
  <2>2. QED
    BY <1>2, <2>1 DEF Answered, Reads, Row, Cursors
<1>4. a # Unasked
  BY Values
<1>5. r.active /\ r.session \in Sessions
  BY <1>1, <1>4 DEF Reconnects
<1>6. end \in Heads
  <2> HIDE DEF a
  <2>1. QED
    BY <1>2, <1>3 DEF Cursors, Heads
<1>7. cursor \in {r.cursor, a.row.last} /\ cursor >= 0
  <2>1. cursor = IF store.epoch = a.epoch /\ r.cursor >= 0 THEN r.cursor ELSE a.row.last
    BY DEF ResumeCursor
  <2> HIDE DEF a, cursor
  <2>2. QED
    BY <1>3, <2>1
<1>8. cursor \in Heads
  <2> HIDE DEF a, cursor
  <2>1. QED
    BY <1>2, <1>3, <1>7 DEF Cursors, Heads
<1>9. jumped \in SUBSET Sequences
  <2>1. jumped \in {(stream.cursor + 1) .. end, {}}
    BY DEF Jumped
  <2> HIDE DEF jumped, end
  <2>2. (stream.cursor + 1) .. end \subseteq Sequences
    BY <1>1, <1>6, StoreAssumption DEF Heads, Sequences
  <2>3. QED
    BY <2>1, <2>2
<1>10. QED
  BY <1>1, <1>2, <1>3, <1>5, <1>8, <1>9

\* ReconnectSettles keeps the invariant.
LEMMA ReconnectSettlesStep ==
    ASSUME Inv(daemon, Page), ReconnectSettles
    PROVE  Advances(daemon, Page, Page') /\ UNCHANGED daemon
<1> DEFINE p == Page
           done == Dropped(p)
           r == stream.reconnect
           a == r.reply
           s == r.session
           c == ApplyEpochChange(done, a.epoch)
           cursor == ResumeCursor(r)
           jumped == Jumped(r)
           q == Resumes(c, s, a, cursor, jumped)
<1>1. /\ p = Page /\ done = Dropped(p) /\ c = ApplyEpochChange(done, a.epoch)
      /\ q = Resumes(c, s, a, cursor, jumped) /\ Inv(daemon, p)
      /\ p.str.reconnect.session = s /\ p.str.reconnect.reply = a
  BY DEF Page
<1>2. /\ UNCHANGED daemon
      /\ \/ Becomes(done)
         \/ Becomes(Broken(done))
         \/ a.kind = "detail" /\ Becomes(q)
  <2>1. done = Dropped(Page) /\ r = stream.reconnect
        /\ c = ApplyEpochChange(done, r.reply.epoch)
    OBVIOUS
  <2> HIDE DEF done, r, c
  <2>2. QED
    BY <2>1, ReconnectSettlesIs DEF q, a, s, cursor, jumped
<1>3. /\ r \in Reconnects /\ a \in Answered /\ r.cursor \in Cursors
      /\ stream.cursor \in Heads
  <2>1. r \in Reconnects /\ stream.cursor \in Heads
    BY SamePage DEF Streams
  <2> HIDE DEF r
  <2>2. QED
    BY <2>1 DEF Reconnects, a
<1>4. a.kind = "detail" => /\ s \in Sessions /\ a.epoch \in Epochs /\ a.row \in Row
                           /\ cursor \in Heads /\ jumped \in SUBSET Sequences
  <2>1. r = stream.reconnect
    OBVIOUS
  <2> HIDE DEF r
  <2>2. QED
    BY <2>1, ResumeTyped DEF a, s, cursor, jumped
<1> HIDE DEF p, done, r, a, s, c, cursor, jumped, q
<1>5. p \in Pages
  BY <1>1 DEF Inv
<1>6. OnlyStream(done, p) /\ done.str.epoch = p.str.epoch
      /\ done.str.reconnect = NoReconnect
  BY <1>1, <1>5, DroppedDoes
<1>7. NoReconnect.reply.kind # "detail"
  BY Values DEF NoReconnect
<1>8. Advances(daemon, p, done)
  BY <1>1, <1>6, <1>7, StreamStep
<1>9. done \in Pages /\ Cover(done)
  BY <1>8 DEF Advances
<1>10. Advances(daemon, p, Broken(done))
  <2> DEFINE b == Broken(done)
  <2>1. /\ OnlyTranscripts(b, done) /\ b.ft = done.ft
        /\ b.st.epoch = done.st.epoch /\ b.st.tombstones = done.st.tombstones
        /\ b.st.rows = done.st.rows /\ b.st.cursor = done.st.cursor
    <3>1. b = Broken(done)
      OBVIOUS
    <3> HIDE DEF b
    <3>2. QED
      BY <1>9, <3>1, BrokenDoes DEF SameTranscripts
  <2> HIDE DEF b
  <2>2. b \in Pages /\ Cover(b)
    <3>1. SameObligations(b, done)
      BY <2>1 DEF OnlyTranscripts, SameObligations, SameWork, SamePass
    <3>2. QED
      BY <1>9, <2>1, <3>1, CoverKept DEF OnlyTranscripts
  <2>3. FewerReads(b, p)
    <3>1. b.ft = p.ft /\ b.rec = p.rec /\ b.str.reconnect = NoReconnect
      BY <1>6, <2>1 DEF OnlyTranscripts, OnlyStream
    <3>2. QED
      BY <1>7, <3>1, ReadsFewer
  <2>4. RowsStep(daemon, p, b)
    BY <1>1, <1>6, <2>1, <2>3, Quiet DEF OnlyTranscripts, OnlyStream
  <2>5. Advances(daemon, p, b)
    BY <2>2, <2>4 DEF Advances
  <2>6. QED
    BY <2>5 DEF b
<1>11. ASSUME a.kind = "detail" PROVE Advances(daemon, p, q)
  <2>1. /\ s \in Sessions /\ a.epoch \in Epochs /\ a.row \in Row
        /\ cursor \in Heads /\ jumped \in SUBSET Sequences
    BY <1>4, <1>11
  <2>2. EpochChanged(c, done, a.epoch)
    BY <1>1, <1>9, <2>1, EpochChangeIs
  <2>3. c \in Pages /\ Cover(c)
    BY <1>1, <1>9, <2>1, <2>2, EpochChangeCovers DEF EpochChanged
  <2>4. ResumedAs(q, c, s, a)
    BY <1>1, <1>3, <2>1, <2>3, ResumesDoes
  <2>5. q \in Pages /\ Cover(q)
    <3>1. SameObligations(q, c)
      BY <2>4 DEF ResumedAs, SameObligations, SameWork, SamePass
    <3>2. QED
      BY <2>3, <2>4, <3>1, CoverKept DEF ResumedAs
  <2>6. IsRead(p, s, a)
    BY <1>1, <1>11 DEF IsRead
  <2>7. ReadsInv(daemon, p, s) /\ TrueRead(daemon, s, a)
    BY <1>1, <1>3, <2>1, <2>6 DEF Inv, RowsInv, ReadsInv
  <2>8. /\ c.st.epoch = a.epoch /\ c.rec.reply = p.rec.reply
        /\ c.st.epoch = p.st.epoch => c.st.rows = p.st.rows /\ c.st.cursor = p.st.cursor
                                      /\ c.ft = p.ft
        /\ c.st.epoch # p.st.epoch =>
              \A t \in Sessions : /\ c.st.rows[t] = NoRow /\ c.st.cursor[t] = -1
                                  /\ c.ft[t] = Unasked
    BY <1>6, <2>2 DEF EpochChanged, OnlyStream
  <2>9. FewerReads(q, p)
    <3>1. q.rec.reply = p.rec.reply /\ q.str.reconnect = NoReconnect /\ q.ft = c.ft
      BY <2>4, <2>8 DEF ResumedAs
    <3>2. \A t \in Sessions : q.ft[t] = p.ft[t] \/ q.ft[t].kind # "detail"
      BY <2>8, <3>1, Values
    <3>3. QED
      BY <1>7, <3>1, <3>2, ReadsFewer
  <2>10. q.st.epoch = a.epoch /\ q.str.epoch = a.epoch /\ a.epoch <= daemon.epoch
    BY <2>4, <2>7, <2>8 DEF ResumedAs, TrueRead
  <2>11. RowStep(daemon, p, q, s) /\ q.st.rows[s].last <= q.st.cursor[s]
    <3>1. c.st.rows[s] \in Row
      BY <2>1, <2>3, PageFields DEF Stores
    <3>2. Sound(daemon, p, a.epoch, s, c.st.rows[s])
      <4>1. CASE c.st.epoch = p.st.epoch
        BY <1>1, <2>1, <2>8, <4>1 DEF Inv, RowsInv
      <4>2. CASE c.st.epoch # p.st.epoch
        BY <2>1, <2>8, <4>2, NoRowSound
      <4>3. QED
        BY <4>1, <4>2
    <3>3. Sound(daemon, p, a.epoch, s, Merge(a.row, c.st.rows[s]))
          /\ c.st.rows[s].seen \subseteq Merge(a.row, c.st.rows[s]).seen
      BY <1>3, <2>1, <2>6, <2>7, <3>1, <3>2, MergeSound
    <3>4. q.st.rows[s] = Merge(a.row, c.st.rows[s])
          /\ q.st.rows[s].last = q.st.cursor[s] /\ q.st.rows[s] \in Row
      BY <2>4 DEF ResumedAs
    <3>5. q.st.rows[s].last <= q.st.cursor[s]
      BY <3>4, StoreAssumption DEF Row
    <3>6. QED
      BY <1>1, <2>8, <2>10, <3>3, <3>4, <3>5 DEF RowStep
  <2>12. ASSUME NEW t \in Sessions \ {s}
         PROVE  RowStep(daemon, p, q, t) /\ q.st.rows[t].last <= q.st.cursor[t]
    <3>1. q.st.rows[t] = c.st.rows[t] /\ q.st.cursor[t] = c.st.cursor[t]
      BY <2>4 DEF ResumedAs
    <3>2. CASE c.st.epoch = p.st.epoch
      <4>1. p.st.rows[t].last <= p.st.cursor[t]
        BY <1>1 DEF Inv, RowsInv
      <4>2. QED
        BY <2>8, <2>10, <3>1, <3>2, <4>1 DEF RowStep
    <3>3. CASE c.st.epoch # p.st.epoch
      BY <2>8, <3>1, <3>3, Values DEF RowStep
    <3>4. QED
      BY <3>2, <3>3
  <2>13. RowsStep(daemon, p, q)
    BY <2>9, <2>10, <2>11, <2>12 DEF RowsStep
  <2>14. QED
    BY <2>5, <2>13 DEF Advances
<1>12. QED
  BY <1>1, <1>2, <1>8, <1>10, <1>11, Arrives

-----------------------------------------------------------------------------
(* The recovery pass.                                                      *)

OnlyWork(q, c) ==
    /\ q \in Pages
    /\ q.st = c.st /\ q.str = c.str /\ q.ft = c.ft /\ q.ls = c.ls /\ q.lo = c.lo

\* Replacing the recovery replaces nothing else.
LEMMA NewWork ==
    ASSUME NEW c \in Pages, NEW rec \in Recoveries, NEW q, q = [c EXCEPT !.rec = rec]
    PROVE  OnlyWork(q, c) /\ q.rec = rec
BY DEF Pages, OnlyWork

\* What a directory's listings depend on.
SameDirectory(rec, old, d) ==
    /\ d \in rec.directories <=> d \in old.directories
    /\ d \in rec.covered <=> d \in old.covered
    /\ d \in rec.failed <=> d \in old.failed
    /\ d \in rec.todo <=> d \in old.todo
    /\ rec.stage = old.stage /\ rec.current = old.current

\* Work on other items keeps a directory's listings in order.
LEMMA ListedKept ==
    ASSUME NEW rec, NEW old, NEW d, SameDirectory(rec, old, d), NEW p, NEW o,
           Listed(old, d, p, o)
    PROVE  Listed(rec, d, p, o)
BY DEF SameDirectory, Listed

\* A step of the work on sessions only.
LEMMA WorkStep ==
    ASSUME NEW d, NEW c, NEW q, Inv(d, c), OnlyWork(q, c),
           \A s \in Sessions : q.rec.reply[s] = c.rec.reply[s]
                               \/ q.rec.reply[s].kind # "detail",
           PassInv(q.rec), SessionsCovered(q), DirectoriesCovered(q)
    PROVE  Advances(d, c, q)
<1>1. FewerReads(q, c)
  BY ReadsFewer DEF OnlyWork
<1>2. RowsStep(d, c, q)
  BY <1>1, Quiet DEF OnlyWork
<1>3. QED
  BY <1>2 DEF Advances, OnlyWork, Cover

PassedOver(rec, x) == [rec EXCEPT !.todo = @ \ {x}]
Dismissed(rec, s) == [rec EXCEPT !.residents = @ \ {s}]

\* An item that is done leaves the list of things to do.
LEMMA PassedOverFields ==
    ASSUME NEW old \in Recoveries, NEW x, NEW rec, rec = PassedOver(old, x)
    PROVE  /\ rec \in Recoveries /\ rec.todo = old.todo \ {x}
           /\ SameWork(rec, old)
           /\ rec.stage = old.stage /\ rec.current = old.current
           /\ rec.attempt = old.attempt /\ rec.timer = old.timer
BY DEF PassedOver, Recoveries, SameWork

\* A resident that is drained leaves the obligations.
LEMMA DismissedFields ==
    ASSUME NEW old \in Recoveries, NEW s, NEW rec, rec = Dismissed(old, s)
    PROVE  /\ rec \in Recoveries /\ rec.residents = old.residents \ {s}
           /\ rec.directories = old.directories /\ rec.reply = old.reply
           /\ rec.failed = old.failed /\ rec.stale = old.stale
           /\ rec.covered = old.covered /\ SamePass(rec, old)
           /\ rec.attempt = old.attempt /\ rec.timer = old.timer
BY DEF Dismissed, Recoveries, SamePass

\* The list of things to do is a matter of the recovery only.
LEMMA ItemDoneDoes ==
    ASSUME NEW c \in Pages, NEW x, NEW q, q = PassItemDone(c, x)
    PROVE  OnlyWork(q, c) /\ q.rec = PassedOver(c.rec, x)
<1>1. PassedOver(c.rec, x) \in Recoveries
  BY PageFields, PassedOverFields
<1>2. q = [c EXCEPT !.rec = PassedOver(c.rec, x)]
  BY DEF PassItemDone, PassedOver
<1>3. QED
  BY <1>1, <1>2, NewWork

\* And so are the residents.
LEMMA DrainedDoes ==
    ASSUME NEW c \in Pages, NEW s, NEW q, q = Drained(c, s)
    PROVE  OnlyWork(q, c) /\ q.rec = Dismissed(c.rec, s)
<1>1. Dismissed(c.rec, s) \in Recoveries
  BY PageFields, DismissedFields
<1>2. q = [c EXCEPT !.rec = Dismissed(c.rec, s)]
  BY DEF Drained, Dismissed
<1>3. QED
  BY <1>1, <1>2, NewWork

\* A session without a read leaves the pass.
LEMMA ItemDoneKeeps ==
    ASSUME NEW c \in Pages, Cover(c), NEW s \in Sessions, c.rec.reply[s] = Unasked,
           NEW q, q = PassItemDone(c, s)
    PROVE  OnlyWork(q, c) /\ q.rec.reply = c.rec.reply /\ Cover(q)
<1>1. OnlyWork(q, c) /\ q.rec = PassedOver(c.rec, s)
  BY ItemDoneDoes
<1>2. /\ q.rec.todo = c.rec.todo \ {s} /\ SameWork(q.rec, c.rec)
      /\ q.rec.stage = c.rec.stage /\ q.rec.current = c.rec.current
      /\ q.rec.attempt = c.rec.attempt /\ q.rec.timer = c.rec.timer
  BY <1>1, PageFields, PassedOverFields
<1>3. PassInv(q.rec)
  BY <1>2 DEF Cover, PassInv, SameWork, Timely
<1>4. SessionsCovered(q)
  BY <1>1, <1>2 DEF Cover, SessionsCovered, SameWork, OnlyWork
<1>5. ASSUME NEW d \in Directories
      PROVE  Listed(q.rec, d, q.ls[d]["pass"], q.ls[d]["other"])
  <2>1. Listed(c.rec, d, q.ls[d]["pass"], q.ls[d]["other"])
    BY <1>1 DEF Cover, DirectoriesCovered, OnlyWork
  <2>2. d # s
    BY StoreAssumption
  <2>3. SameDirectory(q.rec, c.rec, d)
    BY <1>2, <2>2 DEF SameDirectory, SameWork
  <2>4. QED
    BY <2>1, <2>3, ListedKept
<1>6. QED
  BY <1>1, <1>2, <1>3, <1>4, <1>5 DEF Cover, DirectoriesCovered, SameWork

\* A session that is covered leaves the obligations.
LEMMA DrainedKeeps ==
    ASSUME NEW c \in Pages, Cover(c), NEW s \in Sessions,
           s \in c.rec.covered \cup c.st.tombstones \cup c.lo.overtaken,
           NEW q, q = Drained(c, s)
    PROVE  OnlyWork(q, c) /\ q.rec.reply = c.rec.reply /\ Cover(q)
<1>1. OnlyWork(q, c) /\ q.rec = Dismissed(c.rec, s)
  BY DrainedDoes
<1>2. /\ q.rec.residents = c.rec.residents \ {s}
      /\ q.rec.directories = c.rec.directories /\ q.rec.reply = c.rec.reply
      /\ q.rec.failed = c.rec.failed /\ q.rec.stale = c.rec.stale
      /\ q.rec.covered = c.rec.covered /\ SamePass(q.rec, c.rec)
      /\ q.rec.attempt = c.rec.attempt /\ q.rec.timer = c.rec.timer
  BY <1>1, PageFields, DismissedFields
<1>3. PassInv(q.rec)
  BY <1>2 DEF Cover, PassInv, SamePass, Timely
<1>4. SessionsCovered(q)
  BY <1>1, <1>2 DEF Cover, SessionsCovered, OnlyWork
<1>5. ASSUME NEW d \in Directories
      PROVE  Listed(q.rec, d, q.ls[d]["pass"], q.ls[d]["other"])
  <2>1. Listed(c.rec, d, q.ls[d]["pass"], q.ls[d]["other"])
    BY <1>1 DEF Cover, DirectoriesCovered, OnlyWork
  <2>2. SameDirectory(q.rec, c.rec, d)
    BY <1>2 DEF SameDirectory, SamePass
  <2>3. QED
    BY <2>1, <2>2, ListedKept
<1>6. QED
  BY <1>1, <1>2, <1>3, <1>4, <1>5 DEF Cover, DirectoriesCovered

\* Work on the obligations that keeps them covered is a step.
LEMMA OnlyWorkStep ==
    ASSUME NEW d, NEW c, NEW q, Inv(d, c), OnlyWork(q, c), Cover(q),
           q.rec.reply = c.rec.reply
    PROVE  Advances(d, c, q)
BY WorkStep DEF Cover

\* RecoverySkips keeps the invariant.
LEMMA RecoverySkipsStep ==
    ASSUME Inv(daemon, Page), NEW s \in Sessions, RecoverySkips(s)
    PROVE  Advances(daemon, Page, Page') /\ UNCHANGED daemon
<1> DEFINE p == Page
           c == PassItemDone(p, s)
           q == Drained(c, s)
<1>1. p = Page /\ Inv(daemon, p) /\ c = PassItemDone(p, s) /\ q = Drained(c, s)
  OBVIOUS
<1>2. /\ p.rec.reply[s] = Unasked /\ UNCHANGED daemon
      /\ Becomes(c) \/ (Becomes(q) /\ s \in p.st.tombstones)
  BY SamePage DEF RecoverySkips, Drained
<1> HIDE DEF p, c, q
<1>3. p \in Pages /\ Cover(p)
  BY <1>1 DEF Inv
<1>4. OnlyWork(c, p) /\ c.rec.reply = p.rec.reply /\ Cover(c)
  BY <1>1, <1>2, <1>3, ItemDoneKeeps
<1>5. ASSUME s \in p.st.tombstones
      PROVE  OnlyWork(q, p) /\ q.rec.reply = p.rec.reply /\ Cover(q)
  <2>1. c \in Pages /\ s \in c.rec.covered \cup c.st.tombstones \cup c.lo.overtaken
    BY <1>4, <1>5 DEF OnlyWork
  <2>2. OnlyWork(q, c) /\ q.rec.reply = c.rec.reply /\ Cover(q)
    BY <1>1, <1>4, <2>1, DrainedKeeps
  <2>3. QED
    BY <1>4, <2>2 DEF OnlyWork
<1>6. QED
  BY <1>1, <1>2, <1>4, <1>5, OnlyWorkStep, Arrives

\* RecoveryReads keeps the invariant.
LEMMA RecoveryReadsStep ==
    ASSUME Inv(daemon, Page), NEW s \in Sessions, RecoveryReads(s)
    PROVE  Inv(daemon, Page') /\ UNCHANGED <<store, daemon>>
<1>1. PICK a \in Outcomes(s) : Becomes([Page EXCEPT !.rec.reply[s] = a])
  BY DEF RecoveryReads
<1>2. a \in Answered
  BY SamePage, AnswerIs
<1> DEFINE p == Page
           reply == [p.rec.reply EXCEPT ![s] = a]
           rec == [p.rec EXCEPT !.reply = reply]
           q == [p EXCEPT !.rec = rec]
<1>3. Becomes(q) /\ p = Page /\ q = [p EXCEPT !.rec = rec]
  BY <1>1 DEF Page
<1>4. /\ p.rec.stage = "residents" /\ s \in p.rec.todo /\ p.rec.reply[s] = Unasked
      /\ UNCHANGED daemon
  BY SamePage DEF RecoveryReads
<1> HIDE DEF p, q
<1>5. p \in Pages /\ p.rec \in Recoveries /\ Cover(p)
  BY <1>3, PageFields DEF Inv
<1>6. /\ reply \in [Sessions -> Answered] /\ reply[s] = a
      /\ \A t \in Sessions \ {s} : reply[t] = p.rec.reply[t]
  BY <1>2, <1>5 DEF Recoveries
<1> HIDE DEF reply
<1>7. /\ rec \in Recoveries /\ rec.reply = reply
      /\ rec.residents = p.rec.residents /\ rec.directories = p.rec.directories
      /\ rec.failed = p.rec.failed /\ rec.stale = p.rec.stale
      /\ rec.covered = p.rec.covered /\ SamePass(rec, p.rec)
      /\ rec.attempt = p.rec.attempt /\ rec.timer = p.rec.timer
  BY <1>5, <1>6 DEF Recoveries, SamePass
<1> HIDE DEF rec
<1>8. OnlyWork(q, p) /\ q.rec = rec
  BY <1>3, <1>5, <1>7, NewWork
<1>9. Cover(q)
  <2>1. PassInv(rec)
    <3>1. PassInv(p.rec)
      BY <1>5 DEF Cover
    <3>2. s \notin p.rec.stale
      BY <1>4, <3>1 DEF PassInv
    <3>3. p.rec.stale \subseteq Sessions
      BY <1>5 DEF Recoveries
    <3>4. QED
      BY <1>4, <1>6, <1>7, <3>1, <3>2, <3>3 DEF PassInv, SamePass, Timely
  <2>2. SessionsCovered(q)
    BY <1>5, <1>7, <1>8 DEF Cover, SessionsCovered, OnlyWork
  <2>3. ASSUME NEW d \in Directories
        PROVE  Listed(q.rec, d, q.ls[d]["pass"], q.ls[d]["other"])
    <3>1. Listed(p.rec, d, q.ls[d]["pass"], q.ls[d]["other"])
      BY <1>5, <1>8 DEF Cover, DirectoriesCovered, OnlyWork
    <3>2. SameDirectory(q.rec, p.rec, d)
      BY <1>7, <1>8 DEF SameDirectory, SamePass
    <3>3. QED
      BY <3>1, <3>2, ListedKept
  <2>4. QED
    BY <1>8, <2>1, <2>2, <2>3 DEF Cover, DirectoriesCovered
<1>10. /\ q \in Pages /\ q.st = Page.st /\ q.str = Page.str /\ q.ft = Page.ft
       /\ \A t \in Sessions :
             q.rec.reply[t] = Page.rec.reply[t] \/ (t = s /\ q.rec.reply[t] = a)
  BY <1>3, <1>6, <1>7, <1>8 DEF OnlyWork
<1>11. Inv(daemon, Page') /\ UNCHANGED store
  BY <1>3, <1>9, <1>10, AnswerStep
<1>12. QED
  BY <1>4, <1>11

\* A recovery read that settles leaves the pass, and with it its history.
Unread(rec, s) ==
    [rec EXCEPT !.reply = [@ EXCEPT ![s] = Unasked], !.todo = @ \ {s},
                !.stale = @ \ {s}]

\* The fields of the recovery after such a read.
LEMMA UnreadFields ==
    ASSUME NEW old \in Recoveries, NEW s \in Sessions, NEW rec, rec = Unread(old, s)
    PROVE  /\ rec \in Recoveries /\ rec.residents = old.residents
           /\ rec.directories = old.directories /\ rec.failed = old.failed
           /\ rec.covered = old.covered /\ rec.stale = old.stale \ {s}
           /\ rec.todo = old.todo \ {s} /\ rec.reply[s] = Unasked
           /\ \A t \in Sessions \ {s} : rec.reply[t] = old.reply[t]
           /\ rec.stage = old.stage /\ rec.current = old.current
           /\ rec.attempt = old.attempt /\ rec.timer = old.timer
<1> DEFINE reply == [old.reply EXCEPT ![s] = Unasked]
<1>1. /\ reply \in [Sessions -> Answered] /\ reply[s] = Unasked
      /\ \A t \in Sessions \ {s} : reply[t] = old.reply[t]
  BY Values DEF Recoveries
<1>2. rec = [old EXCEPT !.reply = reply, !.todo = @ \ {s}, !.stale = @ \ {s}]
  BY DEF Unread
<1> HIDE DEF reply
<1>3. QED
  BY <1>1, <1>2 DEF Recoveries

ReadOver(c, s) == [c EXCEPT !.rec = Unread(c.rec, s)]

\* It leaves the obligations covered.
LEMMA UnreadKeeps ==
    ASSUME NEW c \in Pages, Cover(c), NEW s \in Sessions,
           NEW q, q = ReadOver(c, s)
    PROVE  /\ OnlyWork(q, c) /\ Cover(q) /\ s \notin q.rec.stale
           /\ q.rec.current = c.rec.current /\ q.rec.covered = c.rec.covered
           /\ \A t \in Sessions : q.rec.reply[t] = c.rec.reply[t]
                                  \/ q.rec.reply[t].kind # "detail"
<1> DEFINE rec == Unread(c.rec, s)
<1>1. /\ rec \in Recoveries /\ rec.residents = c.rec.residents
      /\ rec.directories = c.rec.directories /\ rec.failed = c.rec.failed
      /\ rec.covered = c.rec.covered /\ rec.stale = c.rec.stale \ {s}
      /\ rec.todo = c.rec.todo \ {s} /\ rec.reply[s] = Unasked
      /\ \A t \in Sessions \ {s} : rec.reply[t] = c.rec.reply[t]
      /\ rec.stage = c.rec.stage /\ rec.current = c.rec.current
      /\ rec.attempt = c.rec.attempt /\ rec.timer = c.rec.timer
  BY PageFields, UnreadFields
<1> HIDE DEF rec
<1>2. OnlyWork(q, c) /\ q.rec = rec
  <2>1. q = [c EXCEPT !.rec = rec]
    BY DEF ReadOver, rec
  <2>2. QED
    BY <1>1, <2>1, NewWork
<1>3. PassInv(rec)
  <2>1. PassInv(c.rec) /\ c.rec.stale \subseteq Sessions
    BY PageFields DEF Cover, Recoveries
  <2>2. QED
    BY <1>1, <2>1 DEF PassInv, Timely
<1>4. SessionsCovered(q)
  BY <1>1, <1>2 DEF Cover, SessionsCovered, OnlyWork
<1>5. ASSUME NEW d \in Directories
      PROVE  Listed(q.rec, d, q.ls[d]["pass"], q.ls[d]["other"])
  <2>1. Listed(c.rec, d, q.ls[d]["pass"], q.ls[d]["other"])
    BY <1>2 DEF Cover, DirectoriesCovered, OnlyWork
  <2>2. d # s
    BY StoreAssumption
  <2>3. SameDirectory(q.rec, c.rec, d)
    BY <1>1, <1>2, <2>2 DEF SameDirectory
  <2>4. QED
    BY <2>1, <2>3, ListedKept
<1>6. Cover(q)
  BY <1>2, <1>3, <1>4, <1>5 DEF Cover, DirectoriesCovered
<1>7. QED
  BY <1>1, <1>2, <1>6, Values

\* A session more that counts as read.
Counted(rec, sessions) == [rec EXCEPT !.covered = @ \cup sessions]

Counting(c, sessions) == [c EXCEPT !.rec = Counted(c.rec, sessions)]

\* Counting more sessions as read leaves the obligations covered.
LEMMA CountedKeeps ==
    ASSUME NEW c \in Pages, Cover(c), NEW sessions \in SUBSET Sessions,
           NEW q, q = Counting(c, sessions)
    PROVE  /\ OnlyWork(q, c) /\ Cover(q) /\ q.rec.reply = c.rec.reply
           /\ q.rec.covered = c.rec.covered \cup sessions
           /\ q.rec.stale = c.rec.stale
<1> DEFINE rec == Counted(c.rec, sessions)
<1>1. /\ rec \in Recoveries /\ rec.residents = c.rec.residents
      /\ rec.directories = c.rec.directories /\ rec.failed = c.rec.failed
      /\ rec.covered = c.rec.covered \cup sessions /\ rec.stale = c.rec.stale
      /\ rec.reply = c.rec.reply /\ SamePass(rec, c.rec)
      /\ rec.attempt = c.rec.attempt /\ rec.timer = c.rec.timer
  BY PageFields DEF Counted, Recoveries, SamePass
<1> HIDE DEF rec
<1>2. OnlyWork(q, c) /\ q.rec = rec
  <2>1. q = [c EXCEPT !.rec = rec]
    BY DEF Counting, rec
  <2>2. QED
    BY <1>1, <2>1, NewWork
<1>3. PassInv(rec)
  BY <1>1 DEF Cover, PassInv, SamePass, Timely
<1>4. SessionsCovered(q)
  BY <1>1, <1>2 DEF Cover, SessionsCovered, OnlyWork
<1>5. ASSUME NEW d \in Directories
      PROVE  Listed(q.rec, d, q.ls[d]["pass"], q.ls[d]["other"])
  <2>1. Listed(c.rec, d, q.ls[d]["pass"], q.ls[d]["other"])
    BY <1>2 DEF Cover, DirectoriesCovered, OnlyWork
  <2>2. d \notin sessions
    BY StoreAssumption
  <2>3. SameDirectory(q.rec, c.rec, d)
    BY <1>1, <1>2, <2>2 DEF SameDirectory, SamePass
  <2>4. QED
    BY <2>1, <2>3, ListedKept
<1>6. QED
  BY <1>1, <1>2, <1>3, <1>4, <1>5 DEF Cover, DirectoriesCovered

Overtaken(c, s) == [c EXCEPT !.lo.overtaken = @ \cup {s}]

\* And so does noting that a read was overtaken.
LEMMA OvertakenKeeps ==
    ASSUME NEW c \in Pages, Cover(c), NEW s \in Sessions, NEW q, q = Overtaken(c, s)
    PROVE  /\ q \in Pages /\ Cover(q) /\ q.st = c.st /\ q.rec = c.rec
           /\ q.str = c.str /\ q.ft = c.ft /\ s \in q.lo.overtaken
<1> DEFINE lo == [c.lo EXCEPT !.overtaken = @ \cup {s}]
<1>1. lo \in Loss /\ lo.overtaken = c.lo.overtaken \cup {s}
  BY PageFields DEF Loss
<1>2. q = [c EXCEPT !.lo = lo]
  BY DEF Overtaken
<1> HIDE DEF lo
<1>3. /\ q \in Pages /\ q.st = c.st /\ q.rec = c.rec /\ q.ls = c.ls
      /\ q.str = c.str /\ q.ft = c.ft /\ q.lo = lo
  BY <1>1, <1>2 DEF Pages
<1>4. SameObligations(q, c)
  BY <1>1, <1>3 DEF SameObligations, SameWork, SamePass
<1>5. QED
  BY <1>1, <1>3, <1>4, CoverKept

\* What a verdict on session s does to the page, but for its row.
Verdict(q, c, s) ==
    /\ q \in Pages /\ Cover(q) /\ q.str = c.str /\ q.ft = c.ft
    /\ q.rec.reply = c.rec.reply /\ q.rec.stale = c.rec.stale
    /\ q.st.epoch = c.st.epoch
    /\ \A t \in Sessions \ {s} : q.st.rows[t] = c.st.rows[t]
    /\ \A t \in Sessions \ {s} : q.st.cursor[t] = c.st.cursor[t]
    /\ \/ q.st.rows[s] = c.st.rows[s] /\ q.st.cursor[s] = c.st.cursor[s]
       \/ q.st.rows[s] = NoRow /\ q.st.cursor[s] = c.st.cursor[s]

\* A read that is merged into a row that is not newer.
VerdictOf(q, c, s, a) ==
    /\ q \in Pages /\ Cover(q) /\ q.str = c.str /\ q.ft = c.ft
    /\ q.rec.reply = c.rec.reply /\ q.rec.stale = c.rec.stale
    /\ q.st.epoch = c.st.epoch /\ a.epoch = c.st.epoch /\ a.kind = "detail"
    /\ s \notin c.st.tombstones
    /\ \A t \in Sessions \ {s} : q.st.rows[t] = c.st.rows[t]
    /\ \A t \in Sessions \ {s} : q.st.cursor[t] = c.st.cursor[t]
    /\ q.st.rows[s] = Merge(a.row, c.st.rows[s]) /\ q.st.rows[s] \in Row
    /\ q.st.cursor[s] = q.st.rows[s].last

\* Draining a resident leaves the history of reads alone.
LEMMA DrainedStale ==
    ASSUME NEW c \in Pages, NEW s, NEW q, q = Drained(c, s)
    PROVE  q.rec.stale = c.rec.stale
BY DrainedDoes, DismissedFields, PageFields

\* A verdict drains only what is covered, deleted or overtaken.
LEMMA VerdictDoes ==
    ASSUME NEW c \in Pages, Cover(c), NEW s \in Sessions \ c.rec.stale,
           NEW a \in Answered,
           NEW q, q = RecoveryVerdict(c, s, a)
    PROVE  Verdict(q, c, s) \/ VerdictOf(q, c, s, a)
<1> DEFINE gone == CommitDeletion(c, s)
           read == CommitDetail(c, s, a.row)
           counted == Counting(read, {s} \ c.rec.stale)
           late == Overtaken(c, s)
<1>1. gone = CommitDeletion(c, s) /\ read = CommitDetail(c, s, a.row)
      /\ counted = Counting(read, {s} \ c.rec.stale)
      /\ late = Overtaken(c, s)
  OBVIOUS
<1>2. \/ q = c
      \/ s \in c.st.tombstones /\ q = Drained(c, s)
      \/ q = Drained(gone, s)
      \/ /\ s \notin c.st.tombstones /\ a.kind = "detail" /\ a.epoch = c.st.epoch
         /\ q = Drained(counted, s)
      \/ q = Drained(late, s)
  BY DEF RecoveryVerdict, Counting, Counted, Overtaken
<1> HIDE DEF gone, read, counted, late
<1>3. CASE q = c
  BY <1>3 DEF Verdict
<1>4. CASE s \in c.st.tombstones /\ q = Drained(c, s)
  <2>1. OnlyWork(q, c) /\ q.rec.reply = c.rec.reply /\ Cover(q)
    BY <1>4, DrainedKeeps
  <2>2. q.rec.stale = c.rec.stale
    BY <1>4, DrainedStale
  <2>3. QED
    BY <2>1, <2>2 DEF Verdict, OnlyWork
<1>5. CASE q = Drained(gone, s)
  <2>1. OnlyTranscripts(gone, c) /\ gone.ft = c.ft /\ gone.st = Buried(c.st, s)
    BY <1>1, DeletionDoes
  <2>2. /\ gone.st.epoch = c.st.epoch /\ gone.st.cursor = c.st.cursor
        /\ gone.st.tombstones = c.st.tombstones \cup {s}
        /\ gone.st.rows[s] = NoRow
        /\ \A t \in Sessions \ {s} : gone.st.rows[t] = c.st.rows[t]
    BY <2>1, PageFields, BuriedFields DEF SameChrome
  <2>3. gone \in Pages /\ Cover(gone)
    <3>1. SameObligations(gone, c)
      BY <2>1, <2>2 DEF OnlyTranscripts, SameObligations, SameWork, SamePass
    <3>2. QED
      BY <2>1, <3>1, CoverKept DEF OnlyTranscripts
  <2>4. OnlyWork(q, gone) /\ q.rec.reply = gone.rec.reply /\ Cover(q)
    BY <1>5, <2>2, <2>3, DrainedKeeps
  <2>5. q.rec.stale = gone.rec.stale
    BY <1>5, <2>3, DrainedStale
  <2>6. QED
    BY <2>1, <2>2, <2>4, <2>5 DEF Verdict, OnlyWork, OnlyTranscripts
<1>6. CASE /\ s \notin c.st.tombstones /\ a.kind = "detail" /\ a.epoch = c.st.epoch
           /\ q = Drained(counted, s)
  <2> DEFINE merged == Merge(a.row, c.st.rows[s])
  <2>1. a.row \in Row
    BY DEF Answered, Reads
  <2>2. /\ OnlyTranscripts(read, c) /\ read.ft = c.ft /\ merged \in Row
        /\ read.st = WithDetail(c.st, s, merged)
    BY <1>1, <1>6, <2>1, DetailDoes
  <2>3. merged = Merge(a.row, c.st.rows[s])
    OBVIOUS
  <2> HIDE DEF merged
  <2>4. /\ read.st.epoch = c.st.epoch /\ read.st.tombstones = c.st.tombstones
        /\ read.st.rows[s] = merged /\ read.st.cursor[s] = merged.last
        /\ \A t \in Sessions \ {s} : read.st.rows[t] = c.st.rows[t]
        /\ \A t \in Sessions \ {s} : read.st.cursor[t] = c.st.cursor[t]
    BY <2>2, PageFields, WithDetailFields DEF SameChrome
  <2>5. read \in Pages /\ Cover(read)
    <3>1. SameObligations(read, c)
      BY <2>2, <2>4 DEF OnlyTranscripts, SameObligations, SameWork, SamePass
    <3>2. QED
      BY <2>2, <3>1, CoverKept DEF OnlyTranscripts
  <2>6. /\ OnlyWork(counted, read) /\ Cover(counted)
        /\ counted.rec.reply = read.rec.reply
        /\ counted.rec.covered = read.rec.covered \cup ({s} \ c.rec.stale)
        /\ counted.rec.stale = read.rec.stale
    <3> DEFINE more == {s} \ c.rec.stale
    <3>1. more \in SUBSET Sessions /\ counted = Counting(read, more)
      BY <1>1
    <3> HIDE DEF more
    <3>2. /\ OnlyWork(counted, read) /\ Cover(counted)
          /\ counted.rec.reply = read.rec.reply
          /\ counted.rec.covered = read.rec.covered \cup more
          /\ counted.rec.stale = read.rec.stale
      BY <2>5, <3>1, CountedKeeps
    <3>3. QED
      BY <3>2 DEF more
  <2>7. counted \in Pages /\ s \in counted.rec.covered
    BY <2>6 DEF OnlyWork
  <2>8. OnlyWork(q, counted) /\ q.rec.reply = counted.rec.reply /\ Cover(q)
    BY <1>6, <2>6, <2>7, DrainedKeeps
  <2>9. q.rec.stale = counted.rec.stale
    BY <1>6, <2>7, DrainedStale
  <2>10. q.st = read.st /\ q.str = c.str /\ q.ft = c.ft /\ q \in Pages
         /\ q.rec.reply = c.rec.reply /\ q.rec.stale = c.rec.stale
    BY <2>2, <2>6, <2>8, <2>9 DEF OnlyWork, OnlyTranscripts
  <2>11. QED
    BY <1>6, <2>2, <2>3, <2>4, <2>8, <2>10 DEF VerdictOf
<1>7. CASE q = Drained(late, s)
  <2>1. /\ late \in Pages /\ Cover(late) /\ late.st = c.st /\ late.rec = c.rec
        /\ late.str = c.str /\ late.ft = c.ft /\ s \in late.lo.overtaken
    BY <1>1, OvertakenKeeps
  <2>2. OnlyWork(q, late) /\ q.rec.reply = late.rec.reply /\ Cover(q)
    BY <1>7, <2>1, DrainedKeeps
  <2>3. q.rec.stale = late.rec.stale
    BY <1>7, <2>1, DrainedStale
  <2>4. QED
    BY <2>1, <2>2, <2>3 DEF Verdict, OnlyWork
<1>8. QED
  BY <1>2, <1>3, <1>4, <1>5, <1>6, <1>7

\* The read is over before its verdict.
LEMMA RecoverySettlesIs ==
    ASSUME Page \in Pages, NEW s \in Sessions, RecoverySettles(s), NEW p, p = Page,
           NEW b, b = ReadOver(p, s),
           NEW a, a = p.rec.reply[s],
           NEW v, v = RecoveryVerdict(b, s, a)
    PROVE  /\ UNCHANGED daemon /\ p.rec.reply[s] # Unasked
           /\ \/ ~p.rec.current /\ Becomes(b)
              \/ /\ p.rec.current
                 /\ (s \notin p.rec.stale => Becomes([v EXCEPT !.rec.stale = @ \ {s}]))
<1>1. p.rec \in Recoveries /\ p.rec = recovery
  BY PageFields DEF Page
<1> DEFINE c == PassItemDone([Page EXCEPT !.rec.reply[s] = Unasked], s)
           reply == [p.rec.reply EXCEPT ![s] = Unasked]
           rec == [p.rec EXCEPT !.reply = reply, !.todo = @ \ {s}]
<1>2. c = [p EXCEPT !.rec = rec]
  <2> DEFINE asked == [p.rec EXCEPT !.reply = reply]
             a1 == [p EXCEPT !.rec = asked]
  <2>1. a1 = [Page EXCEPT !.rec.reply[s] = Unasked]
    OBVIOUS
  <2> HIDE DEF reply
  <2>2. [asked EXCEPT !.todo = @ \ {s}] = rec
    BY <1>1 DEF Recoveries
  <2>3. a1.rec = asked
    BY DEF Pages
  <2> HIDE DEF asked, rec
  <2>4. [a1 EXCEPT !.rec.todo = @ \ {s}] = [p EXCEPT !.rec = rec]
    BY <2>2, <2>3
  <2> HIDE DEF a1
  <2>5. QED
    BY <2>1, <2>4 DEF PassItemDone
<1>3. /\ UNCHANGED daemon /\ p.rec.reply[s] # Unasked
      /\ \/ ~p.rec.current /\ Becomes([c EXCEPT !.rec.stale = @ \ {s}])
         \/ p.rec.current
            /\ Becomes([RecoveryVerdict(c, s, a) EXCEPT !.rec.stale = @ \ {s}])
  BY <1>1 DEF RecoverySettles
<1>4. [rec EXCEPT !.stale = @ \ {s}] = Unread(p.rec, s)
  BY <1>1 DEF Unread, Recoveries
<1>8. b = [p EXCEPT !.rec = Unread(p.rec, s)]
  BY DEF ReadOver
<1>9. s \notin p.rec.stale => [rec EXCEPT !.stale = @ \ {s}] = rec
  <2> DEFINE u == reply
  <2>1. reply = u
    OBVIOUS
  <2> HIDE DEF u
  <2>2. rec = [p.rec EXCEPT !.reply = u, !.todo = @ \ {s}]
    BY <2>1
  <2> HIDE DEF rec, reply
  <2>3. /\ DOMAIN rec = DOMAIN p.rec /\ rec.stale = p.rec.stale
        /\ "stale" \in DOMAIN p.rec
        /\ rec = [x \in DOMAIN rec |-> rec[x]]
    BY <1>1, <2>2 DEF Recoveries
  <2>4. QED
    BY <2>3
<1>5. [c EXCEPT !.rec.stale = @ \ {s}] = b
  <2> HIDE DEF c, rec
  <2>1. c.rec = rec
    BY <1>2 DEF Pages
  <2>2. [c EXCEPT !.rec.stale = @ \ {s}] = [c EXCEPT !.rec = [rec EXCEPT !.stale = @ \ {s}]]
    BY <2>1
  <2>3. QED
    BY <1>2, <1>4, <1>8, <2>2
<1>6. s \notin p.rec.stale => c = b
  <2> SUFFICES ASSUME s \notin p.rec.stale PROVE c = b
    OBVIOUS
  <2> HIDE DEF c, rec
  <2>1. QED
    BY <1>2, <1>4, <1>8, <1>9
<1> HIDE DEF c
<1>7. QED
  BY <1>3, <1>5, <1>6

\* RecoverySettles keeps the invariant.
LEMMA RecoverySettlesStep ==
    ASSUME Inv(daemon, Page), NEW s \in Sessions, RecoverySettles(s)
    PROVE  Advances(daemon, Page, Page') /\ UNCHANGED daemon
<1> DEFINE p == Page
           b == ReadOver(p, s)
           a == p.rec.reply[s]
           v == RecoveryVerdict(b, s, a)
<1>1. p = Page /\ b = ReadOver(p, s) /\ a = p.rec.reply[s]
      /\ v = RecoveryVerdict(b, s, a)
  OBVIOUS
<1> HIDE DEF p, b, a, v
<1>2. p \in Pages /\ Cover(p) /\ Inv(daemon, p)
  BY <1>1 DEF Inv
<1>3. a \in Answered
  BY <1>1, <1>2, PageFields DEF Recoveries
<1>4. /\ UNCHANGED daemon /\ a # Unasked
      /\ \/ ~p.rec.current /\ Becomes(b)
         \/ /\ p.rec.current
            /\ (s \notin p.rec.stale => Becomes([v EXCEPT !.rec.stale = @ \ {s}]))
  BY <1>1, <1>2, RecoverySettlesIs
<1>5. /\ OnlyWork(b, p) /\ Cover(b) /\ s \notin b.rec.stale
      /\ b.rec.current = p.rec.current
      /\ \A t \in Sessions : b.rec.reply[t] = p.rec.reply[t]
                             \/ b.rec.reply[t].kind # "detail"
  BY <1>1, <1>2, UnreadKeeps
<1>6. Advances(daemon, p, b)
  BY <1>2, <1>5, WorkStep DEF Cover
<1>7. ASSUME p.rec.current
      PROVE  Advances(daemon, p, v) /\ Becomes(v)
  <2>1. s \notin p.rec.stale
    BY <1>1, <1>2, <1>4, <1>7 DEF Cover, PassInv
  <2>2. b \in Pages
    BY <1>5 DEF OnlyWork
  <2>3. Verdict(v, b, s) \/ VerdictOf(v, b, s, a)
    BY <1>1, <1>3, <1>5, <2>2, VerdictDoes
  <2>4. /\ v \in Pages /\ Cover(v) /\ v.str = p.str /\ v.ft = p.ft
        /\ v.rec.reply = b.rec.reply /\ v.rec.stale = b.rec.stale
        /\ v.st.epoch = p.st.epoch
        /\ \A t \in Sessions \ {s} : v.st.rows[t] = p.st.rows[t]
        /\ \A t \in Sessions \ {s} : v.st.cursor[t] = p.st.cursor[t]
    BY <1>5, <2>3 DEF Verdict, VerdictOf, OnlyWork
  <2>5. Becomes(v)
    <3> DEFINE w == [v EXCEPT !.rec.stale = @ \ {s}]
    <3>1. w = v
      BY <1>5, <2>4 DEF Pages, Recoveries
    <3>2. Becomes(w)
      BY <1>4, <1>7, <2>1
    <3>3. QED
      BY <3>1, <3>2
  <2>6. FewerReads(v, p)
    BY <1>5, <2>4, ReadsFewer
  <2>7. v.st.rows[s].last <= v.st.cursor[s] /\ RowStep(daemon, p, v, s)
    <3>1. b.st = p.st
      BY <1>5 DEF OnlyWork
    <3>2. p.st.rows[s].last <= p.st.cursor[s] /\ p.st.cursor[s] \in Cursors
      BY <1>2, PageFields DEF Inv, RowsInv, Stores
    <3>3. CASE Verdict(v, b, s)
      BY <2>4, <3>1, <3>2, <3>3, Values DEF Verdict, RowStep, Cursors
    <3>4. CASE VerdictOf(v, b, s, a)
      <4>1. IsRead(p, s, a)
        BY <1>1, <3>4 DEF IsRead, VerdictOf
      <4>2. /\ s \in Sessions \ p.st.tombstones /\ a.epoch = p.st.epoch
            /\ v.st.rows[s] = Merge(a.row, p.st.rows[s])
        BY <3>1, <3>4 DEF VerdictOf
      <4>3. RowStep(daemon, p, v, s)
        BY <1>2, <1>3, <2>4, <4>1, <4>2, DetailRow
      <4>4. v.st.rows[s].last <= v.st.cursor[s]
        BY <3>4, StoreAssumption DEF VerdictOf, Row
      <4>5. QED
        BY <4>3, <4>4
    <3>5. QED
      BY <2>3, <3>3, <3>4
  <2>8. RowsStep(daemon, p, v)
    BY <1>2, <2>4, <2>6, <2>7, OneRow
  <2>9. QED
    BY <2>4, <2>5, <2>8 DEF Advances
<1>8. QED
  BY <1>1, <1>4, <1>6, <1>7, Arrives

\* A pass with nothing left to do has no read and no listing in flight.
LEMMA NothingInFlight ==
    ASSUME NEW c \in Pages, Cover(c), c.rec.todo = {}
    PROVE  /\ \A s \in Sessions : c.rec.reply[s] = Unasked
           /\ c.rec.stale = {}
           /\ \A d \in Directories : c.ls[d]["pass"] = NoList
<1>1. \A s \in Sessions : c.rec.reply[s] = Unasked
  BY DEF Cover, PassInv
<1>2. c.rec.stale \subseteq Sessions /\ \A s \in c.rec.stale : c.rec.reply[s] # Unasked
  BY PageFields DEF Cover, PassInv, Recoveries
<1>3. ASSUME NEW d \in Directories PROVE c.ls[d]["pass"] = NoList
  <2>1. Listed(c.rec, d, c.ls[d]["pass"], c.ls[d]["other"])
    BY DEF Cover, DirectoriesCovered
  <2>2. QED
    BY <2>1 DEF Listed
<1>4. QED
  BY <1>1, <1>2, <1>3

\* Then the pass may be put anywhere.
LEMMA PassMoves ==
    ASSUME NEW c \in Pages, Cover(c), c.rec.todo = {}, NEW rec \in Recoveries,
           SameWork(rec, c.rec), rec.stage = "idle" => rec.todo = {}, Timely(rec),
           NEW q, OnlyWork(q, c), q.rec = rec
    PROVE  /\ Cover(q) /\ q.rec.reply = c.rec.reply
           /\ q.rec.residents = c.rec.residents
<1>1. /\ \A s \in Sessions : c.rec.reply[s] = Unasked
      /\ c.rec.stale = {} /\ \A d \in Directories : c.ls[d]["pass"] = NoList
  BY NothingInFlight
<1>2. PassInv(rec)
  BY <1>1 DEF PassInv, SameWork
<1>3. SessionsCovered(q)
  BY DEF Cover, SessionsCovered, OnlyWork, SameWork
<1>4. ASSUME NEW d \in Directories
      PROVE  Listed(q.rec, d, q.ls[d]["pass"], q.ls[d]["other"])
  <2>1. Listed(c.rec, d, NoList, q.ls[d]["other"]) /\ q.ls[d]["pass"] = NoList
    BY <1>1 DEF Cover, DirectoriesCovered, OnlyWork
  <2>2. QED
    BY <2>1 DEF Listed, SameWork, NoList
<1>5. QED
  BY <1>2, <1>3, <1>4 DEF Cover, DirectoriesCovered, SameWork

Rested(rec) == [rec EXCEPT !.stage = "idle", !.todo = {}]
Rest(c) == [c EXCEPT !.rec = Rested(c.rec)]
Delayed(rec) ==
    [Rested(rec) EXCEPT !.attempt = rec.attempt + 1,
                        !.timer = rec.attempt + 1 <= MaxAttempts]
Delay(c) == [c EXCEPT !.rec = Delayed(c.rec)]

\* A pass may go idle.
LEMMA RestDoes ==
    ASSUME NEW c \in Pages, Cover(c), c.rec.todo = {}, NEW q, q = Rest(c)
    PROVE  /\ OnlyWork(q, c) /\ Cover(q) /\ q.rec.reply = c.rec.reply
           /\ q.rec.residents = c.rec.residents
           /\ q.rec.attempt = c.rec.attempt /\ q.rec.stage = "idle"
           /\ q.rec.todo = {}
<1> DEFINE rec == Rested(c.rec)
<1>1. /\ rec \in Recoveries /\ SameWork(rec, c.rec) /\ rec.stage = "idle"
      /\ rec.todo = {} /\ rec.attempt = c.rec.attempt /\ rec.timer = c.rec.timer
  BY PageFields DEF Rested, Recoveries, SameWork
<1>2. q = [c EXCEPT !.rec = rec]
  BY DEF Rest
<1> HIDE DEF rec
<1>3. OnlyWork(q, c) /\ q.rec = rec
  BY <1>1, <1>2, NewWork
<1>4. Timely(rec)
  BY <1>1 DEF Cover, PassInv, Timely
<1>5. QED
  BY <1>1, <1>3, <1>4, PassMoves

\* It may wait for its timer, with attempts left.
LEMMA DelayDoes ==
    ASSUME NEW c \in Pages, Cover(c), c.rec.todo = {}, c.rec.stage # "idle",
           NEW q, q = Delay(c)
    PROVE  /\ OnlyWork(q, c) /\ Cover(q) /\ q.rec.reply = c.rec.reply
           /\ q.rec.residents = c.rec.residents
<1> DEFINE rec == Delayed(c.rec)
           attempt == c.rec.attempt + 1
           timer == attempt <= MaxAttempts
           rested == Rested(c.rec)
<1>1. /\ rested \in Recoveries /\ SameWork(rested, c.rec) /\ rested.stage = "idle"
      /\ rested.todo = {}
  BY PageFields DEF Rested, Recoveries, SameWork
<1>2. rec = [rested EXCEPT !.attempt = attempt, !.timer = timer]
  BY DEF Delayed
<1>3. attempt \in Attempts /\ timer \in BOOLEAN /\ (timer => attempt <= MaxAttempts)
  <2>1. c.rec.attempt \in Attempts /\ c.rec.attempt <= MaxAttempts
    BY PageFields DEF Cover, PassInv, Timely, Recoveries
  <2>2. QED
    BY <2>1, StoreAssumption DEF Attempts
<1>4. q = [c EXCEPT !.rec = rec]
  BY DEF Delay
<1> HIDE DEF rec, attempt, timer, rested
<1>5. /\ rec \in Recoveries /\ SameWork(rec, rested) /\ rec.stage = "idle"
      /\ rec.todo = {} /\ rec.attempt = attempt /\ rec.timer = timer
  BY <1>1, <1>2, <1>3 DEF Recoveries, SameWork
<1>6. SameWork(rec, c.rec) /\ Timely(rec)
  BY <1>1, <1>3, <1>5 DEF SameWork, Timely
<1>7. OnlyWork(q, c) /\ q.rec = rec
  BY <1>4, <1>5, NewWork
<1>8. QED
  BY <1>5, <1>6, <1>7, PassMoves

\* A pass that starts with attempts left.
LEMMA StartCovers ==
    ASSUME NEW c \in Pages, Cover(c), c.rec.attempt <= MaxAttempts,
           NEW q, q = StartPass(c)
    PROVE  /\ OnlyWork(q, c) /\ Cover(q) /\ q.rec.reply = c.rec.reply
           /\ q.rec.residents = c.rec.residents
<1>1. OnlyWork(q, c)
  BY StartPassDoes DEF OnlyWork
<1>2. /\ SameWork(q.rec, c.rec)
      /\ SamePass(q.rec, c.rec) \/ Begun(q.rec, c.rec)
      /\ q.rec.attempt = c.rec.attempt
  BY BegunOrSame
<1>3. SameObligations(q, c)
  BY <1>1, <1>2 DEF SameObligations, OnlyWork, Timely
<1>4. QED
  BY <1>1, <1>2, <1>3, CoverKept DEF OnlyWork, SameWork

\* The end of a pass.
LEMMA EndPassCovers ==
    ASSUME NEW c \in Pages, Cover(c), c.rec.todo = {}, c.rec.stage # "idle",
           NEW q, q = EndPass(c)
    PROVE  /\ OnlyWork(q, c) /\ Cover(q) /\ q.rec.reply = c.rec.reply
           /\ q.rec.residents = c.rec.residents
<1> DEFINE idle == Rest(c)
           late == Delay(c)
<1>1. idle = Rest(c) /\ late = Delay(c)
  OBVIOUS
<1>2. q = idle \/ q = StartPass(idle) \/ q = late
  <2>1. [c EXCEPT !.rec.stage = "idle", !.rec.todo = {}] = idle
    <3> DEFINE a == [c.rec EXCEPT !.stage = "idle"]
               b == [c EXCEPT !.rec = a]
    <3>1. b.rec = a /\ [a EXCEPT !.todo = {}] = Rested(c.rec)
      <4>1. [a EXCEPT !.todo = {}] = Rested(c.rec)
        BY PageFields DEF Rested, Recoveries
      <4> HIDE DEF a
      <4>2. QED
        BY <4>1 DEF Pages
    <3> HIDE DEF a
    <3>2. [b EXCEPT !.rec.todo = {}] = [c EXCEPT !.rec = Rested(c.rec)]
      BY <3>1
    <3>3. [c EXCEPT !.rec.stage = "idle", !.rec.todo = {}]
          = [b EXCEPT !.rec.todo = {}]
      BY DEF a
    <3>4. QED
      BY <3>2, <3>3 DEF Rest
  <2>2. [idle EXCEPT !.rec.attempt = c.rec.attempt + 1,
                     !.rec.timer = c.rec.attempt + 1 <= MaxAttempts] = late
    <3> DEFINE attempt == c.rec.attempt + 1
               timer == attempt <= MaxAttempts
               rested == Rested(c.rec)
               a == [rested EXCEPT !.attempt = attempt]
               b == [idle EXCEPT !.rec = a]
    <3>1. idle.rec = rested /\ rested \in Recoveries
      <4>1. rested \in Recoveries
        BY PageFields DEF Rested, Recoveries
      <4> HIDE DEF rested
      <4>2. idle = [c EXCEPT !.rec = rested]
        BY DEF rested, Rest
      <4>3. QED
        BY <4>1, <4>2 DEF Pages
    <3>2. Delayed(c.rec) = [a EXCEPT !.timer = timer]
      <4>1. Delayed(c.rec) = [rested EXCEPT !.attempt = attempt, !.timer = timer]
        BY DEF Delayed
      <4> HIDE DEF rested, attempt, timer
      <4>2. QED
        BY <3>1, <4>1 DEF Recoveries
    <3> HIDE DEF attempt, timer, rested
    <3>3. idle = [c EXCEPT !.rec = rested]
      BY DEF Rest, rested
    <3> HIDE DEF idle
    <3>4. b.rec = a /\ b = [c EXCEPT !.rec = a]
      <4> HIDE DEF a
      <4>1. QED
        BY <3>3 DEF Pages
    <3>5. [idle EXCEPT !.rec.attempt = attempt, !.rec.timer = timer]
          = [b EXCEPT !.rec.timer = timer]
      BY <3>1 DEF a
    <3> HIDE DEF a, b
    <3>6. [b EXCEPT !.rec.timer = timer] = [c EXCEPT !.rec = [a EXCEPT !.timer = timer]]
      BY <3>4
    <3>7. QED
      BY <3>2, <3>5, <3>6 DEF attempt, timer, Delay
  <2>3. QED
    BY <2>1, <2>2 DEF EndPass
<1> HIDE DEF idle, late
<1>3. /\ OnlyWork(idle, c) /\ Cover(idle) /\ idle.rec.reply = c.rec.reply
      /\ idle.rec.residents = c.rec.residents /\ idle.rec.attempt = c.rec.attempt
  BY <1>1, RestDoes
<1>4. idle.rec.attempt <= MaxAttempts
  BY <1>3 DEF Cover, PassInv, Timely
<1>5. CASE q = StartPass(idle)
  <2>1. /\ OnlyWork(q, idle) /\ Cover(q) /\ q.rec.reply = idle.rec.reply
        /\ q.rec.residents = idle.rec.residents
    BY <1>3, <1>4, <1>5, StartCovers DEF OnlyWork
  <2>2. QED
    BY <1>3, <2>1 DEF OnlyWork
<1>6. CASE q = late
  BY <1>1, <1>6, DelayDoes
<1>7. QED
  BY <1>2, <1>3, <1>5, <1>6

\* ResidentsDone keeps the invariant.
LEMMA ResidentsDoneStep ==
    ASSUME Inv(daemon, Page), ResidentsDone
    PROVE  Advances(daemon, Page, Page') /\ UNCHANGED daemon
<1> DEFINE p == Page
           end == EndPass(p)
           rec == [p.rec EXCEPT !.stage = "directories", !.todo = p.rec.directories]
           next == [p EXCEPT !.rec = rec]
<1>1. /\ p = Page /\ Inv(daemon, p) /\ end = EndPass(p)
      /\ next = [p EXCEPT !.rec = rec]
  OBVIOUS
<1>2. /\ UNCHANGED daemon /\ p.rec.stage = "residents" /\ p.rec.todo = {}
      /\ Becomes(next) \/ Becomes(end)
  BY SamePage DEF ResidentsDone
<1> HIDE DEF p, end, next
<1>3. p \in Pages /\ Cover(p) /\ p.rec \in Recoveries
  BY <1>1, PageFields DEF Inv
<1>4. OnlyWork(end, p) /\ Cover(end) /\ end.rec.reply = p.rec.reply
  BY <1>1, <1>2, <1>3, EndPassCovers
<1>5. /\ rec \in Recoveries /\ SameWork(rec, p.rec) /\ rec.stage = "directories"
      /\ rec.attempt = p.rec.attempt
  BY <1>3 DEF Recoveries, SameWork
<1> HIDE DEF rec
<1>6. OnlyWork(next, p) /\ next.rec = rec
  BY <1>1, <1>3, <1>5, NewWork
<1>7. Timely(rec)
  BY <1>2, <1>3, <1>5 DEF Cover, PassInv, Timely
<1>8. Cover(next) /\ next.rec.reply = p.rec.reply
  BY <1>2, <1>3, <1>5, <1>6, <1>7, PassMoves
<1>9. QED
  BY <1>1, <1>2, <1>4, <1>6, <1>8, OnlyWorkStep, Arrives

\* DirectoriesDone keeps the invariant.
LEMMA DirectoriesDoneStep ==
    ASSUME Inv(daemon, Page), DirectoriesDone
    PROVE  Advances(daemon, Page, Page') /\ UNCHANGED daemon
<1> DEFINE p == Page
           end == EndPass(p)
<1>1. p = Page /\ Inv(daemon, p) /\ end = EndPass(p)
  OBVIOUS
<1>2. /\ UNCHANGED daemon /\ p.rec.stage # "idle" /\ p.rec.todo = {} /\ Becomes(end)
  BY SamePage DEF DirectoriesDone
<1> HIDE DEF p, end
<1>3. OnlyWork(end, p) /\ Cover(end) /\ end.rec.reply = p.rec.reply
  BY <1>1, <1>2, EndPassCovers DEF Inv
<1>4. QED
  BY <1>1, <1>2, <1>3, OnlyWorkStep, Arrives

\* RetryTimer keeps the invariant.
LEMMA RetryTimerStep ==
    ASSUME Inv(daemon, Page), RetryTimer
    PROVE  Advances(daemon, Page, Page') /\ UNCHANGED daemon
<1> DEFINE p == Page
           rec == [p.rec EXCEPT !.timer = FALSE]
           b == [p EXCEPT !.rec = rec]
           q == StartPass(b)
<1>1. p = Page /\ Inv(daemon, p) /\ b = [p EXCEPT !.rec = rec] /\ q = StartPass(b)
  OBVIOUS
<1>2. UNCHANGED daemon /\ p.rec.timer /\ Becomes(q)
  BY SamePage DEF RetryTimer
<1> HIDE DEF p, b, q
<1>3. p \in Pages /\ Cover(p) /\ p.rec \in Recoveries
  BY <1>1, PageFields DEF Inv
<1>4. /\ rec \in Recoveries /\ SameWork(rec, p.rec) /\ SamePass(rec, p.rec)
      /\ rec.attempt = p.rec.attempt
  BY <1>3 DEF Recoveries, SameWork, SamePass
<1>5. rec.attempt <= MaxAttempts
  BY <1>2, <1>3, <1>4 DEF Cover, PassInv, Timely
<1> HIDE DEF rec
<1>6. OnlyWork(b, p) /\ b.rec = rec
  BY <1>1, <1>3, <1>4, NewWork
<1>7. b \in Pages /\ Cover(b)
  <2>1. SameObligations(b, p)
    BY <1>4, <1>5, <1>6 DEF OnlyWork, SameObligations, Timely
  <2>2. QED
    BY <1>3, <1>6, <2>1, CoverKept DEF OnlyWork
<1>8. OnlyWork(q, b) /\ Cover(q) /\ q.rec.reply = b.rec.reply
  BY <1>1, <1>5, <1>6, <1>7, StartCovers
<1>9. OnlyWork(q, p) /\ q.rec.reply = p.rec.reply
  BY <1>4, <1>6, <1>8 DEF OnlyWork, SameWork
<1>10. QED
  BY <1>1, <1>2, <1>8, <1>9, OnlyWorkStep, Arrives

-----------------------------------------------------------------------------
(* The listings of a directory.                                            *)

\* What a step on directory d leaves alone in the recovery.
OtherWork(rec, old, d) ==
    /\ rec.residents = old.residents /\ rec.reply = old.reply
    /\ rec.stale = old.stale /\ rec.stage = old.stage /\ rec.current = old.current
    /\ rec.attempt = old.attempt /\ rec.timer = old.timer
    /\ rec.todo \subseteq old.todo
    /\ \A x \in (Sessions \cup Directories) \ {d} :
          /\ x \in rec.directories <=> x \in old.directories
          /\ x \in rec.covered <=> x \in old.covered
          /\ x \in rec.failed <=> x \in old.failed
          /\ x \in rec.todo <=> x \in old.todo

\* A step on the listings of directory d.
Relisted(q, c, d) ==
    /\ q \in Pages /\ q.str = c.str /\ q.ft = c.ft /\ q.lo = c.lo
    /\ SameTranscripts(q.st, c.st) /\ OtherWork(q.rec, c.rec, d)
    /\ \A e \in Directories \ {d} : \A o \in Callers : q.ls[e][o] = c.ls[e][o]

\* A step on a directory's listings that keeps them in order is a step.
LEMMA RelistedStep ==
    ASSUME NEW dm, NEW c, NEW q, Inv(dm, c), NEW d \in Directories, Relisted(q, c, d),
           Listed(q.rec, d, q.ls[d]["pass"], q.ls[d]["other"])
    PROVE  Advances(dm, c, q)
<1>1. c \in Pages /\ Cover(c) /\ q \in Pages
  BY DEF Inv, Relisted
<1>2. \A s \in Sessions : s \in (Sessions \cup Directories) \ {d}
  BY StoreAssumption
<1>3. PassInv(q.rec)
  BY <1>1, <1>2 DEF Cover, PassInv, Relisted, OtherWork, Timely
<1>4. SessionsCovered(q)
  BY <1>1, <1>2 DEF Cover, SessionsCovered, Relisted, OtherWork, SameTranscripts
<1>5. ASSUME NEW e \in Directories
      PROVE  Listed(q.rec, e, q.ls[e]["pass"], q.ls[e]["other"])
  <2>1. CASE e = d
    BY <2>1
  <2>2. CASE e # d
    <3>1. Listed(c.rec, e, q.ls[e]["pass"], q.ls[e]["other"])
      BY <1>1, <2>2 DEF Cover, DirectoriesCovered, Relisted, Callers
    <3>2. SameDirectory(q.rec, c.rec, e)
      BY <2>2 DEF Relisted, OtherWork, SameDirectory
    <3>3. QED
      BY <3>1, <3>2, ListedKept
  <2>3. QED
    BY <2>1, <2>2
<1>6. Cover(q)
  BY <1>3, <1>4, <1>5 DEF Cover, DirectoriesCovered
<1>7. FewerReads(q, c)
  BY ReadsFewer DEF Relisted, OtherWork
<1>8. RowsStep(dm, c, q)
  BY <1>7, Quiet DEF Relisted, SameTranscripts
<1>9. QED
  BY <1>1, <1>6, <1>8 DEF Advances

\* The page becomes what a step on directory d made of it.
LEMMA ListArrives ==
    ASSUME NEW c, c = Page, NEW d, NEW q, Relisted(q, c, d), Advances(daemon, c, q),
           Becomes(q)
    PROVE  Advances(daemon, Page, Page') /\ Relisted(Page', Page, d)
<1>1. q \in Pages
  BY DEF Advances
<1>2. q = Page'
  BY <1>1, PageFields DEF Becomes, Page
<1>3. QED
  BY <1>2

\* Only the listings change, and of them only those of directory d.
OnlyList(q, c, d) ==
    /\ q \in Pages /\ q.st = c.st /\ q.rec = c.rec /\ q.str = c.str
    /\ q.ft = c.ft /\ q.lo = c.lo
    /\ \A e \in Directories \ {d} : \A o \in Callers : q.ls[e][o] = c.ls[e][o]

\* Replacing one listing replaces nothing else.
LEMMA NewList ==
    ASSUME NEW c \in Pages, NEW d \in Directories, NEW caller \in Callers,
           NEW list \in List, NEW q, q = [c EXCEPT !.ls[d][caller] = list]
    PROVE  /\ OnlyList(q, c, d) /\ q.ls[d][caller] = list
           /\ \A o \in Callers \ {caller} : q.ls[d][o] = c.ls[d][o]
<1> DEFINE ls == [c.ls EXCEPT ![d][caller] = list]
<1>1. c.ls \in [Directories -> [Callers -> List]]
  BY PageFields
<1>2. /\ ls \in [Directories -> [Callers -> List]] /\ ls[d][caller] = list
      /\ \A o \in Callers \ {caller} : ls[d][o] = c.ls[d][o]
      /\ \A e \in Directories \ {d} : \A o \in Callers : ls[e][o] = c.ls[e][o]
  BY <1>1
<1>3. q = [c EXCEPT !.ls = ls]
  OBVIOUS
<1> HIDE DEF ls
<1>4. /\ q \in Pages /\ q.st = c.st /\ q.rec = c.rec /\ q.str = c.str
      /\ q.ft = c.ft /\ q.lo = c.lo /\ q.ls = ls
  BY <1>2, <1>3 DEF Pages
<1>5. QED
  BY <1>2, <1>4 DEF OnlyList

Called == [reply |-> Asked, latest |-> TRUE, fresh |-> TRUE]
Superseded(list) == [list EXCEPT !.latest = FALSE]
Retried(rec, d) == [rec EXCEPT !.failed = @ \ {d}]

\* What a listing that begins, and one that is superseded, look like.
LEMMA ListValues ==
    /\ Called \in List /\ Called.latest /\ Called.fresh
    /\ ~NoList.latest /\ ~NoList.fresh /\ NoList \in List /\ NoList.reply = Unasked
    /\ Superseded(NoList) = NoList
    /\ \A list \in List :
          /\ Superseded(list) \in List /\ ~Superseded(list).latest
          /\ Superseded(list).fresh = list.fresh
<1>1. Asked \in Reads /\ NoList \in List
  BY Values DEF Answered
<1>2. QED
  BY <1>1 DEF Called, Superseded, NoList, List

\* A call of refreshDirectoryCatalog supersedes the other one.
LEMMA BeginListDoes ==
    ASSUME NEW c \in Pages, NEW d \in Directories, NEW caller \in Callers,
           NEW q, q = BeginList(c, d, caller)
    PROVE  /\ Relisted(q, c, d)
           /\ q.ls[d][caller] = Called
           /\ \A o \in Callers \ {caller} : q.ls[d][o] = Superseded(c.ls[d][o])
           /\ q.rec.directories = c.rec.directories
           /\ q.rec.todo = c.rec.todo
<1> DEFINE row == [o \in Callers |-> IF o = caller THEN Called
                                     ELSE Superseded(c.ls[d][o])]
           ls == [c.ls EXCEPT ![d] = row]
           rec == Retried(c.rec, d)
<1>1. c.ls \in [Directories -> [Callers -> List]] /\ c.rec \in Recoveries
  BY PageFields
<1>2. /\ row \in [Callers -> List] /\ row[caller] = Called
      /\ \A o \in Callers \ {caller} : row[o] = Superseded(c.ls[d][o])
  BY <1>1, ListValues
<1>3. q = [c EXCEPT !.ls = ls, !.rec = rec]
  <2>1. row = [o \in Callers |->
                IF o = caller THEN [reply |-> Asked, latest |-> TRUE, fresh |-> TRUE]
                ELSE [c.ls[d][o] EXCEPT !.latest = FALSE]]
    BY DEF Called, Superseded
  <2> DEFINE b == [c EXCEPT !.ls = ls]
  <2> HIDE DEF row
  <2>2. b = [c EXCEPT !.ls[d] =
               [o \in Callers |->
                IF o = caller THEN [reply |-> Asked, latest |-> TRUE, fresh |-> TRUE]
                ELSE [@[o] EXCEPT !.latest = FALSE]]]
    BY <2>1
  <2>3. q = [b EXCEPT !.rec.failed = @ \ {d}]
    BY <2>2 DEF BeginList
  <2> HIDE DEF ls
  <2>4. b.rec = c.rec
    BY DEF Pages
  <2> HIDE DEF b
  <2>5. q = [b EXCEPT !.rec = rec]
    BY <2>3, <2>4 DEF Retried
  <2>6. QED
    BY <2>5 DEF b
<1> HIDE DEF row
<1>4. /\ ls \in [Directories -> [Callers -> List]] /\ ls[d] = row
      /\ \A e \in Directories \ {d} : ls[e] = c.ls[e]
  BY <1>1, <1>2
<1>5. /\ rec \in Recoveries /\ OtherWork(rec, c.rec, d)
      /\ rec.directories = c.rec.directories /\ rec.todo = c.rec.todo
  BY <1>1 DEF Retried, Recoveries, OtherWork
<1> HIDE DEF ls, rec
<1>6. /\ q \in Pages /\ q.st = c.st /\ q.str = c.str /\ q.ft = c.ft /\ q.lo = c.lo
      /\ q.ls = ls /\ q.rec = rec
  BY <1>3, <1>4, <1>5 DEF Pages
<1>7. QED
  BY <1>2, <1>4, <1>5, <1>6 DEF Relisted, SameTranscripts

\* RefreshDirectory keeps the invariant.
LEMMA RefreshDirectoryStep ==
    ASSUME Inv(daemon, Page), NEW d \in Directories, RefreshDirectory(d)
    PROVE  /\ Advances(daemon, Page, Page') /\ UNCHANGED daemon
           /\ Relisted(Page', Page, d)
<1> DEFINE p == Page
           q == BeginList(p, d, "other")
<1>1. p = Page /\ Inv(daemon, p) /\ q = BeginList(p, d, "other")
  OBVIOUS
<1>2. Becomes(q) /\ UNCHANGED daemon /\ p.ls[d]["other"] = NoList
  BY SamePage DEF RefreshDirectory
<1> HIDE DEF p, q
<1>3. p \in Pages /\ Cover(p)
  BY <1>1 DEF Inv
<1>4. /\ Relisted(q, p, d) /\ q.ls[d]["other"] = Called
      /\ q.ls[d]["pass"] = Superseded(p.ls[d]["pass"])
      /\ q.rec.directories = p.rec.directories /\ q.rec.todo = p.rec.todo
  BY <1>1, <1>3, BeginListDoes DEF Callers
<1>5. Listed(p.rec, d, p.ls[d]["pass"], p.ls[d]["other"]) /\ p.ls[d]["pass"] \in List
  BY <1>3, PageFields DEF Cover, DirectoriesCovered, Callers
<1>6. Listed(q.rec, d, q.ls[d]["pass"], q.ls[d]["other"])
  BY <1>4, <1>5, ListValues DEF Listed, Relisted, OtherWork
<1>7. QED
  BY <1>1, <1>2, <1>4, <1>6, RelistedStep, ListArrives

\* PassLists keeps the invariant.
LEMMA PassListsStep ==
    ASSUME Inv(daemon, Page), NEW d \in Directories, PassLists(d)
    PROVE  /\ Advances(daemon, Page, Page') /\ UNCHANGED daemon
           /\ Relisted(Page', Page, d)
<1> DEFINE p == Page
           q == BeginList(p, d, "pass")
           over == PassItemDone(p, d)
<1>1. /\ p = Page /\ Inv(daemon, p) /\ q = BeginList(p, d, "pass")
      /\ over = PassItemDone(p, d)
  OBVIOUS
<1>2. /\ UNCHANGED daemon /\ p.ls[d]["pass"] = NoList
      /\ p.rec.stage = "directories" /\ d \in p.rec.todo
      /\ \/ p.rec.current /\ d \in p.rec.directories /\ Becomes(q)
         \/ Becomes(over)
  BY SamePage DEF PassLists
<1> HIDE DEF p, q, over
<1>3. p \in Pages /\ Cover(p)
  BY <1>1 DEF Inv
<1>4. /\ Listed(p.rec, d, p.ls[d]["pass"], p.ls[d]["other"])
      /\ p.ls[d]["other"] \in List
  BY <1>3, PageFields DEF Cover, DirectoriesCovered, Callers
<1>5. ASSUME p.rec.current, d \in p.rec.directories
      PROVE  Advances(daemon, p, q) /\ Relisted(q, p, d)
  <2>1. /\ Relisted(q, p, d) /\ q.ls[d]["pass"] = Called
        /\ q.ls[d]["other"] = Superseded(p.ls[d]["other"])
        /\ q.rec.directories = p.rec.directories /\ q.rec.todo = p.rec.todo
    BY <1>1, <1>3, BeginListDoes DEF Callers
  <2>2. Listed(q.rec, d, q.ls[d]["pass"], q.ls[d]["other"])
    BY <1>2, <1>4, <1>5, <2>1, ListValues DEF Listed, Relisted, OtherWork
  <2>3. QED
    BY <1>1, <2>1, <2>2, RelistedStep
<1>6. Advances(daemon, p, over) /\ Relisted(over, p, d)
  <2>1. OnlyWork(over, p) /\ over.rec = PassedOver(p.rec, d)
    BY <1>1, <1>3, ItemDoneDoes
  <2>2. /\ over.rec.todo = p.rec.todo \ {d} /\ SameWork(over.rec, p.rec)
        /\ over.rec.stage = p.rec.stage /\ over.rec.current = p.rec.current
        /\ over.rec.attempt = p.rec.attempt /\ over.rec.timer = p.rec.timer
    BY <1>3, <2>1, PageFields, PassedOverFields
  <2>3. Relisted(over, p, d)
    BY <2>1, <2>2 DEF OnlyWork, SameWork, Relisted, OtherWork, SameTranscripts
  <2>4. Listed(over.rec, d, over.ls[d]["pass"], over.ls[d]["other"])
    <3>1. over.ls = p.ls
      BY <2>1 DEF OnlyWork
    <3>2. QED
      BY <1>2, <1>4, <2>2, <3>1, ListValues DEF Listed, SameWork
  <2>5. QED
    BY <1>1, <2>3, <2>4, RelistedStep
<1>7. QED
  BY <1>1, <1>2, <1>5, <1>6, ListArrives

\* ListAnswered keeps the invariant.
LEMMA ListAnsweredStep ==
    ASSUME Inv(daemon, Page), NEW d \in Directories, NEW caller \in Callers,
           ListAnswered(d, caller)
    PROVE  /\ Advances(daemon, Page, Page') /\ UNCHANGED daemon
           /\ Relisted(Page', Page, d)
<1> DEFINE p == Page
           old == p.ls[d][caller]
<1>1. p = Page /\ Inv(daemon, p)
  OBVIOUS
<1>2. daemon \in Daemons /\ p.ls = lists
  BY SamePage
<1>3. PICK a : /\ a \in Reads /\ UNCHANGED daemon /\ old.reply = Asked
               /\ Becomes([p EXCEPT !.ls[d][caller].reply = a])
  <2> DEFINE listed == [Read("detail") EXCEPT !.epoch = daemon.epoch]
  <2>1. listed \in Reads /\ Read("failed") \in Reads
    BY <1>2, Values, StoreAssumption DEF Read, Reads, Daemons, Epochs, Answered
  <2>2. QED
    BY <1>2, <2>1 DEF ListAnswered
<1> HIDE DEF p
<1> DEFINE list == [old EXCEPT !.reply = a]
           q == [p EXCEPT !.ls[d][caller] = list]
<1>4. Becomes(q) /\ q = [p EXCEPT !.ls[d][caller] = list] /\ old = p.ls[d][caller]
  BY <1>3
<1>5. p \in Pages /\ Cover(p) /\ old \in List
  BY <1>1, PageFields DEF Inv
<1> HIDE DEF old, q
<1>6. list \in List /\ list.latest = old.latest /\ list.fresh = old.fresh
  BY <1>3, <1>5 DEF List
<1>7. old # NoList
  BY <1>3, ListValues, Values
<1> HIDE DEF list
<1>8. /\ OnlyList(q, p, d) /\ q.ls[d][caller] = list
      /\ \A o \in Callers \ {caller} : q.ls[d][o] = p.ls[d][o]
  BY <1>4, <1>5, <1>6, NewList
<1>9. Relisted(q, p, d)
  BY <1>8 DEF OnlyList, Relisted, OtherWork, SameTranscripts
<1>10. Listed(p.rec, d, p.ls[d]["pass"], p.ls[d]["other"])
  BY <1>5 DEF Cover, DirectoriesCovered
<1>11. q.rec = p.rec
  BY <1>8 DEF OnlyList
<1>12. CASE caller = "pass"
  <2>1. q.ls[d]["pass"] = list /\ q.ls[d]["other"] = p.ls[d]["other"]
        /\ p.ls[d]["pass"] = old
    BY <1>4, <1>8, <1>12 DEF Callers
  <2>2. Listed(p.rec, d, q.ls[d]["pass"], q.ls[d]["other"])
    BY <1>6, <1>7, <1>10, <2>1 DEF Listed
  <2>3. QED
    BY <1>1, <1>3, <1>4, <1>9, <1>11, <2>2, RelistedStep, ListArrives
<1>13. CASE caller = "other"
  <2>1. q.ls[d]["other"] = list /\ q.ls[d]["pass"] = p.ls[d]["pass"]
        /\ p.ls[d]["other"] = old
    BY <1>4, <1>8, <1>13 DEF Callers
  <2>2. Listed(p.rec, d, q.ls[d]["pass"], q.ls[d]["other"])
    BY <1>6, <1>10, <2>1 DEF Listed
  <2>3. QED
    BY <1>1, <1>3, <1>4, <1>9, <1>11, <2>2, RelistedStep, ListArrives
<1>14. QED
  BY <1>12, <1>13 DEF Callers

\* The call of a listing is over.
ListOver(c, d, caller) == [c EXCEPT !.ls[d][caller] = NoList]
Unowed(c, d, drains) ==
    [c EXCEPT !.rec.directories = IF drains THEN @ \ {d} ELSE @]
Committed(c, d, fresh) ==
    [c EXCEPT !.rec.failed = @ \ {d},
              !.rec.covered = IF fresh THEN @ \cup {d} ELSE @]
Failed(c, d, focused) ==
    [c EXCEPT !.rec.failed = @ \cup {d}, !.st.error = @ \/ focused]

\* A directory that drains leaves the obligations.
LEMMA UnowedDoes ==
    ASSUME NEW c \in Pages, NEW d \in Directories, NEW drains \in BOOLEAN,
           NEW q, q = Unowed(c, d, drains)
    PROVE  /\ OnlyWork(q, c) /\ OtherWork(q.rec, c.rec, d)
           /\ q.rec.todo = c.rec.todo
           /\ q.rec.covered = c.rec.covered /\ q.rec.failed = c.rec.failed
           /\ d \in q.rec.directories <=> d \in c.rec.directories /\ ~drains
<1> DEFINE left == IF drains THEN c.rec.directories \ {d} ELSE c.rec.directories
           rec == [c.rec EXCEPT !.directories = left]
<1>1. c.rec \in Recoveries
  BY PageFields
<1>2. /\ left \in SUBSET Directories
      /\ \A x : x # d => (x \in left <=> x \in c.rec.directories)
      /\ d \in left <=> d \in c.rec.directories /\ ~drains
  BY <1>1 DEF Recoveries
<1>3. q = [c EXCEPT !.rec = rec]
  BY DEF Unowed
<1> HIDE DEF left
<1>4. /\ rec \in Recoveries /\ rec.directories = left /\ rec.todo = c.rec.todo
      /\ rec.covered = c.rec.covered /\ rec.failed = c.rec.failed
      /\ OtherWork(rec, c.rec, d)
  BY <1>1, <1>2 DEF Recoveries, OtherWork
<1> HIDE DEF rec
<1>5. OnlyWork(q, c) /\ q.rec = rec
  BY <1>3, <1>4, NewWork
<1>6. QED
  BY <1>2, <1>4, <1>5

\* A listing that is committed covers its directory if it is fresh.
LEMMA CommittedDoes ==
    ASSUME NEW c \in Pages, NEW d \in Directories, NEW fresh \in BOOLEAN,
           NEW q, q = Committed(c, d, fresh)
    PROVE  /\ OnlyWork(q, c) /\ OtherWork(q.rec, c.rec, d)
           /\ q.rec.todo = c.rec.todo /\ q.rec.directories = c.rec.directories
           /\ fresh => d \in q.rec.covered
<1> DEFINE covered == IF fresh THEN c.rec.covered \cup {d} ELSE c.rec.covered
           failed == c.rec.failed \ {d}
           rec == [c.rec EXCEPT !.failed = failed, !.covered = covered]
<1>1. c.rec \in Recoveries
  BY PageFields
<1>2. /\ covered \in SUBSET (Sessions \cup Directories)
      /\ failed \in SUBSET Directories
      /\ \A x : x # d => (x \in covered <=> x \in c.rec.covered)
      /\ \A x : x # d => (x \in failed <=> x \in c.rec.failed)
      /\ fresh => d \in covered
  BY <1>1 DEF Recoveries
<1>3. q = [c EXCEPT !.rec = rec]
  <2> DEFINE a == [c.rec EXCEPT !.failed = failed]
             b == [c EXCEPT !.rec = a]
  <2>1. a.covered = c.rec.covered
    BY <1>1 DEF Recoveries
  <2>2. b.rec = a
    <3> HIDE DEF a
    <3>1. QED
      BY DEF Pages
  <2>3. [a EXCEPT !.covered = covered] = rec
    BY <1>1 DEF Recoveries
  <2>4. b = [c EXCEPT !.rec.failed = @ \ {d}]
    OBVIOUS
  <2>5. q = [b EXCEPT !.rec.covered = IF fresh THEN @ \cup {d} ELSE @]
    BY <2>4 DEF Committed
  <2> HIDE DEF a, covered, rec, failed
  <2>6. q = [b EXCEPT !.rec.covered = covered]
    BY <2>1, <2>2, <2>5 DEF covered
  <2>7. q = [b EXCEPT !.rec = [a EXCEPT !.covered = covered]]
    BY <2>2, <2>6
  <2>8. QED
    BY <2>3, <2>7
<1> HIDE DEF covered, failed
<1>4. /\ rec \in Recoveries /\ rec.covered = covered /\ rec.failed = failed
      /\ rec.todo = c.rec.todo /\ rec.directories = c.rec.directories
      /\ OtherWork(rec, c.rec, d)
  BY <1>1, <1>2 DEF Recoveries, OtherWork
<1> HIDE DEF rec
<1>5. OnlyWork(q, c) /\ q.rec = rec
  BY <1>3, <1>4, NewWork
<1>6. QED
  BY <1>2, <1>4, <1>5

\* One that fails marks its directory.
LEMMA FailedDoes ==
    ASSUME NEW c \in Pages, NEW d \in Directories, NEW focused \in BOOLEAN,
           NEW q, q = Failed(c, d, focused)
    PROVE  /\ q \in Pages /\ q.str = c.str /\ q.ft = c.ft /\ q.lo = c.lo /\ q.ls = c.ls
           /\ SameTranscripts(q.st, c.st) /\ OtherWork(q.rec, c.rec, d)
           /\ q.rec.todo = c.rec.todo /\ q.rec.directories = c.rec.directories
           /\ q.rec.covered = c.rec.covered /\ d \in q.rec.failed
<1> DEFINE failed == c.rec.failed \cup {d}
           rec == [c.rec EXCEPT !.failed = failed]
           error == c.st.error \/ focused
           st == [c.st EXCEPT !.error = error]
<1>1. c.rec \in Recoveries /\ c.st \in Stores
  BY PageFields
<1>2. error \in BOOLEAN /\ failed \in SUBSET Directories /\ d \in failed
      /\ \A x : x # d => (x \in failed <=> x \in c.rec.failed)
  BY <1>1 DEF Recoveries
<1>3. q = [c EXCEPT !.rec = rec, !.st = st]
  <2> DEFINE b == [c EXCEPT !.rec = rec]
  <2>1. b = [c EXCEPT !.rec.failed = @ \cup {d}]
    OBVIOUS
  <2>2. q = [b EXCEPT !.st.error = @ \/ focused]
    BY <2>1 DEF Failed
  <2> HIDE DEF rec
  <2>3. b.st = c.st
    BY DEF Pages
  <2> HIDE DEF b
  <2>4. q = [b EXCEPT !.st = st]
    BY <2>2, <2>3
  <2>5. QED
    BY <2>4 DEF b
<1> HIDE DEF failed, error
<1>4. /\ rec \in Recoveries /\ rec.failed = failed /\ rec.covered = c.rec.covered
      /\ rec.todo = c.rec.todo /\ rec.directories = c.rec.directories
      /\ OtherWork(rec, c.rec, d)
  BY <1>1, <1>2 DEF Recoveries, OtherWork
<1>5. st \in Stores /\ SameTranscripts(st, c.st)
  BY <1>1, <1>2 DEF Stores, SameTranscripts
<1> HIDE DEF rec, st
<1>6. /\ q \in Pages /\ q.str = c.str /\ q.ft = c.ft /\ q.lo = c.lo /\ q.ls = c.ls
      /\ q.rec = rec /\ q.st = st
  BY <1>3, <1>4, <1>5 DEF Pages
<1>7. QED
  BY <1>2, <1>4, <1>5, <1>6

\* What the call's owner does before the listing is committed.
ListReturned(q, c, d, caller, drains) ==
    /\ Relisted(q, c, d) /\ q.ls[d][caller] = NoList
    /\ \A o \in Callers \ {caller} : q.ls[d][o] = c.ls[d][o]
    /\ q.rec.covered = c.rec.covered /\ q.rec.failed = c.rec.failed
    /\ caller = "other" => q.rec.todo = c.rec.todo
                           /\ q.rec.directories = c.rec.directories
    /\ d \in q.rec.directories <=> d \in c.rec.directories /\ ~drains

\* Two steps on one directory are one.
LEMMA OtherWorkTwice ==
    ASSUME NEW a, NEW b, NEW c, NEW d, OtherWork(a, b, d), OtherWork(b, c, d)
    PROVE  OtherWork(a, c, d)
BY DEF OtherWork

\* The pass drains the directory and goes on; another caller does not.
LEMMA ListReturns ==
    ASSUME NEW c \in Pages, NEW d \in Directories, NEW caller \in Callers,
           NEW drains \in BOOLEAN, drains => caller = "pass",
           NEW q, q = IF caller # "pass" THEN ListOver(c, d, caller)
                      ELSE PassItemDone(Unowed(ListOver(c, d, caller), d, drains), d)
    PROVE  ListReturned(q, c, d, caller, drains)
<1> DEFINE a == ListOver(c, d, caller)
           w == Unowed(a, d, drains)
           i == PassItemDone(w, d)
<1>1. a = ListOver(c, d, caller) /\ w = Unowed(a, d, drains) /\ i = PassItemDone(w, d)
      /\ q = IF caller # "pass" THEN a ELSE i
  OBVIOUS
<1> HIDE DEF a, w, i
<1>2. /\ OnlyList(a, c, d) /\ a.ls[d][caller] = NoList
      /\ \A o \in Callers \ {caller} : a.ls[d][o] = c.ls[d][o]
  BY <1>1, ListValues, NewList DEF ListOver
<1>3. CASE caller # "pass"
  BY <1>1, <1>2, <1>3 DEF OnlyList, Relisted, OtherWork, ListReturned, SameTranscripts
<1>4. CASE caller = "pass"
  <2>1. a \in Pages
    BY <1>2 DEF OnlyList
  <2>2. /\ OnlyWork(w, a) /\ OtherWork(w.rec, a.rec, d)
        /\ w.rec.covered = a.rec.covered /\ w.rec.failed = a.rec.failed
        /\ d \in w.rec.directories <=> d \in a.rec.directories /\ ~drains
    BY <1>1, <2>1, UnowedDoes
  <2>3. w \in Pages
    BY <2>2 DEF OnlyWork
  <2>4. OnlyWork(i, w) /\ i.rec = PassedOver(w.rec, d)
    BY <1>1, <2>3, ItemDoneDoes
  <2>5. /\ i.rec.todo = w.rec.todo \ {d} /\ SameWork(i.rec, w.rec)
        /\ i.rec.stage = w.rec.stage /\ i.rec.current = w.rec.current
        /\ i.rec.attempt = w.rec.attempt /\ i.rec.timer = w.rec.timer
    BY <2>3, <2>4, PageFields, PassedOverFields
  <2>6. OtherWork(i.rec, w.rec, d)
    BY <2>5 DEF OtherWork, SameWork
  <2>7. OtherWork(i.rec, a.rec, d) /\ a.rec = c.rec
    BY <1>2, <2>2, <2>6, OtherWorkTwice DEF OnlyList
  <2>8. i.ls = a.ls /\ q = i
    BY <1>1, <1>4, <2>2, <2>4 DEF OnlyWork
  <2>9. Relisted(i, c, d)
    BY <1>2, <2>2, <2>4, <2>7, <2>8 DEF OnlyWork, OnlyList, Relisted, SameTranscripts
  <2>10. /\ i.rec.covered = c.rec.covered /\ i.rec.failed = c.rec.failed
         /\ d \in i.rec.directories <=> d \in c.rec.directories /\ ~drains
    BY <2>2, <2>5, <2>7 DEF SameWork
  <2>11. QED
    BY <1>2, <1>4, <2>8, <2>9, <2>10 DEF ListReturned
<1>5. QED
  BY <1>3, <1>4

\* The three ways a listing ends.
LEMMA ListSettlesIs ==
    ASSUME NEW d \in Directories, NEW caller \in Callers, ListSettles(d, caller),
           NEW p, p = Page, NEW list, list = p.ls[d][caller], list \in List,
           NEW drains, drains = (caller = "pass" /\ p.rec.current /\ ListOk(list)),
           NEW c, c = IF caller # "pass" THEN ListOver(p, d, caller)
                      ELSE PassItemDone(Unowed(ListOver(p, d, caller), d, drains), d)
    PROVE  /\ UNCHANGED daemon /\ list.reply # Unasked
           /\ \/ list.latest /\ ListCommits(list) /\ Becomes(Committed(c, d, list.fresh))
              \/ /\ list.latest /\ ~ListCommits(list)
                 /\ \E focused \in BOOLEAN : Becomes(Failed(c, d, focused))
              \/ ~list.latest /\ Becomes(c)
<1> DEFINE l == lists[d][caller]
           settled == [Page EXCEPT !.ls[d][caller] = NoList]
           b == caller = "pass" /\ recovery.current /\ ListOk(l)
           e == IF caller # "pass" THEN settled
                ELSE PassItemDone([settled EXCEPT !.rec.directories =
                                     IF b THEN @ \ {d} ELSE @], d)
<1>1. /\ UNCHANGED daemon /\ l.reply # Unasked
      /\ \/ ListCommits(l) /\ Becomes(Committed(e, d, l.fresh))
         \/ /\ ~ListCommits(l) /\ l.latest
            /\ \E focused \in BOOLEAN : Becomes(Failed(e, d, focused))
         \/ ~ListCommits(l) /\ ~l.latest /\ Becomes(e)
  <2>1. ListSettles(d, caller)
    OBVIOUS
  <2>2. QED
    BY <2>1 DEF ListSettles, Committed, Failed
<1>2. l = list /\ b = drains
  BY DEF Page
<1>3. e = c
  <2>1. settled = ListOver(p, d, caller)
    BY DEF ListOver
  <2> HIDE DEF settled, b
  <2>2. QED
    BY <1>2, <2>1 DEF Unowed
<1> HIDE DEF l, e, b, settled
<1>4. ListCommits(list) => list.latest
  BY DEF ListCommits
<1>5. QED
  BY <1>1, <1>2, <1>3, <1>4

\* ListSettles keeps the invariant.
LEMMA ListSettlesStep ==
    ASSUME Inv(daemon, Page), NEW d \in Directories, NEW caller \in Callers,
           ListSettles(d, caller)
    PROVE  /\ Advances(daemon, Page, Page') /\ UNCHANGED daemon
           /\ Relisted(Page', Page, d)
<1> DEFINE p == Page
           list == p.ls[d][caller]
           drains == caller = "pass" /\ p.rec.current /\ ListOk(list)
           c == IF caller # "pass" THEN ListOver(p, d, caller)
                ELSE PassItemDone(Unowed(ListOver(p, d, caller), d, drains), d)
<1>1. /\ p = Page /\ Inv(daemon, p) /\ list = p.ls[d][caller]
      /\ drains = (caller = "pass" /\ p.rec.current /\ ListOk(list))
      /\ c = IF caller # "pass" THEN ListOver(p, d, caller)
             ELSE PassItemDone(Unowed(ListOver(p, d, caller), d, drains), d)
  OBVIOUS
<1>2. drains \in BOOLEAN /\ (drains => caller = "pass")
  OBVIOUS
<1>3. drains => p.rec.current /\ (list.latest => ListCommits(list))
  BY DEF ListOk
<1>4. p.rec.current /\ caller = "pass" /\ ~list.latest => drains
  BY DEF ListOk
<1> HIDE DEF p, list, drains, c
<1>5. p \in Pages /\ Cover(p) /\ list \in List
  BY <1>1, PageFields DEF Inv
<1>6. /\ UNCHANGED daemon /\ list.reply # Unasked
      /\ \/ list.latest /\ ListCommits(list) /\ Becomes(Committed(c, d, list.fresh))
         \/ /\ list.latest /\ ~ListCommits(list)
            /\ \E focused \in BOOLEAN : Becomes(Failed(c, d, focused))
         \/ ~list.latest /\ Becomes(c)
  BY <1>1, <1>5, ListSettlesIs
<1>7. ListReturned(c, p, d, caller, drains)
  BY <1>1, <1>2, <1>5, ListReturns
<1>8. c \in Pages
  BY <1>7 DEF ListReturned, Relisted
<1>9. Listed(p.rec, d, p.ls[d]["pass"], p.ls[d]["other"])
  BY <1>5 DEF Cover, DirectoriesCovered
<1>10. list # NoList /\ ~NoList.latest /\ ~NoList.fresh
  BY <1>6, ListValues
<1>11. \/ /\ caller = "pass" /\ list = p.ls[d]["pass"] /\ c.ls[d]["pass"] = NoList
          /\ c.ls[d]["other"] = p.ls[d]["other"]
       \/ /\ caller = "other" /\ list = p.ls[d]["other"] /\ c.ls[d]["other"] = NoList
          /\ c.ls[d]["pass"] = p.ls[d]["pass"]
          /\ c.rec.todo = p.rec.todo /\ c.rec.directories = p.rec.directories
  BY <1>1, <1>7 DEF ListReturned, Callers
<1>12. /\ c.rec.stage = p.rec.stage /\ c.rec.current = p.rec.current
       /\ c.rec.covered = p.rec.covered /\ c.rec.failed = p.rec.failed
       /\ d \in c.rec.directories <=> d \in p.rec.directories /\ ~drains
  BY <1>7 DEF ListReturned, Relisted, OtherWork
<1>13. ASSUME list.latest, ListCommits(list)
       PROVE  /\ Advances(daemon, p, Committed(c, d, list.fresh))
              /\ Relisted(Committed(c, d, list.fresh), p, d)
  <2> DEFINE q == Committed(c, d, list.fresh)
  <2>1. q = Committed(c, d, list.fresh) /\ list.fresh \in BOOLEAN
    BY <1>5 DEF List
  <2> HIDE DEF q
  <2>2. /\ OnlyWork(q, c) /\ OtherWork(q.rec, c.rec, d)
        /\ q.rec.todo = c.rec.todo /\ q.rec.directories = c.rec.directories
        /\ list.fresh => d \in q.rec.covered
    BY <1>8, <2>1, CommittedDoes
  <2>3. Relisted(q, p, d)
    <3>1. OtherWork(q.rec, p.rec, d)
      BY <1>7, <2>2, OtherWorkTwice DEF ListReturned, Relisted
    <3>2. QED
      BY <1>7, <2>2, <3>1 DEF OnlyWork, ListReturned, Relisted, SameTranscripts
  <2>4. Listed(q.rec, d, c.ls[d]["pass"], c.ls[d]["other"])
    <3>1. q.rec.stage = p.rec.stage /\ q.rec.current = p.rec.current
      BY <2>3 DEF Relisted, OtherWork
    <3>2. CASE caller = "pass"
      BY <1>3, <1>9, <1>10, <1>11, <1>12, <1>13, <2>2, <3>1, <3>2 DEF Listed
    <3>3. CASE caller = "other"
      BY <1>2, <1>9, <1>10, <1>11, <1>12, <1>13, <2>2, <3>1, <3>3 DEF Listed
    <3>4. QED
      BY <3>2, <3>3 DEF Callers
  <2>5. q.ls = c.ls
    BY <2>2 DEF OnlyWork
  <2>6. Advances(daemon, p, q)
    BY <1>1, <2>3, <2>4, <2>5, RelistedStep
  <2>7. QED
    BY <2>3, <2>6 DEF q
<1>14. ASSUME list.latest, ~ListCommits(list), NEW focused \in BOOLEAN
       PROVE  /\ Advances(daemon, p, Failed(c, d, focused))
              /\ Relisted(Failed(c, d, focused), p, d)
  <2> DEFINE q == Failed(c, d, focused)
  <2>1. q = Failed(c, d, focused)
    OBVIOUS
  <2> HIDE DEF q
  <2>2. /\ q \in Pages /\ q.str = c.str /\ q.ft = c.ft /\ q.lo = c.lo /\ q.ls = c.ls
        /\ SameTranscripts(q.st, c.st) /\ OtherWork(q.rec, c.rec, d)
        /\ q.rec.todo = c.rec.todo /\ q.rec.directories = c.rec.directories
        /\ d \in q.rec.failed
    BY <1>8, <2>1, FailedDoes
  <2>3. Relisted(q, p, d)
    <3>1. OtherWork(q.rec, p.rec, d)
      BY <1>7, <2>2, OtherWorkTwice DEF ListReturned, Relisted
    <3>2. QED
      BY <1>7, <2>2, <3>1 DEF ListReturned, Relisted, SameTranscripts
  <2>4. Listed(q.rec, d, c.ls[d]["pass"], c.ls[d]["other"])
    <3>1. q.rec.stage = p.rec.stage /\ q.rec.current = p.rec.current
      BY <2>3 DEF Relisted, OtherWork
    <3>2. CASE caller = "pass"
      BY <1>3, <1>9, <1>10, <1>11, <1>12, <1>14, <2>2, <3>1, <3>2 DEF Listed
    <3>3. CASE caller = "other"
      BY <1>2, <1>9, <1>10, <1>11, <1>12, <1>14, <2>2, <3>1, <3>3 DEF Listed
    <3>4. QED
      BY <3>2, <3>3 DEF Callers
  <2>5. Advances(daemon, p, q)
    BY <1>1, <2>2, <2>3, <2>4, RelistedStep
  <2>6. QED
    BY <2>3, <2>5 DEF q
<1>15. ASSUME ~list.latest PROVE Advances(daemon, p, c) /\ Relisted(c, p, d)
  <2>1. Listed(c.rec, d, c.ls[d]["pass"], c.ls[d]["other"])
    <3>1. CASE caller = "pass"
      BY <1>3, <1>4, <1>9, <1>10, <1>11, <1>12, <1>15, <3>1 DEF Listed
    <3>2. CASE caller = "other"
      BY <1>2, <1>9, <1>10, <1>11, <1>12, <1>15, <3>2 DEF Listed
    <3>3. QED
      BY <3>1, <3>2 DEF Callers
  <2>2. QED
    BY <1>1, <1>7, <2>1, RelistedStep DEF ListReturned
<1>16. QED
  BY <1>1, <1>6, <1>13, <1>14, <1>15, ListArrives

-----------------------------------------------------------------------------
(* The daemon's steps, and every step.                                     *)

\* A step of the daemon alone keeps the invariant.
LEMMA DaemonOnly ==
    ASSUME Inv(daemon, Page), DaemonDoes(daemon, daemon'), PageUnchanged
    PROVE  Inv(daemon', Page') /\ UNCHANGED store
<1>1. Page' = Page /\ UNCHANGED store
  BY DEF PageUnchanged, Page
<1>2. Inv(daemon', Page)
  BY DaemonKeeps
<1>3. QED
  BY <1>1, <1>2

\* Publish appends an event.
LEMMA PublishDoes ==
    ASSUME Inv(daemon, Page), NEW s \in Sessions, Publish(s)
    PROVE  DaemonDoes(daemon, daemon') /\ PageUnchanged
<1>1. daemon \in Daemons /\ Len(daemon.log) < MaxSequence
  BY SamePage DEF Publish, LogHead
<1> DEFINE x == Turn(s)
           gone == daemon.gone
<1>2. x \in [session : Sessions, kind : {"turn", "deleted"}] /\ gone \in SUBSET Sessions
  BY <1>1 DEF Turn, Daemons
<1>3. daemon' = [daemon EXCEPT !.log = Append(@, x), !.gone = gone]
  <2> DEFINE log == Append(daemon.log, x)
  <2>1. daemon' = [daemon EXCEPT !.log = log]
    BY DEF Publish
  <2> HIDE DEF log
  <2>2. daemon' = [daemon EXCEPT !.log = log, !.gone = gone]
    BY <1>1, <2>1 DEF Daemons
  <2>3. QED
    BY <2>2 DEF log
<1> HIDE DEF x, gone
<1>4. DaemonDoes(daemon, daemon')
  BY <1>1, <1>2, <1>3, AppendDoes
<1>5. PageUnchanged
  BY DEF Publish
<1>6. QED
  BY <1>4, <1>5

\* DeleteSession appends one too.
LEMMA DeleteSessionDoes ==
    ASSUME Inv(daemon, Page), NEW s \in Sessions, DeleteSession(s)
    PROVE  DaemonDoes(daemon, daemon') /\ PageUnchanged
<1>1. daemon \in Daemons /\ Len(daemon.log) < MaxSequence
  BY SamePage DEF DeleteSession, LogHead
<1> DEFINE x == Deletion(s)
           gone == daemon.gone \cup {s}
<1>2. x \in [session : Sessions, kind : {"turn", "deleted"}] /\ gone \in SUBSET Sessions
  BY <1>1 DEF Deletion, Daemons
<1>3. daemon' = [daemon EXCEPT !.log = Append(@, x), !.gone = gone]
  <2> DEFINE log == Append(daemon.log, x)
  <2>1. daemon' = [daemon EXCEPT !.log = log, !.gone = @ \cup {s}]
    BY DEF DeleteSession
  <2> HIDE DEF log
  <2>2. daemon' = [daemon EXCEPT !.log = log, !.gone = gone]
    BY <2>1
  <2>3. QED
    BY <2>2 DEF log
<1> HIDE DEF x, gone
<1>4. DaemonDoes(daemon, daemon')
  BY <1>1, <1>2, <1>3, AppendDoes
<1>5. PageUnchanged
  BY DEF DeleteSession
<1>6. QED
  BY <1>4, <1>5

\* ForgetEvent leaves the events alone.
LEMMA ForgetEventDoes ==
    ASSUME Inv(daemon, Page), ForgetEvent
    PROVE  DaemonDoes(daemon, daemon') /\ PageUnchanged
<1> DEFINE Records == [epoch : Epochs,
                       log : Seq([session : Sessions, kind : {"turn", "deleted"}]),
                       forgotten : Nat, gone : SUBSET Sessions]
           forgotten == daemon.forgotten + 1
<1>1. daemon \in Records /\ Len(daemon.log) <= MaxSequence
  BY SamePage DEF Daemons
<1>2. daemon.forgotten < Len(daemon.log) /\ daemon' = [daemon EXCEPT !.forgotten = forgotten]
  BY DEF ForgetEvent, LogHead
<1>3. forgotten \in Nat /\ forgotten <= Len(daemon.log)
  <2>1. daemon.forgotten \in Nat /\ Len(daemon.log) \in Nat
    BY <1>1
  <2>2. QED
    BY <1>2, <2>1
<1> HIDE DEF forgotten
<1>4. /\ daemon' \in Records /\ daemon'.epoch = daemon.epoch
      /\ daemon'.log = daemon.log /\ daemon'.forgotten = forgotten
  BY <1>1, <1>2, <1>3
<1>5. daemon' \in Daemons /\ Len(daemon.log) \in Nat
  BY <1>1, <1>3, <1>4 DEF Daemons
<1>6. DaemonDoes(daemon, daemon')
  BY <1>4, <1>5 DEF DaemonDoes
<1>7. PageUnchanged
  BY DEF ForgetEvent
<1>8. QED
  BY <1>6, <1>7

\* Restart keeps the invariant.
LEMMA RestartStep ==
    ASSUME Inv(daemon, Page), Restart
    PROVE  Inv(daemon', Page') /\ UNCHANGED store
<1> DEFINE Events == [session : Sessions, kind : {"turn", "deleted"}]
           Records == [epoch : Epochs, log : Seq(Events),
                       forgotten : Nat, gone : SUBSET Sessions]
           epoch == daemon.epoch + 1
           none == <<>>
           zero == 0
           p == Page
           str == [p.str EXCEPT !.up = FALSE, !.frame = NoFrame]
           q == [p EXCEPT !.str = str]
<1>1. daemon \in Records
  BY SamePage DEF Daemons
<1>2. /\ daemon.epoch < MaxEpoch
      /\ daemon' = [daemon EXCEPT !.epoch = epoch, !.log = none, !.forgotten = zero]
      /\ Becomes(q) /\ UNCHANGED store
  BY DEF Restart, Becomes, Page
<1>3. epoch \in Epochs
  BY <1>1, <1>2, StoreAssumption DEF Epochs
<1>4. none \in Seq(Events) /\ zero \in Nat /\ Len(none) = 0 /\ zero = 0
  OBVIOUS
<1> HIDE DEF epoch, none, Events, zero
<1>5. /\ daemon' \in Records /\ daemon'.epoch = epoch /\ daemon'.log = none
      /\ daemon'.forgotten = zero
  BY <1>1, <1>2, <1>3, <1>4
<1>6. daemon' \in Daemons
  BY <1>4, <1>5, StoreAssumption DEF Daemons, Events
<1>7. DaemonDoes(daemon, daemon')
  BY <1>5, <1>6 DEF DaemonDoes, epoch
<1>8. Inv(daemon', p)
  BY <1>7, DaemonKeeps
<1>9. q = [p EXCEPT !.str = str] /\ p = Page
  OBVIOUS
<1> HIDE DEF p, q
<1>10. /\ str \in Streams /\ str.epoch = p.str.epoch
       /\ str.reconnect = p.str.reconnect
  <2>1. p.str \in Streams
    BY <1>8, PageFields DEF Inv
  <2>2. QED
    BY <2>1, Values DEF Streams
<1> HIDE DEF str
<1>11. OnlyStream(q, p) /\ q.str = str
  BY <1>8, <1>9, <1>10, NewStream DEF Inv
<1>12. Advances(daemon', p, q)
  BY <1>8, <1>10, <1>11, StreamStep
<1>13. Inv(daemon', q)
  BY <1>8, <1>12, AdvancesInv
<1>14. Page' = q
  <2>1. q \in Pages
    BY <1>13 DEF Inv
  <2>2. QED
    BY <1>2, <2>1, PageFields DEF Becomes, Page
<1>15. QED
  BY <1>2, <1>13, <1>14

\* A step either leaves the store as it is or advances its rows.
Progress == UNCHANGED store \/ Advances(daemon, Page, Page')

\* Every step of the daemon keeps the invariant.
LEMMA DaemonStepsKeep ==
    ASSUME Inv(daemon, Page), DaemonSteps
    PROVE  Inv(daemon', Page') /\ Progress
BY PublishDoes, DeleteSessionDoes, ForgetEventDoes, DaemonOnly, RestartStep
DEF DaemonSteps, Progress

\* A step of the page keeps the invariant.
LEMMA AdvancesKeeps ==
    ASSUME Inv(daemon, Page), Advances(daemon, Page, Page') /\ UNCHANGED daemon
    PROVE  Inv(daemon', Page') /\ Progress
<1>1. Inv(daemon, Page')
  BY AdvancesInv
<1>2. QED
  BY <1>1 DEF Progress

\* Every step of the stream keeps the invariant.
LEMMA StreamStepsKeep ==
    ASSUME Inv(daemon, Page), StreamSteps
    PROVE  Inv(daemon', Page') /\ Progress
<1>1. CASE ReconnectAnswered
  <2>1. Inv(daemon, Page') /\ UNCHANGED <<store, daemon>>
    BY <1>1, ReconnectAnsweredStep
  <2>2. QED
    BY <2>1 DEF Progress
<1>2. CASE ~ReconnectAnswered
  <2>1. Advances(daemon, Page, Page') /\ UNCHANGED daemon
    BY <1>2, DisconnectStep, ConnectStep, ReceiveResyncStep, ReceiveEventStep,
       SwitchTransportStep, ReconnectSettlesStep DEF StreamSteps
  <2>2. QED
    BY <2>1, AdvancesKeeps
<1>3. QED
  BY <1>1, <1>2

\* Every step of the transcripts keeps the invariant.
LEMMA TranscriptStepsKeep ==
    ASSUME Inv(daemon, Page), TranscriptSteps
    PROVE  Inv(daemon', Page') /\ Progress
<1>1. PICK s \in Sessions :
         \/ Select(s) \/ EnsureHydrated(s) \/ FetchAnswered(s)
         \/ FetchSettles(s) \/ Evict(s) \/ Remove(s)
  BY DEF TranscriptSteps
<1>2. CASE FetchAnswered(s)
  <2>1. Inv(daemon, Page') /\ UNCHANGED <<store, daemon>>
    BY <1>2, FetchAnsweredStep
  <2>2. QED
    BY <2>1 DEF Progress
<1>3. CASE ~FetchAnswered(s)
  <2>1. Advances(daemon, Page, Page') /\ UNCHANGED daemon
    BY <1>1, <1>3, SelectStep, EnsureHydratedStep, FetchSettlesStep, EvictStep,
       RemoveStep
  <2>2. QED
    BY <2>1, AdvancesKeeps
<1>4. QED
  BY <1>2, <1>3

\* Every step of the recovery and of the listings keeps the invariant.
LEMMA RecoveryStepsKeep ==
    ASSUME Inv(daemon, Page), RecoverySteps \/ OtherSteps
    PROVE  Inv(daemon', Page') /\ Progress
<1>1. CASE \E s \in Sessions : RecoveryReads(s)
  <2>1. Inv(daemon, Page') /\ UNCHANGED <<store, daemon>>
    BY <1>1, RecoveryReadsStep
  <2>2. QED
    BY <2>1 DEF Progress
<1>2. CASE ~\E s \in Sessions : RecoveryReads(s)
  <2>1. \/ \E s \in Sessions : RecoverySkips(s) \/ RecoverySettles(s)
        \/ ResidentsDone \/ DirectoriesDone \/ RetryTimer
        \/ \E d \in Directories : PassLists(d) \/ RefreshDirectory(d)
        \/ \E d \in Directories, o \in Callers : ListAnswered(d, o) \/ ListSettles(d, o)
    BY <1>2 DEF RecoverySteps, OtherSteps, Callers
  <2>2. Advances(daemon, Page, Page') /\ UNCHANGED daemon
    BY <2>1, RecoverySkipsStep, RecoverySettlesStep, ResidentsDoneStep,
       DirectoriesDoneStep, RetryTimerStep, PassListsStep, RefreshDirectoryStep,
       ListAnsweredStep, ListSettlesStep
  <2>3. QED
    BY <2>2, AdvancesKeeps
<1>3. QED
  BY <1>1, <1>2

\* No step goes beyond the bound on faults.
LEMMA FaultsKept ==
    ASSUME faults \in 0 .. MaxFaults, [Next]_vars
    PROVE  faults' \in 0 .. MaxFaults
<1>1. ASSUME Fault PROVE faults' \in 0 .. MaxFaults
  BY <1>1, StoreAssumption DEF Fault
<1>2. CASE DaemonSteps
  <2>1. UNCHANGED faults \/ Fault
    BY <1>2 DEF DaemonSteps, Publish, DeleteSession, ForgetEvent, Restart
  <2>2. QED
    BY <1>1, <2>1
<1>3. CASE StreamSteps
  <2>1. Disconnect => Fault
    BY DEF Disconnect
  <2>2. Connect => UNCHANGED faults
    BY DEF Connect
  <2>3. ReceiveResync => UNCHANGED faults
    BY DEF ReceiveResync
  <2>4. ReceiveEvent => UNCHANGED faults
    BY DEF ReceiveEvent
  <2>5. SwitchTransport => Fault
    BY DEF SwitchTransport
  <2>6. ReconnectAnswered => UNCHANGED faults \/ Fault
    BY DEF ReconnectAnswered, AnsweredBy
  <2>7. ReconnectSettles => UNCHANGED faults
    BY DEF ReconnectSettles
  <2>8. QED
    BY <1>1, <1>3, <2>1, <2>2, <2>3, <2>4, <2>5, <2>6, <2>7 DEF StreamSteps
<1>4. CASE TranscriptSteps
  <2>1. PICK s \in Sessions :
           \/ Select(s) \/ EnsureHydrated(s) \/ FetchAnswered(s)
           \/ FetchSettles(s) \/ Evict(s) \/ Remove(s)
    BY <1>4 DEF TranscriptSteps
  <2>2. Select(s) => UNCHANGED faults
    BY DEF Select
  <2>3. EnsureHydrated(s) => UNCHANGED faults
    BY DEF EnsureHydrated
  <2>4. FetchAnswered(s) => UNCHANGED faults \/ Fault
    BY DEF FetchAnswered, AnsweredBy
  <2>5. FetchSettles(s) => UNCHANGED faults
    BY DEF FetchSettles
  <2>6. Evict(s) => Fault
    BY DEF Evict
  <2>7. Remove(s) => UNCHANGED faults
    BY DEF Remove
  <2>8. QED
    BY <1>1, <2>1, <2>2, <2>3, <2>4, <2>5, <2>6, <2>7
<1>5. CASE RecoverySteps \/ OtherSteps
  <2>1. \A s \in Sessions : RecoverySkips(s) => UNCHANGED faults
    BY DEF RecoverySkips
  <2>2. \A s \in Sessions : RecoveryReads(s) => UNCHANGED faults \/ Fault
    BY DEF RecoveryReads, AnsweredBy
  <2>3. \A s \in Sessions : RecoverySettles(s) => UNCHANGED faults
    BY DEF RecoverySettles
  <2>4. ResidentsDone \/ DirectoriesDone \/ RetryTimer => UNCHANGED faults
    BY DEF ResidentsDone, DirectoriesDone, RetryTimer
  <2>5. \A d \in Directories : PassLists(d) => UNCHANGED faults
    BY DEF PassLists
  <2>6. \A d \in Directories : RefreshDirectory(d) => UNCHANGED faults
    BY DEF RefreshDirectory
  <2>7. \A d \in Directories, o \in Callers : ListAnswered(d, o) => UNCHANGED faults \/ Fault
    BY DEF ListAnswered, AnsweredBy
  <2>8. ASSUME NEW d \in Directories, NEW o \in Callers, ListSettles(d, o)
        PROVE  UNCHANGED faults
    <3>1. ListSettles(d, o)
      BY <2>8
    <3>2. UNCHANGED <<daemon, faults>>
      BY <3>1, Zenon DEF ListSettles
    <3>3. QED
      BY <3>2
  <2>9. UNCHANGED faults \/ Fault
    BY <1>5, <2>1, <2>2, <2>3, <2>4, <2>5, <2>6, <2>7, <2>8
    DEF RecoverySteps, OtherSteps, Callers
  <2>10. QED
    BY <1>1, <2>9
<1>6. CASE UNCHANGED vars
  BY <1>6 DEF vars
<1>7. QED
  BY <1>2, <1>3, <1>4, <1>5, <1>6 DEF Next

-----------------------------------------------------------------------------
(* The theorems.                                                           *)

\* The inductive invariant of the page and its daemon.
StoreInv == Inv(daemon, Page) /\ faults \in 0 .. MaxFaults

\* Every step keeps the invariant, and advances the rows it changes.
LEMMA StepKeeps ==
    ASSUME StoreInv, [Next]_vars
    PROVE  StoreInv' /\ Progress
<1>1. Inv(daemon, Page)
  BY DEF StoreInv
<1>2. Inv(daemon', Page') /\ Progress
  <2>1. CASE UNCHANGED vars
    <3>1. UNCHANGED <<daemon, store>> /\ Page' = Page
      BY <2>1 DEF vars, Page
    <3>2. QED
      BY <1>1, <3>1 DEF Progress
  <2>2. CASE Next
    BY <1>1, <2>2, DaemonStepsKeep, StreamStepsKeep, TranscriptStepsKeep,
       RecoveryStepsKeep DEF Next
  <2>3. QED
    BY <2>1, <2>2
<1>3. faults' \in 0 .. MaxFaults
  BY FaultsKept DEF StoreInv
<1>4. QED
  BY <1>2, <1>3 DEF StoreInv

\* The page as it is attached satisfies the invariant.
LEMMA InitHolds ==
    ASSUME Init
    PROVE  StoreInv
<1>1. PICK kind \in StreamKinds, s0 \in Sessions :
         LET first == IF kind = "bootstrap" THEN {s0} ELSE {}
             row(s) == IF s \in first THEN [seen |-> {0}, last |-> 0] ELSE NoRow
         IN  /\ store = [epoch |-> 1, rows |-> [s \in Sessions |-> row(s)],
                         cursor |-> [s \in Sessions |-> row(s).last],
                         hydrated |-> first, tombstones |-> {}, restoring |-> {},
                         loadError |-> {}, connection |-> "ready", error |-> FALSE,
                         selected |-> IF first = {} THEN NoSession ELSE s0]
             /\ stream = [kind |-> kind, up |-> TRUE, epoch |-> 1, cursor |-> 0,
                          frame |-> NoFrame, resyncObserved |-> FALSE,
                          reconnect |-> NoReconnect]
  BY DEF Init
<1> DEFINE first == IF kind = "bootstrap" THEN {s0} ELSE {}
           row(s) == IF s \in first THEN [seen |-> {0}, last |-> 0] ELSE NoRow
           rows == [s \in Sessions |-> row(s)]
           cursor == [s \in Sessions |-> row(s).last]
           selected == IF first = {} THEN NoSession ELSE s0
           unasked == [s \in Sessions |-> Unasked]
           none == [d \in Directories |-> [o \in Callers |-> NoList]]
           p == Page
<1>2. /\ first \in SUBSET Sessions /\ selected \in Sessions \cup {NoSession}
      /\ kind \in {"bootstrap", "cluster"}
  BY StoreAssumption
<1>3. \A s \in Sessions : /\ row(s) \in Row /\ row(s).last \in Cursors
                          /\ row(s).seen \subseteq {0}
  BY Values, StoreAssumption DEF Row, Cursors
<1>4. /\ store = [epoch |-> 1, rows |-> rows, cursor |-> cursor,
                  hydrated |-> first, tombstones |-> {}, restoring |-> {},
                  loadError |-> {}, connection |-> "ready", error |-> FALSE,
                  selected |-> selected]
      /\ stream = [kind |-> kind, up |-> TRUE, epoch |-> 1, cursor |-> 0,
                   frame |-> NoFrame, resyncObserved |-> FALSE,
                   reconnect |-> NoReconnect]
  BY <1>1
<1>5. /\ rows \in [Sessions -> Row] /\ cursor \in [Sessions -> Cursors]
      /\ \A s \in Sessions : rows[s].last = cursor[s] /\ rows[s].seen \subseteq {0}
  BY <1>3
<1>6. /\ unasked \in [Sessions -> Answered] /\ \A s \in Sessions : unasked[s] = Unasked
      /\ none \in [Directories -> [Callers -> List]]
      /\ \A d \in Directories, o \in Callers : none[d][o] = NoList
  BY Values
<1>7. /\ daemon = [epoch |-> 1, log |-> <<>>, forgotten |-> 0, gone |-> {}]
      /\ recovery = [residents |-> {}, directories |-> {}, stage |-> "idle",
                     current |-> FALSE, todo |-> {},
                     reply |-> unasked, attempt |-> 0,
                     timer |-> FALSE, failed |-> {}, stale |-> {},
                     covered |-> Sessions \cup Directories]
      /\ fetch = unasked /\ lists = none /\ lost = NoLoss /\ faults = 0
  BY DEF Init
<1>8. /\ p.st = store /\ p.rec = recovery /\ p.str = stream /\ p.ft = fetch
      /\ p.ls = lists /\ p.lo = lost
      /\ p = [st |-> store, rec |-> recovery, str |-> stream, ft |-> fetch,
              ls |-> lists, lo |-> lost]
  BY DEF Page
<1> HIDE DEF first, row, rows, cursor, selected, unasked, none, p
<1>9. 1 \in Epochs /\ 0 \in Heads /\ 0 \in Attempts /\ 0 \in 0 .. MaxFaults
  BY StoreAssumption DEF Epochs, Heads, Attempts
<1>10. store \in Stores
  BY <1>2, <1>4, <1>5, <1>9 DEF Stores
<1>11. recovery \in Recoveries
  BY <1>6, <1>7, <1>9 DEF Recoveries
<1>12. stream \in Streams
  BY <1>2, <1>4, <1>9, Values DEF Streams
<1>13. p \in Pages
  BY <1>6, <1>7, <1>8, <1>10, <1>11, <1>12, Values DEF Pages
<1>14. daemon \in Daemons /\ daemon.epoch = 1
  BY <1>7, <1>9, StoreAssumption DEF Daemons
<1>15. Cover(p)
  <2>1. PassInv(p.rec)
    BY <1>6, <1>7, <1>8 DEF PassInv, Timely
  <2>2. SessionsCovered(p)
    BY <1>7, <1>8 DEF SessionsCovered
  <2>3. DirectoriesCovered(p)
    <3> SUFFICES ASSUME NEW d \in Directories
                 PROVE  Listed(p.rec, d, NoList, NoList)
      BY <1>6, <1>7, <1>8 DEF DirectoriesCovered, Callers
    <3>1. d \in p.rec.covered
      BY <1>7, <1>8
    <3>2. QED
      BY <3>1, ListValues DEF Listed
  <2>4. QED
    BY <2>1, <2>2, <2>3 DEF Cover
<1>16. RowsInv(daemon, p)
  <2>1. \A s \in Sessions, r \in Answered : ~IsRead(p, s, r)
    <3>1. Unasked.kind # "detail" /\ NoReconnect.reply = Unasked
      BY Values DEF NoReconnect
    <3>2. \A s \in Sessions : p.ft[s] = Unasked /\ p.rec.reply[s] = Unasked
      BY <1>6, <1>7, <1>8
    <3>3. p.str.reconnect.reply = Unasked
      BY <1>4, <1>8, <3>1
    <3>4. QED
      BY <3>1, <3>2, <3>3 DEF IsRead
  <2>2. p.st.epoch = 1 /\ p.str.epoch = 1 /\ p.st.rows = rows /\ p.st.cursor = cursor
    BY <1>4, <1>8
  <2>3. ASSUME NEW s \in Sessions
        PROVE  /\ rows[s].last <= cursor[s]
               /\ Sound(daemon, p, 1, s, rows[s])
               /\ ReadsInv(daemon, p, s)
    <3>1. rows[s].last <= cursor[s]
      BY <1>5, StoreAssumption DEF Cursors
    <3>2. rows[s].seen \subseteq Turns(daemon, s)
      BY <1>5 DEF Turns
    <3>3. QED
      BY <2>1, <3>1, <3>2 DEF Sound, ReadsInv
  <2>4. QED
    BY <1>14, <2>2, <2>3 DEF RowsInv
<1>17. QED
  BY <1>7, <1>9, <1>13, <1>14, <1>15, <1>16 DEF StoreInv, Inv, p

\* The invariant holds always.
LEMMA StoreInvHolds == Spec => []StoreInv
<1>1. Init => StoreInv
  BY InitHolds
<1>2. StoreInv /\ [Next]_vars => StoreInv'
  BY StepKeeps
<1>3. QED
  BY <1>1, <1>2, PTL DEF Spec

\* The invariant implies the types.
LEMMA InvTyped ==
    ASSUME StoreInv
    PROVE  TypeOK
<1>1. /\ store \in Stores /\ recovery \in Recoveries /\ stream \in Streams
      /\ fetch \in [Sessions -> Answered]
      /\ lists \in [Directories -> [Callers -> List]] /\ lost \in Loss
      /\ daemon \in Daemons
  BY SamePage DEF StoreInv
<1>2. Answered \subseteq Reads
  BY DEF Answered
<1>3. /\ daemon.epoch \in Epochs
      /\ daemon.log \in Seq([session : Sessions, kind : {"turn", "deleted"}])
      /\ daemon.forgotten \in 0 .. LogHead /\ daemon.gone \subseteq Sessions
  BY <1>1 DEF Daemons, LogHead
<1>4. /\ stream.kind \in {"bootstrap", "cluster", "reconnect"}
      /\ stream.epoch \in Epochs /\ stream.cursor \in 0 .. MaxSequence
  BY <1>1 DEF Streams, Heads
<1>5. fetch \in [Sessions -> Reads]
  BY <1>1, <1>2
<1>6. recovery \in [residents : SUBSET Sessions, directories : SUBSET Directories,
                    stage : {"idle", "residents", "directories"}, current : BOOLEAN,
                    todo : SUBSET (Sessions \cup Directories),
                    reply : [Sessions -> Reads], attempt : 0 .. MaxAttempts + 1,
                    timer : BOOLEAN, failed : SUBSET Directories,
                    stale : SUBSET Sessions,
                    covered : SUBSET (Sessions \cup Directories)]
  <2>1. [Sessions -> Answered] \subseteq [Sessions -> Reads]
    BY <1>2
  <2>2. QED
    BY <1>1, <2>1 DEF Recoveries, Attempts
<1>7. store \in [epoch : Epochs, rows : [Sessions -> Row],
                 cursor : [Sessions -> -1 .. MaxSequence],
                 hydrated : SUBSET Sessions, tombstones : SUBSET Sessions,
                 restoring : SUBSET Sessions, loadError : SUBSET Sessions,
                 selected : Sessions \cup {NoSession},
                 connection : {"ready", "error"}, error : BOOLEAN]
  BY <1>1 DEF Stores, Cursors
<1>8. QED
  BY <1>1, <1>3, <1>4, <1>5, <1>6, <1>7 DEF TypeOK, StoreInv

\* The page, its daemon and everything in flight stay in their types.
THEOREM TypeCorrect == Spec => []TypeOK
BY StoreInvHolds, InvTyped, PTL

\* The invariant implies that what was drained is covered.
LEMMA InvCovers ==
    ASSUME StoreInv
    PROVE  DrainedIsCovered
<1>1. SessionsCovered(Page) /\ DirectoriesCovered(Page)
  BY DEF StoreInv, Inv, Cover
<1>2. \A s \in Sessions : s \in recovery.residents \cup recovery.covered
                                   \cup store.tombstones \cup lost.overtaken
  BY <1>1 DEF SessionsCovered, Page
<1>3. \A d \in Directories :
         \/ d \in recovery.directories \cup recovery.covered \cup recovery.failed
         \/ lists[d]["other"].latest /\ lists[d]["other"].fresh
  BY <1>1 DEF DirectoriesCovered, Listed, Page
<1>4. QED
  BY <1>2, <1>3 DEF DrainedIsCovered

\* A resident or directory leaves the recovery's obligations only when it was read
\* after the last signal that asked for it, was deleted, overtaken, or failed with
\* a mark: no supersession of a pass, of a listing or of a retry loses one.
THEOREM ObligationsCovered == Spec => []DrainedIsCovered
BY StoreInvHolds, InvCovers, PTL

\* No hydrate, recovery read or reconnect, however late it answers, takes an event
\* away from a transcript that stays: mergeHydratedSession is monotone over
\* whatever may be in flight.
THEOREM NothingErased == Spec => ReadsNeverErase
<1>1. ASSUME StoreInv, [Next]_vars
      PROVE  [\A s \in Sessions :
                (/\ store'.epoch = store.epoch
                 /\ store.rows[s] # NoRow /\ store'.rows[s] # NoRow)
                => store.rows[s].seen \subseteq store'.rows[s].seen]_vars
  <2>1. Progress
    BY <1>1, StepKeeps
  <2>2. CASE UNCHANGED store
    BY <2>2
  <2>3. CASE Advances(daemon, Page, Page')
    <3>1. \A s \in Sessions : RowStep(daemon, Page, Page', s)
      BY <2>3 DEF Advances, RowsStep
    <3>2. Page.st = store /\ Page'.st = store'
      BY DEF Page
    <3>3. QED
      BY <3>1, <3>2 DEF RowStep
  <2>4. QED
    BY <2>1, <2>2, <2>3 DEF Progress
<1>2. QED
  BY <1>1, StoreInvHolds, PTL DEF Spec, ReadsNeverErase

\* Late hydrates, recovery reads and events never bring a deleted session back;
\* only a reconnect of that session may.
THEOREM DeletedStay == Spec => DeletedStaysDeleted
<1>1. ASSUME StoreInv, [Next]_vars
      PROVE  [\A s \in store.tombstones :
                store.rows[s] = NoRow /\ store'.rows[s] # NoRow
                => stream.reconnect.session = s]_vars
  <2>1. Progress
    BY <1>1, StepKeeps
  <2>2. CASE UNCHANGED store
    BY <2>2
  <2>3. CASE Advances(daemon, Page, Page')
    <3>1. \A s \in Sessions : RowStep(daemon, Page, Page', s)
      BY <2>3 DEF Advances, RowsStep
    <3>2. Page.st = store /\ Page'.st = store' /\ Page.str = stream
      BY DEF Page
    <3>3. store.tombstones \subseteq Sessions
      BY <1>1, SamePage DEF StoreInv, Stores
    <3>4. QED
      BY <3>1, <3>2, <3>3 DEF RowStep
  <2>4. QED
    BY <2>1, <2>2, <2>3 DEF Progress
<1>2. QED
  BY <1>1, StoreInvHolds, PTL DEF Spec, DeletedStaysDeleted

-----------------------------------------------------------------------------
(* Whole transcripts.                                                      *)

\* A read that was answered at head `a` brings the turns of s up to `a`. Holds is
\* about the others: every turn after `a` that the stream or the cursor of s has
\* passed is in the row, or was given up.
Given(c) == c.lo.jumped \cup c.lo.unsignalled
Passed(c, s, n) == n <= c.str.cursor \/ n <= c.st.cursor[s]
Holds(d, c, s, a) ==
    \A n \in Turns(d, s) :
        n > a /\ Passed(c, s, n) => n \in c.st.rows[s].seen \cup Given(c)

\* Session s is on record as having lost events.
Excused(c, s) ==
    s \in c.lo.overtaken \cup c.lo.crossed \cup c.lo.evicted \cup c.lo.reported

\* A read of session s, or an error to show for it, is still to come.
Pending(c, s) == s \in c.rec.residents \cup c.st.loadError \/ c.ft[s] # Unasked

\* A reconnect will take over a detail it has, unless the stream is faster.
Resuming(c) ==
    /\ c.str.reconnect.active /\ ~c.str.reconnect.superseded
    /\ c.str.reconnect.reply.kind = "detail"

\* It is of the lifetime the daemon is in.
InForce(d, c) == Resuming(c) /\ c.str.reconnect.reply.epoch = d.epoch

\* The row of session s was evicted.
Absent(c, s) == c.st.rows[s] = NoRow /\ c.st.cursor[s] >= 0

\* A session that was ever shown keeps a cursor, and one that is being
\* restored has a read.
Known(c, s) ==
    /\ s \in c.st.hydrated \/ c.st.rows[s] # NoRow => c.st.cursor[s] >= 0
    /\ s \in c.st.restoring => c.ft[s] # Unasked

\* A transcript that shows holds everything passed, or will.
RowWhole(d, c, s) ==
    s \in c.st.hydrated /\ c.st.rows[s] # NoRow =>
        Holds(d, c, s, NoSequence) \/ Pending(c, s) \/ Excused(c, s)

\* What a hydrate read, and the row, hold everything passed.
FetchWhole(d, c, s) ==
    c.ft[s].kind = "detail" =>
        \/ Holds(d, c, s, c.ft[s].row.last)
        \/ s \in c.rec.residents \/ Excused(c, s)

\* So does what a current recovery pass read.
ReplyWhole(d, c, s) ==
    /\ c.rec.current /\ c.rec.reply[s].kind = "detail"
    /\ c.rec.reply[s].epoch = d.epoch
    => Holds(d, c, s, c.rec.reply[s].row.last) \/ Excused(c, s)

\* And what a reconnect read.
ReconnectWhole(d, c, s) ==
    InForce(d, c) /\ c.str.reconnect.session = s =>
        \/ Holds(d, c, s, c.str.reconnect.reply.row.last)
        \/ Pending(c, s) \/ Excused(c, s) \/ Absent(c, s)

\* Session s, unless it is deleted.
WholeAt(d, c, s) ==
    s \notin c.st.tombstones =>
        /\ Known(c, s)
        /\ RowWhole(d, c, s) /\ FetchWhole(d, c, s)
        /\ ReplyWhole(d, c, s) /\ ReconnectWhole(d, c, s)

\* No cursor is beyond the log, and a detail the reconnect will take over is
\* not older than the cursor it resumes from or than a snapshot on its way.
HeadClock(d, c) ==
    /\ c.str.cursor <= Len(d.log)
    /\ \A s \in Sessions : c.st.cursor[s] <= Len(d.log)
FrameClock(d, c) ==
    c.str.frame # NoFrame =>
        c.str.frame.head <= Len(d.log) /\ c.str.frame.after = c.str.cursor
AskedClock(d, c) ==
    /\ c.str.reconnect.active /\ ~c.str.reconnect.superseded
    /\ c.str.reconnect.reply = Asked
    => c.str.reconnect.cursor <= Len(d.log)
ResumeClock(d, c) ==
    InForce(d, c) =>
        /\ c.str.reconnect.cursor <= c.str.reconnect.reply.row.last
        /\ c.str.frame # NoFrame =>
              c.str.frame.head <= c.str.reconnect.reply.row.last

\* A hydrate that was answered is of this lifetime: others were forgotten.
FetchClock(d, c) ==
    \A s \in Sessions : c.ft[s].kind = "detail" => c.ft[s].epoch = d.epoch

Clocks(d, c) ==
    /\ HeadClock(d, c) /\ FrameClock(d, c) /\ AskedClock(d, c)
    /\ ResumeClock(d, c) /\ FetchClock(d, c)

\* The transcripts of the lifetime the page is in, when that is the daemon's.
AllWhole(d, c) == Clocks(d, c) /\ \A s \in Sessions : WholeAt(d, c, s)
FrameUp(c) == c.str.frame # NoFrame => c.str.up
Whole(d, c) == FrameUp(c) /\ (c.st.epoch = d.epoch => AllWhole(d, c))

-----------------------------------------------------------------------------
(* What a step leaves of a session it does not touch. *)

\* What the page has of session s is the same.
Kept(q, c, s) ==
    /\ s \in q.st.tombstones <=> s \in c.st.tombstones
    /\ s \in q.st.hydrated <=> s \in c.st.hydrated
    /\ s \in q.st.restoring <=> s \in c.st.restoring
    /\ s \in q.st.loadError <=> s \in c.st.loadError
    /\ s \in q.rec.residents <=> s \in c.rec.residents
    /\ q.st.rows[s] = c.st.rows[s] /\ q.st.cursor[s] = c.st.cursor[s]
    /\ q.ft[s] = c.ft[s]

\* A recovery read is the one it was, and no pass became current over it.
KeptReply(q, c, s) ==
    \/ q.rec.reply[s] = c.rec.reply[s] /\ (q.rec.current => c.rec.current)
    \/ q.rec.reply[s].kind # "detail"

\* A reconnect that may still settle is the one it was.
KeptResume(q, c) ==
    Resuming(q) => /\ Resuming(c)
                   /\ q.str.reconnect.session = c.str.reconnect.session
                   /\ q.str.reconnect.reply = c.str.reconnect.reply
                   /\ q.str.reconnect.cursor = c.str.reconnect.cursor

\* What was recorded as given up stays recorded.
Wider(q, c) ==
    /\ Given(c) \subseteq Given(q)
    /\ \A s \in Sessions : Excused(c, s) => Excused(q, s)

\* What the cursors pass anew is in the row, or was given up.
Delivered(d, q, c, s) ==
    \A n \in Turns(d, s) :
        Passed(q, s, n) => Passed(c, s, n) \/ n \in q.st.rows[s].seen \cup Given(q)

\* What a transcript holds it goes on to hold while it loses nothing and what
\* is passed anew is in it.
LEMMA HoldsKept ==
    ASSUME NEW d, NEW c, NEW q, NEW s, NEW a, Holds(d, c, s, a),
           c.st.rows[s].seen \subseteq q.st.rows[s].seen,
           Given(c) \subseteq Given(q), Delivered(d, q, c, s)
    PROVE  Holds(d, q, s, a)
BY DEF Holds, Delivered

\* A read that is later leaves less to hold.
LEMMA HoldsLater ==
    ASSUME NEW d, NEW c, NEW s, NEW a \in Int, NEW b \in Int, a <= b, Holds(d, c, s, a)
    PROVE  Holds(d, c, s, b)
<1>1. \A n \in Turns(d, s) : n \in Int
  BY DEF Turns
<1> QED BY <1>1 DEF Holds

\* A session a step leaves alone stays whole.
LEMMA Untouched ==
    ASSUME NEW d, NEW c, NEW q, NEW s \in Sessions, WholeAt(d, c, s),
           Kept(q, c, s), KeptReply(q, c, s), KeptResume(q, c), Wider(q, c),
           Delivered(d, q, c, s)
    PROVE  WholeAt(d, q, s)
<1> SUFFICES ASSUME s \notin q.st.tombstones
             PROVE  /\ Known(q, s)
                    /\ RowWhole(d, q, s) /\ FetchWhole(d, q, s)
                    /\ ReplyWhole(d, q, s) /\ ReconnectWhole(d, q, s)
  BY DEF WholeAt
<1>1. /\ Known(c, s) /\ RowWhole(d, c, s) /\ FetchWhole(d, c, s)
      /\ ReplyWhole(d, c, s) /\ ReconnectWhole(d, c, s)
  BY DEF WholeAt, Kept
<1>2. ASSUME NEW a, Holds(d, c, s, a)
      PROVE  Holds(d, q, s, a)
  BY <1>2, HoldsKept DEF Kept, Wider
<1>3. Excused(c, s) => Excused(q, s)
  BY DEF Wider
<1>4. Pending(c, s) => Pending(q, s)
  BY DEF Pending, Kept
<1>5. Absent(c, s) => Absent(q, s)
  BY DEF Absent, Kept
<1>6. Known(q, s)
  BY <1>1 DEF Known, Kept
<1>7. RowWhole(d, q, s)
  BY <1>1, <1>2, <1>3, <1>4 DEF RowWhole, Kept
<1>8. FetchWhole(d, q, s)
  BY <1>1, <1>2, <1>3 DEF FetchWhole, Kept
<1>9. ReplyWhole(d, q, s)
  BY <1>1, <1>2, <1>3 DEF ReplyWhole, KeptReply
<1>10. ReconnectWhole(d, q, s)
  BY <1>1, <1>2, <1>3, <1>4, <1>5 DEF ReconnectWhole, InForce, KeptResume
<1> QED BY <1>6, <1>7, <1>8, <1>9, <1>10

\* A session that is gone from the page owes nothing.
LEMMA GoneIsWhole ==
    ASSUME NEW d, NEW q, NEW s, s \in q.st.tombstones
    PROVE  WholeAt(d, q, s)
BY DEF WholeAt

\* One step touches one session at most.
LEMMA OthersWhole ==
    ASSUME NEW d, NEW c, NEW q, NEW s, AllWhole(d, c), Clocks(d, q),
           KeptResume(q, c), Wider(q, c),
           \A t \in Sessions \ {s} :
              Kept(q, c, t) /\ KeptReply(q, c, t) /\ Delivered(d, q, c, t),
           s \in Sessions => WholeAt(d, q, s)
    PROVE  AllWhole(d, q)
<1>1. ASSUME NEW t \in Sessions \ {s}
      PROVE  WholeAt(d, q, t)
  BY Untouched DEF AllWhole
<1> QED BY <1>1 DEF AllWhole

\* A step that touches none.
LEMMA NoneTouched ==
    ASSUME NEW d, NEW c, NEW q, AllWhole(d, c), Clocks(d, q),
           KeptResume(q, c), Wider(q, c),
           \A t \in Sessions :
              Kept(q, c, t) /\ KeptReply(q, c, t) /\ Delivered(d, q, c, t)
    PROVE  AllWhole(d, q)
<1>1. ASSUME NEW t \in Sessions
      PROVE  WholeAt(d, q, t)
  BY Untouched DEF AllWhole
<1> QED BY <1>1 DEF AllWhole

\* The clocks of a stream that stands still.
SameClocks(q, c) ==
    /\ q.str.cursor = c.str.cursor
    /\ q.str.frame = c.str.frame \/ q.str.frame = NoFrame
    /\ \/ q.str.reconnect = c.str.reconnect
       \/ ~q.str.reconnect.active
       \/ q.str.reconnect.superseded

\* A stream that stands still has no reconnect in force that it had not.
LEMMA SameClocksResume ==
    ASSUME NEW d, NEW c, NEW q, SameClocks(q, c)
    PROVE  KeptResume(q, c) /\ (InForce(d, q) => InForce(d, c))
BY DEF SameClocks, KeptResume, Resuming, InForce

\* And its clocks stay right, if what is new is not beyond the log.
LEMMA ClocksKept ==
    ASSUME NEW d, NEW c, NEW q, Clocks(d, c), SameClocks(q, c),
           \A s \in Sessions : q.st.cursor[s] = c.st.cursor[s]
                               \/ q.st.cursor[s] <= Len(d.log),
           \A s \in Sessions : q.ft[s].kind = "detail" =>
                               q.ft[s] = c.ft[s] \/ q.ft[s].epoch = d.epoch
    PROVE  Clocks(d, q) /\ KeptResume(q, c)
<1>1. HeadClock(d, q)
  BY DEF Clocks, HeadClock, SameClocks
<1>2. FrameClock(d, q)
  BY DEF Clocks, FrameClock, SameClocks
<1>3. AskedClock(d, q)
  BY DEF Clocks, AskedClock, SameClocks
<1>4. ResumeClock(d, q)
  BY SameClocksResume DEF Clocks, ResumeClock, SameClocks, InForce, Resuming
<1>5. FetchClock(d, q)
  BY DEF Clocks, FetchClock
<1> QED BY <1>1, <1>2, <1>3, <1>4, <1>5, SameClocksResume DEF Clocks

-----------------------------------------------------------------------------
(* The daemon's own steps. *)

\* The daemon wrote to its log, and lives on.
Longer(D, d) ==
    /\ D.epoch = d.epoch /\ Len(D.log) >= Len(d.log)
    /\ \A n \in 1 .. Len(d.log) : D.log[n] = d.log[n]

\* What is written anew to the log is passed by nothing yet.
LEMMA LongerHolds ==
    ASSUME NEW d \in Daemons, NEW D \in Daemons, Longer(D, d), NEW c, HeadClock(d, c),
           c.str.cursor \in Int, NEW s \in Sessions, c.st.cursor[s] \in Int,
           NEW a, Holds(d, c, s, a)
    PROVE  Holds(D, c, s, a)
<1> SUFFICES ASSUME NEW n \in Turns(D, s), n > a, Passed(c, s, n)
             PROVE  n \in c.st.rows[s].seen \cup Given(c)
  BY DEF Holds
<1>1. Len(d.log) \in Nat /\ Len(D.log) \in Nat
  BY DEF Daemons
<1>2. n \in Int /\ n <= Len(d.log)
  BY <1>1 DEF Turns, Passed, HeadClock
<1>3. n \in Turns(d, s)
  BY <1>1, <1>2 DEF Turns, Longer
<1> QED BY <1>3 DEF Holds

\* A transcript stays whole while the daemon writes more: none of it is passed.
LEMMA LongerWhole ==
    ASSUME NEW d, NEW c, NEW D \in Daemons, Inv(d, c), Whole(d, c), Longer(D, d)
    PROVE  Whole(D, c)
<1>1. d \in Daemons /\ c \in Pages
  BY DEF Inv
<1>2. Len(d.log) \in Nat /\ Len(D.log) \in Nat
  BY <1>1 DEF Daemons
<1> SUFFICES ASSUME c.st.epoch = D.epoch
             PROVE  AllWhole(D, c)
  BY DEF Whole
<1>3. AllWhole(d, c) /\ Clocks(d, c) /\ D.epoch = d.epoch /\ Len(D.log) >= Len(d.log)
  BY DEF Whole, Longer, AllWhole
<1>4. /\ c.str.cursor \in Int
      /\ \A s \in Sessions : c.st.cursor[s] \in Int
      /\ c.str.frame = NoFrame \/ c.str.frame.head \in Int
      /\ c.str.reconnect.cursor \in Int
  BY <1>1, PageFields DEF Streams, Stores, Heads, Cursors, Frames, Reconnects
<1>5. Clocks(D, c)
  <2>1. HeadClock(D, c)
    BY <1>2, <1>3, <1>4 DEF Clocks, HeadClock
  <2>2. FrameClock(D, c)
    BY <1>2, <1>3, <1>4 DEF Clocks, FrameClock
  <2>3. AskedClock(D, c)
    BY <1>2, <1>3, <1>4 DEF Clocks, AskedClock
  <2>4. ResumeClock(D, c) /\ FetchClock(D, c)
    BY <1>3 DEF Clocks, ResumeClock, FetchClock, InForce
  <2> QED BY <2>1, <2>2, <2>3, <2>4 DEF Clocks
<1>6. ASSUME NEW s \in Sessions
      PROVE  WholeAt(D, c, s)
  <2>1. WholeAt(d, c, s)
    BY <1>3 DEF AllWhole
  <2>2. \A a : Holds(d, c, s, a) => Holds(D, c, s, a)
    BY <1>1, <1>3, <1>4, LongerHolds DEF Clocks
  <2>3. InForce(D, c) <=> InForce(d, c)
    BY <1>3 DEF InForce
  <2> QED
    BY <1>3, <2>1, <2>2, <2>3
    DEF WholeAt, RowWhole, FetchWhole, ReplyWhole, ReconnectWhole
<1> QED BY <1>5, <1>6 DEF AllWhole

\* A step of the daemon alone leaves the transcripts whole.
LEMMA DaemonOnlyWhole ==
    ASSUME Inv(daemon, Page), Whole(daemon, Page),
           DaemonDoes(daemon, daemon'), PageUnchanged
    PROVE  Whole(daemon', Page')
<1>1. Page' = Page
  BY DEF PageUnchanged, Page
<1>2. CASE daemon'.epoch = daemon.epoch
  <2>1. daemon \in Daemons /\ daemon' \in Daemons
    BY DEF Inv, DaemonDoes
  <2>2. daemon'.epoch # daemon.epoch + 1
    BY <1>2, <2>1 DEF Daemons, Epochs
  <2>3. Longer(daemon', daemon)
    BY <2>2 DEF DaemonDoes, Longer
  <2> QED BY <1>1, <2>1, <2>3, LongerWhole
<1>3. CASE daemon'.epoch # daemon.epoch
  <2>1. daemon'.epoch = daemon.epoch + 1 /\ daemon.epoch \in Int
    BY <1>3 DEF DaemonDoes, Inv, Daemons, Epochs
  <2>2. Page.st.epoch <= daemon.epoch /\ Page.st.epoch \in Int
    BY PageFields DEF Inv, RowsInv, Stores, Epochs
  <2> QED BY <1>1, <2>1, <2>2 DEF Whole
<1> QED BY <1>2, <1>3

\* A restart leaves the page in a lifetime it is not asked about.
LEMMA RestartWhole ==
    ASSUME Inv(daemon, Page), Restart
    PROVE  Whole(daemon', Page')
<1>1. daemon'.epoch = daemon.epoch + 1 /\ daemon.epoch \in Int
  BY SamePage DEF Restart, Daemons, Epochs
<1>2. Page.st.epoch <= daemon.epoch /\ Page.st.epoch \in Int
  BY PageFields DEF Inv, RowsInv, Stores, Epochs
<1>3. Page'.st.epoch = Page.st.epoch
  BY DEF Restart, Page
<1>4. FrameUp(Page')
  BY SamePage DEF Restart, Page, FrameUp, Streams
<1> QED BY <1>1, <1>2, <1>3, <1>4 DEF Whole

\* No step of the daemon breaks a transcript.
LEMMA DaemonStepsWhole ==
    ASSUME Inv(daemon, Page), Whole(daemon, Page), DaemonSteps
    PROVE  Whole(daemon', Page')
BY PublishDoes, DeleteSessionDoes, ForgetEventDoes, DaemonOnlyWhole, RestartWhole
DEF DaemonSteps

-----------------------------------------------------------------------------
(* The stream's connection. *)

\* The page is what the handler made of it.
LEMMA Moves ==
    ASSUME NEW q \in Pages, Becomes(q)
    PROVE  Page' = q
BY PageFields DEF Becomes, Page

\* Cursors that stand still pass nothing.
LEMMA SameDelivered ==
    ASSUME NEW d, NEW c, NEW q, NEW s, q.str.cursor = c.str.cursor,
           q.st.cursor[s] = c.st.cursor[s]
    PROVE  Delivered(d, q, c, s)
BY DEF Delivered, Passed

\* Nothing is lost of what is recorded as given up.
LEMMA SameWider ==
    ASSUME NEW c, NEW q, q.lo = c.lo
    PROVE  Wider(q, c)
BY DEF Wider, Given, Excused

\* Only the stream's own bookkeeping changes.
LEMMA StreamWhole ==
    ASSUME NEW d, NEW c, NEW q, AllWhole(d, c), OnlyStream(q, c), Clocks(d, q),
           KeptResume(q, c), q.str.cursor = c.str.cursor
    PROVE  AllWhole(d, q)
<1>1. Wider(q, c)
  BY SameWider DEF OnlyStream
<1>2. ASSUME NEW t \in Sessions
      PROVE  Kept(q, c, t) /\ KeptReply(q, c, t) /\ Delivered(d, q, c, t)
  BY SameDelivered DEF OnlyStream, Kept, KeptReply
<1> QED BY <1>1, <1>2, NoneTouched

\* A connection that ends takes nothing from a transcript.
LEMMA DownWhole ==
    ASSUME NEW d, NEW c, Inv(d, c), NEW q, q = Down(c)
    PROVE  FrameUp(q) /\ (AllWhole(d, c) => AllWhole(d, q))
<1>1. /\ OnlyStream(q, c) /\ q.str.reconnect = c.str.reconnect
      /\ q.str.cursor = c.str.cursor /\ q.str.frame = NoFrame
  BY DownDoes
<1>2. SameClocks(q, c)
  BY <1>1 DEF SameClocks
<1>3. AllWhole(d, c) => Clocks(d, q) /\ KeptResume(q, c)
  BY <1>1, <1>2, ClocksKept DEF AllWhole, OnlyStream
<1> QED BY <1>1, <1>3, StreamWhole DEF FrameUp

\* Nor does a reconnect that begins: it takes its cursor from the rows.
LEMMA BeginReconnectWhole ==
    ASSUME NEW d \in Daemons, NEW c \in Pages, NEW s \in Sessions,
           NEW q, q = BeginReconnect(c, s)
    PROVE  /\ FrameUp(c) => FrameUp(q)
           /\ AllWhole(d, c) => AllWhole(d, q)
           /\ q \in Pages /\ q.st = c.st
<1>1. /\ OnlyStream(q, c) /\ SameTransport(q.str, c.str)
      /\ \/ q = c /\ c.str.reconnect.active
         \/ /\ ~c.str.reconnect.active
            /\ q.str.reconnect.active /\ ~q.str.reconnect.superseded
            /\ q.str.reconnect.session = s
            /\ q.str.reconnect.cursor = StreamCursor(c)
            /\ q.str.reconnect.reply = Asked
  BY BeginReconnectDoes
<1>2. FrameUp(c) => FrameUp(q)
  BY <1>1 DEF FrameUp, SameTransport
<1>3. ASSUME AllWhole(d, c), q # c
      PROVE  AllWhole(d, q)
  <2>1. Clocks(d, c) /\ HeadClock(d, c) /\ Len(d.log) \in Nat
    BY <1>3 DEF AllWhole, Clocks, Daemons
  <2>2. q.str.reconnect.cursor <= Len(d.log)
    BY <1>1, <1>3, <2>1, StreamCursorIs DEF HeadClock
  <2>3. ~Resuming(q)
    BY <1>1, <1>3, Values DEF Resuming
  <2>4. Clocks(d, q)
    BY <1>1, <2>1, <2>2, <2>3
    DEF Clocks, HeadClock, FrameClock, AskedClock, ResumeClock, FetchClock, InForce,
        OnlyStream, SameTransport
  <2>5. KeptResume(q, c)
    BY <2>3 DEF KeptResume
  <2> QED BY <1>1, <1>3, <2>4, <2>5, StreamWhole DEF SameTransport
<1> QED BY <1>1, <1>2, <1>3 DEF OnlyStream

\* Disconnect leaves the transcripts whole.
LEMMA DisconnectWhole ==
    ASSUME Inv(daemon, Page), Whole(daemon, Page), Disconnect
    PROVE  Whole(daemon', Page')
<1> DEFINE c == Page
           down == Down(c)
<1>1. c = Page /\ down = Down(c) /\ Inv(daemon, c) /\ Whole(daemon, c)
  OBVIOUS
<1>2. store.selected \in Sessions \cup {NoSession}
  BY SamePage DEF Stores
<1>3. \/ Becomes(down)
      \/ \E s \in Sessions : Becomes(BeginReconnect(down, s))
  BY <1>2 DEF Disconnect, Down
<1>4. UNCHANGED daemon /\ daemon \in Daemons
  BY SamePage DEF Disconnect
<1> HIDE DEF c, down
<1>5. /\ FrameUp(down) /\ (AllWhole(daemon, c) => AllWhole(daemon, down))
      /\ down \in Pages /\ down.st = c.st
  BY <1>1, DownWhole, DownDoes DEF OnlyStream
<1>6. CASE Becomes(down)
  BY <1>1, <1>4, <1>5, <1>6, Moves DEF Whole
<1>7. ASSUME NEW s \in Sessions, Becomes(BeginReconnect(down, s))
      PROVE  Whole(daemon', Page')
  <2> DEFINE q == BeginReconnect(down, s)
  <2>1. q = BeginReconnect(down, s) /\ Becomes(q)
    BY <1>7
  <2> HIDE DEF q
  <2>2. /\ FrameUp(q) /\ (AllWhole(daemon, down) => AllWhole(daemon, q))
        /\ q \in Pages /\ q.st = down.st
    BY <1>4, <1>5, <2>1, BeginReconnectWhole
  <2> QED BY <1>1, <1>4, <1>5, <2>1, <2>2, Moves DEF Whole
<1> QED BY <1>3, <1>6, <1>7

\* SwitchTransport leaves the transcripts whole.
LEMMA SwitchTransportWhole ==
    ASSUME Inv(daemon, Page), Whole(daemon, Page), SwitchTransport
    PROVE  Whole(daemon', Page')
<1> DEFINE c == Page
           s == store.selected
           q == BeginReconnect(c, s)
<1>1. /\ c = Page /\ c \in Pages /\ Whole(daemon, c) /\ q = BeginReconnect(c, s)
      /\ daemon \in Daemons
  BY SamePage DEF Inv
<1>2. s \in Sessions /\ Becomes(q) /\ UNCHANGED daemon
  BY SamePage DEF SwitchTransport, Stores
<1> HIDE DEF c, s, q
<1>3. /\ FrameUp(c) => FrameUp(q)
      /\ AllWhole(daemon, c) => AllWhole(daemon, q)
      /\ q \in Pages /\ q.st = c.st
  BY <1>1, <1>2, BeginReconnectWhole
<1> QED BY <1>1, <1>2, <1>3, Moves DEF Whole

\* ReconnectAnswered leaves the transcripts whole: what was just read is all there is.
LEMMA ReconnectAnsweredWhole ==
    ASSUME Inv(daemon, Page), Whole(daemon, Page), ReconnectAnswered
    PROVE  Whole(daemon', Page')
<1> DEFINE c == Page
           d == daemon
<1>1. PICK s \in Sessions : \E a \in Outcomes(s) : \E q \in Pages :
          Becomes(q) /\ Replied(q, c, s, a)
  BY ReconnectAnsweredDoes
<1>2. PICK a \in Outcomes(s), q \in Pages : Becomes(q) /\ Replied(q, c, s, a)
  BY <1>1
<1>3. UNCHANGED daemon /\ d \in Daemons
  BY SamePage, ReconnectAnsweredDoes
<1>4. a \in Answered /\ (a.kind = "detail" => a.epoch = d.epoch /\ a.row.last = Len(d.log))
  BY <1>3, AnswerIs
<1>5. Whole(d, c) /\ c \in Pages
  BY DEF Inv
<1>6. Page' = q
  BY <1>2, Moves
<1> HIDE DEF c, d
<1>7. ASSUME AllWhole(d, c)
      PROVE  AllWhole(d, q)
  <2>1. Clocks(d, c) /\ Len(d.log) \in Nat
    BY <1>3, <1>7 DEF AllWhole, Daemons
  <2>2. ~InForce(d, c)
    BY <1>2, Values DEF Replied, InForce, Resuming
  <2>3. Clocks(d, q)
    <3>1. HeadClock(d, q) /\ FrameClock(d, q) /\ FetchClock(d, q)
      BY <1>2, <2>1
      DEF Clocks, HeadClock, FrameClock, FetchClock, Replied, OnlyStream
    <3>2. AskedClock(d, q)
      BY <1>2, <2>1 DEF Clocks, AskedClock, Replied
    <3>3. ResumeClock(d, q)
      BY <1>2, <1>4, <2>1
      DEF Clocks, ResumeClock, AskedClock, FrameClock, InForce, Resuming, Replied
    <3> QED BY <3>1, <3>2, <3>3 DEF Clocks
  <2>4. Wider(q, c)
    BY <1>2, SameWider DEF Replied, OnlyStream
  <2>5. ASSUME NEW t \in Sessions
        PROVE  /\ Kept(q, c, t) /\ KeptReply(q, c, t) /\ Delivered(d, q, c, t)
    BY <1>2, SameDelivered DEF Replied, OnlyStream, Kept, KeptReply
  <2>6. ASSUME NEW t \in Sessions
        PROVE  WholeAt(d, q, t)
    <3>1. WholeAt(d, c, t)
      BY <1>7 DEF AllWhole
    <3>2. ReconnectWhole(d, q, t)
      <4>1. SUFFICES ASSUME InForce(d, q), q.str.reconnect.session = t
                     PROVE  Holds(d, q, t, a.row.last)
        BY <1>2 DEF ReconnectWhole, Replied
      <4>2. a.kind = "detail" /\ a.row.last = Len(d.log)
        BY <1>2, <1>4, <4>1 DEF Replied, InForce, Resuming
      <4>3. q.str.cursor \in Int /\ q.st.cursor[t] \in Int
        BY PageFields DEF Streams, Stores, Heads, Cursors
      <4>4. \A n \in Turns(d, t) : n \in Int
        BY DEF Turns
      <4> QED BY <2>1, <2>3, <4>2, <4>3, <4>4 DEF Holds, Passed, Clocks, HeadClock
    <3>3. \A x : Holds(d, c, t, x) => Holds(d, q, t, x)
      BY <2>4, <2>5, HoldsKept DEF Kept, Wider
    <3>4. (Pending(c, t) => Pending(q, t)) /\ (Excused(c, t) => Excused(q, t))
      BY <2>4, <2>5 DEF Pending, Wider, Kept
    <3> QED
      BY <2>5, <3>1, <3>2, <3>3, <3>4
      DEF WholeAt, Known, RowWhole, FetchWhole, ReplyWhole, Kept, KeptReply
  <2> QED BY <2>3, <2>6 DEF AllWhole
<1>8. FrameUp(c) => FrameUp(q)
  BY <1>2 DEF FrameUp, Replied
<1>9. q.st = c.st
  BY <1>2 DEF Replied, OnlyStream
<1> QED BY <1>3, <1>5, <1>6, <1>7, <1>8, <1>9 DEF Whole, d

\* A pass that goes on or starts asks for nothing it has an answer to already.
LEMMA PassReplies ==
    ASSUME NEW q, NEW c, PassInv(c.rec), q.rec.reply = c.rec.reply,
           SamePass(q.rec, c.rec) \/ Begun(q.rec, c.rec), NEW t \in Sessions
    PROVE  KeptReply(q, c, t)
<1>1. CASE SamePass(q.rec, c.rec)
  BY <1>1 DEF SamePass, KeptReply
<1>2. CASE Begun(q.rec, c.rec)
  <2>1. c.rec.reply[t] = Unasked
    BY <1>2 DEF Begun, PassInv
  <2> QED BY <2>1, Values DEF KeptReply
<1> QED BY <1>1, <1>2

\* A connection that is made supersedes the reconnect, and takes nothing.
LEMMA UpWhole ==
    ASSUME NEW d, NEW c, Inv(d, c), AllWhole(d, c), NEW q, q = Up(c)
    PROVE  AllWhole(d, q)
<1>1. /\ ConnectedAs(q, c) /\ SameTranscripts(q.st, c.st) /\ q.lo = c.lo
      /\ q.str.cursor = c.str.cursor /\ q.str.frame = c.str.frame
      /\ q.str.reconnect.active => q.str.reconnect.superseded
  BY UpDoes DEF Inv
<1>2. SameClocks(q, c)
  BY <1>1 DEF SameClocks
<1>3. Clocks(d, q) /\ KeptResume(q, c)
  BY <1>1, <1>2, ClocksKept DEF AllWhole, ConnectedAs
<1>4. ASSUME NEW t \in Sessions
      PROVE  /\ Kept(q, c, t) /\ KeptReply(q, c, t) /\ Delivered(d, q, c, t)
  <2>1. KeptReply(q, c, t)
    BY <1>1, PassReplies DEF Inv, Cover, ConnectedAs, SameObligations, SameWork
  <2>2. Delivered(d, q, c, t)
    BY <1>1, SameDelivered DEF ConnectedAs
  <2> QED
    BY <1>1, <2>1, <2>2
    DEF Kept, ConnectedAs, SameTranscripts, SameObligations, SameWork
<1> QED BY <1>1, <1>3, <1>4, NoneTouched, SameWider

\* A page that took over another lifetime: nothing it knew means anything.
Forgotten(q, c, e) ==
    /\ q \in Pages /\ q.str = c.str /\ q.st.epoch = e
    /\ q.st.hydrated = {} /\ q.st.restoring = {} /\ q.lo = NoLoss
    /\ \A s \in Sessions : /\ q.st.rows[s] = NoRow /\ q.st.cursor[s] = -1
                           /\ q.ft[s] = Unasked
                           /\ ~q.rec.current \/ q.rec.reply[s] = Unasked

\* A new lifetime forgets the old one.
LEMMA EpochChangeForgets ==
    ASSUME NEW c \in Pages, Cover(c), NEW e \in Epochs, c.st.epoch # e,
           NEW q, q = ApplyEpochChange(c, e)
    PROVE  Forgotten(q, c, e)
<1> DEFINE p == Renewed(c, e)
<1>1. p = Renewed(c, e) /\ q = QueueRecovery(p, c.st.hydrated, Directories)
  BY EpochChangeDoes
<1> HIDE DEF p
<1>2. /\ p \in Pages /\ p.str = c.str /\ p.lo = NoLoss
      /\ p.ft = [s \in Sessions |-> Unasked]
      /\ p.st = RenewedStore(c.st, e)
      /\ p.rec = RenewedWork(c.rec, c.lo.overtaken)
  BY <1>1, RenewedDoes
<1>3. c.st.hydrated \in SUBSET Sessions /\ c.st \in Stores /\ c.rec \in Recoveries
      /\ c.lo.overtaken \in SUBSET Sessions
  BY PageFields DEF Stores, Loss
<1>4. /\ p.st.epoch = e /\ p.st.hydrated = {} /\ p.st.restoring = {}
      /\ \A s \in Sessions : p.st.rows[s] = NoRow /\ p.st.cursor[s] = -1
  BY <1>2, <1>3, RenewedStoreFields
<1>5. ~p.rec.current /\ p.rec.reply = c.rec.reply /\ p.rec.stage = c.rec.stage
  BY <1>2, <1>3, RenewedWorkFields
<1>6. \A s \in Sessions : p.ft[s] = Unasked
  BY <1>2
<1>7. CASE c.st.hydrated \cup Directories = {}
  <2>1. q = p
    BY <1>1, <1>7 DEF QueueRecovery
  <2> QED BY <1>2, <1>4, <1>5, <1>6, <2>1 DEF Forgotten
<1>8. CASE c.st.hydrated \cup Directories # {}
  <2>1. OnlySignal(q, p, c.st.hydrated, Directories)
    BY <1>1, <1>2, <1>3, <1>8, QueueDoes
  <2>2. SignalledWork(q.rec, p.rec, c.st.hydrated, Directories)
    BY <1>1, <1>2, <1>3, <1>8, QueueWork
  <2>3. ASSUME NEW s \in Sessions
        PROVE  ~q.rec.current \/ q.rec.reply[s] = Unasked
    <3>1. CASE Begun(q.rec, p.rec)
      BY <1>5, <2>2, <3>1 DEF Begun, SignalledWork, Cover, PassInv
    <3> QED BY <2>2, <3>1 DEF SignalledWork
  <2>4. /\ q \in Pages /\ q.str = p.str /\ q.st = p.st /\ q.ft = p.ft /\ q.lo = p.lo
    BY <2>1 DEF OnlySignal
  <2> QED BY <1>2, <1>4, <1>6, <2>3, <2>4 DEF Forgotten
<1> QED BY <1>7, <1>8

\* A page that forgot everything owes nothing.
LEMMA ForgottenWhole ==
    ASSUME NEW d, NEW c, NEW e, NEW q, Forgotten(q, c, e), ~Resuming(q)
    PROVE  \A s \in Sessions : WholeAt(d, q, s)
<1> TAKE s \in Sessions
<1>1. Known(q, s)
  BY DEF Known, Forgotten
<1>2. RowWhole(d, q, s) /\ FetchWhole(d, q, s)
  BY Values DEF RowWhole, FetchWhole, Forgotten
<1>3. ReplyWhole(d, q, s)
  BY Values DEF ReplyWhole, Forgotten
<1>4. ReconnectWhole(d, q, s)
  BY DEF ReconnectWhole, InForce
<1> QED BY <1>1, <1>2, <1>3, <1>4 DEF WholeAt

\* A frame on the stream changes nothing else.
LEMMA FramedDoes ==
    ASSUME NEW b \in Pages, NEW frame \in Frames, NEW q, q = WithFrame(b, frame)
    PROVE  /\ OnlyStream(q, b) /\ q.str.frame = frame /\ (b.str.up => q.str.up)
           /\ q.str.cursor = b.str.cursor /\ q.str.reconnect = b.str.reconnect
<1> DEFINE str == [b.str EXCEPT !.frame = frame]
<1>1. b.str \in Streams
  BY PageFields
<1>2. /\ str \in Streams /\ str.frame = frame /\ (b.str.up => str.up)
      /\ str.cursor = b.str.cursor /\ str.reconnect = b.str.reconnect
  BY <1>1 DEF Streams
<1>3. q = [b EXCEPT !.str = str]
  BY DEF WithFrame
<1> HIDE DEF str
<1>4. OnlyStream(q, b) /\ q.str = str
  BY <1>2, <1>3, NewStream
<1> QED BY <1>2, <1>4

\* A resync frame waits on a stream whose reconnect was superseded.
LEMMA FramedWhole ==
    ASSUME daemon \in Daemons, NEW b \in Pages, NEW after, after = b.str.cursor,
           NEW f \in Frames, f \in ResyncFrames(after),
           b.str.up, b.str.reconnect.active => b.str.reconnect.superseded,
           NEW q, q = WithFrame(b, f)
    PROVE  /\ q \in Pages /\ FrameUp(q) /\ q.st.epoch = b.st.epoch
           /\ AllWhole(daemon, b) => AllWhole(daemon, q)
<1>1. /\ OnlyStream(q, b) /\ q.str.frame = f /\ (b.str.up => q.str.up)
      /\ q.str.cursor = b.str.cursor /\ q.str.reconnect = b.str.reconnect
  BY FramedDoes
<1>2. f.head = Len(daemon.log) /\ f.after = after /\ Len(daemon.log) \in Nat
  BY DEF ResyncFrames, LogHead, Daemons
<1>3. ASSUME AllWhole(daemon, b)
      PROVE  AllWhole(daemon, q)
  <2>1. ~Resuming(q)
    BY <1>1 DEF Resuming
  <2>2. Clocks(daemon, q)
    BY <1>1, <1>2, <1>3, <2>1
    DEF AllWhole, Clocks, HeadClock, FrameClock, AskedClock, ResumeClock, FetchClock,
        InForce, OnlyStream
  <2>3. KeptResume(q, b)
    BY <2>1 DEF KeptResume
  <2> QED BY <1>1, <1>3, <2>2, <2>3, StreamWhole
<1> QED BY <1>1, <1>3 DEF OnlyStream, FrameUp

\* A resync that no session can show is passed over.
LEMMA SkippedWhole ==
    ASSUME NEW d \in Daemons, NEW b \in Pages, NEW head, head = Len(d.log),
           head \in Heads, NEW cursor \in Heads, cursor = b.str.cursor,
           b.str.frame = NoFrame,
           b.str.reconnect.active => b.str.reconnect.superseded,
           NEW q, q = Skipped(b, head, cursor)
    PROVE  /\ q \in Pages /\ FrameUp(q) /\ q.st = b.st
           /\ AllWhole(d, b) => AllWhole(d, q)
<1>1. /\ q \in Pages /\ q.st = b.st /\ q.rec = b.rec /\ q.ft = b.ft
      /\ q.str.reconnect = b.str.reconnect /\ q.lo.overtaken = b.lo.overtaken
      /\ q.str.cursor = head /\ q.str.frame = NoFrame
      /\ q.lo.jumped = b.lo.jumped /\ q.lo.crossed = b.lo.crossed
      /\ q.lo.evicted = b.lo.evicted /\ q.lo.reported = b.lo.reported
      /\ q.lo.unsignalled = b.lo.unsignalled \cup (cursor + 1) .. head
  BY SkippedDoes
<1>2. Len(d.log) \in Nat /\ cursor \in Int
  BY DEF Daemons, Heads
<1>3. ASSUME AllWhole(d, b)
      PROVE  AllWhole(d, q)
  <2>1. ~Resuming(q)
    BY <1>1 DEF Resuming
  <2>2. Clocks(d, q)
    <3>1. Clocks(d, b)
      BY <1>3 DEF AllWhole
    <3>2. HeadClock(d, q) /\ FrameClock(d, q)
      BY <1>1, <1>2, <3>1 DEF Clocks, HeadClock, FrameClock
    <3>3. AskedClock(d, q) /\ ResumeClock(d, q) /\ FetchClock(d, q)
      BY <1>1, <2>1, <3>1 DEF Clocks, AskedClock, ResumeClock, FetchClock, InForce
    <3> QED BY <3>2, <3>3 DEF Clocks
  <2>3. KeptResume(q, b)
    BY <2>1 DEF KeptResume
  <2>4. Wider(q, b)
    BY <1>1 DEF Wider, Given, Excused
  <2>5. ASSUME NEW t \in Sessions
        PROVE  /\ Kept(q, b, t) /\ KeptReply(q, b, t) /\ Delivered(d, q, b, t)
    <3>1. Kept(q, b, t) /\ KeptReply(q, b, t)
      BY <1>1 DEF Kept, KeptReply
    <3>2. ASSUME NEW n \in Turns(d, t), Passed(q, t, n), ~Passed(b, t, n)
          PROVE  n \in Given(q)
      <4>1. n \in Int
        BY DEF Turns
      <4>2. ~(n <= cursor) /\ n <= head
        BY <1>1, <3>2 DEF Passed
      <4>3. n \in (cursor + 1) .. head
        BY <1>2, <4>1, <4>2
      <4> QED BY <1>1, <4>3 DEF Given
    <3> QED BY <3>1, <3>2 DEF Delivered
  <2> QED BY <1>3, <2>2, <2>3, <2>4, <2>5, NoneTouched
<1> QED BY <1>1, <1>3 DEF FrameUp

\* Connect leaves the transcripts whole.
LEMMA ConnectWhole ==
    ASSUME Inv(daemon, Page), Whole(daemon, Page), Connect
    PROVE  Whole(daemon', Page')
<1> DEFINE c == Page
           d == daemon
           head == LogHead
           cursor == stream.cursor
           up == Up(c)
           at == AtHead(up, d.epoch, head)
           moved == ApplyEpochChange(at, d.epoch)
           skipped == Skipped(up, head, cursor)
<1>1. /\ c = Page /\ d = daemon /\ up = Up(c) /\ at = AtHead(up, d.epoch, head)
      /\ moved = ApplyEpochChange(at, d.epoch)
      /\ skipped = Skipped(up, head, cursor)
      /\ Inv(d, c) /\ Whole(d, c) /\ c \in Pages /\ d \in Daemons
      /\ head = Len(d.log) /\ head = LogHead /\ cursor = stream.cursor
      /\ Len(d.log) \in Nat
  BY SamePage DEF Inv, LogHead, Daemons
<1>2. head \in Heads /\ d.epoch \in Epochs
  BY SamePage, StoreAssumption DEF Daemons, LogHead, Heads
<1>3. /\ cursor \in Heads /\ c.str.epoch = stream.epoch /\ c.str.cursor = cursor
      /\ ~c.str.up
  BY SamePage DEF Streams, Connect
<1>4. /\ UNCHANGED daemon
      /\ \/ Becomes(up)
         \/ \E f \in ResyncFrames(cursor) : Becomes(WithFrame(up, f))
         \/ Becomes(skipped)
         \/ /\ stream.epoch # d.epoch
            /\ \/ \E f \in ResyncFrames(head) : Becomes(WithFrame(moved, f))
               \/ Becomes(moved)
  BY ConnectIs
<1>5. \A f \in ResyncFrames(cursor) \cup ResyncFrames(head) : f \in Frames
  BY <1>2, <1>3, SamePage, FramesTyped
<1> HIDE DEF c, d, up, at, moved, skipped, head, cursor
<1>6. /\ up \in Pages /\ Cover(up) /\ up.st.epoch = c.st.epoch /\ up.str.up
      /\ up.str.epoch = c.str.epoch /\ up.str.cursor = cursor /\ up.str.frame = NoFrame
      /\ up.str.reconnect.active => up.str.reconnect.superseded
      /\ AllWhole(d, c) => AllWhole(d, up)
  <2>1. /\ ConnectedAs(up, c) /\ up.str.up /\ up.str.frame = c.str.frame
        /\ up.str.epoch = c.str.epoch /\ up.str.cursor = c.str.cursor
        /\ up.str.reconnect.active => up.str.reconnect.superseded
    BY <1>1, UpDoes
  <2>2. Cover(up)
    BY <1>1, <2>1, CoverKept DEF ConnectedAs, Inv
  <2>3. c.str.frame = NoFrame
    BY <1>1, <1>3 DEF Whole, FrameUp
  <2>4. AllWhole(d, c) => AllWhole(d, up)
    BY <1>1, UpWhole
  <2> QED BY <1>3, <2>1, <2>2, <2>3, <2>4 DEF ConnectedAs
<1>7. CASE Becomes(up)
  BY <1>1, <1>4, <1>6, <1>7, Moves DEF Whole, FrameUp
<1>8. ASSUME NEW f \in ResyncFrames(cursor), Becomes(WithFrame(up, f))
      PROVE  Whole(daemon', Page')
  <2> DEFINE q == WithFrame(up, f)
  <2>1. q = WithFrame(up, f) /\ Becomes(q) /\ f \in Frames
    BY <1>5, <1>8
  <2> HIDE DEF q
  <2>2. /\ q \in Pages /\ FrameUp(q) /\ q.st.epoch = up.st.epoch
        /\ AllWhole(d, up) => AllWhole(d, q)
    BY <1>1, <1>6, <1>8, <2>1, FramedWhole
  <2> QED BY <1>1, <1>4, <1>6, <2>1, <2>2, Moves DEF Whole
<1>9. CASE Becomes(skipped)
  <2>1. /\ d \in Daemons /\ head = Len(d.log) /\ head \in Heads /\ cursor \in Heads
        /\ up \in Pages /\ cursor = up.str.cursor /\ up.str.frame = NoFrame
        /\ skipped = Skipped(up, head, cursor)
        /\ up.str.reconnect.active => up.str.reconnect.superseded
    BY <1>1, <1>2, <1>3, <1>6
  <2>2. /\ skipped \in Pages /\ FrameUp(skipped) /\ skipped.st = up.st
        /\ AllWhole(d, up) => AllWhole(d, skipped)
    BY <2>1, SkippedWhole
  <2> QED BY <1>1, <1>4, <1>6, <1>9, <2>2, Moves DEF Whole
<1>10. ASSUME stream.epoch # d.epoch
       PROVE  /\ moved \in Pages /\ moved.str.up /\ moved.str.cursor = head
              /\ moved.str.reconnect.active => moved.str.reconnect.superseded
              /\ FrameUp(moved) /\ AllWhole(d, moved)
  <2>1. /\ OnlyStream(at, up) /\ at.str.reconnect = up.str.reconnect
        /\ at.str.cursor = head /\ at.str.frame = NoFrame /\ at.str.up
    <3>1. up \in Pages /\ at = AtHead(up, d.epoch, head)
      BY <1>1, <1>6
    <3>2. /\ OnlyStream(at, up) /\ at.str.reconnect = up.str.reconnect
          /\ at.str.cursor = head /\ at.str.frame = up.str.frame
      BY <1>2, <3>1, AtHeadDoes
    <3>3. up.str.up => at.str.up
      BY <1>2, <3>1, AtHeadDoes
    <3> QED BY <1>6, <3>2, <3>3
  <2>2. Cover(at) /\ at \in Pages /\ at.st.epoch # d.epoch
    <3>1. at.st = up.st /\ at.rec = up.rec /\ at.ls = up.ls /\ at.lo = up.lo
      BY <2>1 DEF OnlyStream
    <3>2. Cover(at)
      BY <1>6, <3>1 DEF Cover, SessionsCovered, DirectoriesCovered
    <3>3. c.st.epoch # d.epoch
      BY <1>1, <1>3, <1>10 DEF Inv, RowsInv
    <3> QED BY <1>6, <2>1, <3>1, <3>2, <3>3 DEF OnlyStream
  <2>3. Forgotten(moved, at, d.epoch)
    BY <1>1, <1>2, <2>2, EpochChangeForgets
  <2>4. ~Resuming(moved)
    BY <1>6, <2>1, <2>3 DEF Resuming, Forgotten
  <2>5. \A s \in Sessions : WholeAt(d, moved, s)
    BY <2>3, <2>4, ForgottenWhole
  <2>6. Len(d.log) \in Nat
    BY <1>1
  <2>7. Clocks(d, moved)
    <3>0. /\ moved.str.cursor = Len(d.log) /\ moved.str.frame = NoFrame
          /\ \A s \in Sessions : moved.st.cursor[s] = -1
      BY <1>1, <2>1, <2>3 DEF Forgotten
    <3>1. HeadClock(d, moved) /\ FrameClock(d, moved)
      BY <2>6, <3>0 DEF HeadClock, FrameClock
    <3>2. AskedClock(d, moved) /\ ResumeClock(d, moved)
      BY <1>6, <2>1, <2>3, <2>4 DEF AskedClock, ResumeClock, InForce, Forgotten
    <3>3. FetchClock(d, moved)
      BY <2>3, Values DEF FetchClock, Forgotten
    <3> QED BY <3>1, <3>2, <3>3 DEF Clocks
  <2> QED BY <1>6, <2>1, <2>3, <2>5, <2>7 DEF Forgotten, FrameUp, AllWhole
<1>11. CASE stream.epoch # d.epoch /\ Becomes(moved)
  BY <1>1, <1>4, <1>10, <1>11, Moves DEF Whole
<1>12. ASSUME stream.epoch # d.epoch, NEW f \in ResyncFrames(head),
              Becomes(WithFrame(moved, f))
       PROVE  Whole(daemon', Page')
  <2> DEFINE q == WithFrame(moved, f)
  <2>1. q = WithFrame(moved, f) /\ Becomes(q) /\ f \in Frames
    BY <1>5, <1>12
  <2> HIDE DEF q
  <2>2. /\ q \in Pages /\ FrameUp(q)
        /\ AllWhole(d, moved) => AllWhole(d, q)
    BY <1>1, <1>10, <1>12, <2>1, FramedWhole
  <2> QED BY <1>1, <1>4, <1>10, <1>12, <2>1, <2>2, Moves DEF Whole
<1> QED BY <1>4, <1>7, <1>8, <1>9, <1>11, <1>12

-----------------------------------------------------------------------------
(* A resync snapshot, and events. *)

\* The page that took a frame and looked at its resync, or did not.
Looked(o, c, f) ==
    /\ o \in Pages /\ o.st = c.st /\ o.ft = c.ft
    /\ o.str.reconnect = c.str.reconnect
    /\ o.str.cursor = f.head /\ o.str.frame = NoFrame
    /\ o.lo.jumped = c.lo.jumped /\ o.lo.overtaken = c.lo.overtaken
    /\ o.lo.evicted = c.lo.evicted /\ o.lo.reported = c.lo.reported

\* No one looked at it: what it skips is recorded.
LookedAway(o, c, f) ==
    /\ o.rec = c.rec /\ o.lo.crossed = c.lo.crossed
    /\ o.lo.unsignalled = c.lo.unsignalled \cup (f.after + 1) .. f.head

\* It was looked at: the hydrated sessions are read again.
LookedAt(o, c) ==
    /\ o.lo.unsignalled = c.lo.unsignalled
    /\ o.lo.crossed = c.lo.crossed \cup Crossed(c)
    /\ o.rec.reply = c.rec.reply
    /\ o.rec.residents = c.rec.residents \cup c.st.hydrated
    /\ \/ c.st.hydrated \cup Directories = {} /\ o.rec.current = c.rec.current
       \/ ~o.rec.current
       \/ Begun(o.rec, c.rec)

\* What ObserveResync does to the losses and to the obligations.
LEMMA LookedDoes ==
    ASSUME NEW c \in Pages, NEW f, f.after \in Heads, f.head \in Heads,
           NEW t, t = Taken(c, f), NEW o, o = ObserveResync(t, f)
    PROVE  Looked(o, c, f) /\ (LookedAway(o, c, f) \/ LookedAt(o, c))
<1>1. /\ OnlyStream(t, c) /\ t.str.reconnect = c.str.reconnect
      /\ t.str.cursor = f.head /\ t.str.frame = NoFrame
  BY TakenDoes
<1>2. t \in Pages /\ Crossed(t) = Crossed(c)
  BY <1>1 DEF OnlyStream, Crossed
<1>3. CASE t.str.kind = "reconnect" /\ ~t.str.resyncObserved
  <2> DEFINE p == Marked(t)
             hydrated == t.st.hydrated
  <2>1. p = Marked(t) /\ o = QueueRecovery(p, hydrated, Directories)
    BY <1>3 DEF ObserveResync, Marked
  <2>2. hydrated \in SUBSET Sessions /\ hydrated = c.st.hydrated
    BY <1>1, <1>2, PageFields DEF Stores, OnlyStream
  <2> HIDE DEF p, hydrated
  <2>3. /\ NotesOnly(p, t)
        /\ p.str.cursor = t.str.cursor /\ p.str.frame = t.str.frame
        /\ p.lo.jumped = t.lo.jumped /\ p.lo.unsignalled = t.lo.unsignalled
        /\ p.lo.evicted = t.lo.evicted /\ p.lo.reported = t.lo.reported
        /\ p.lo.crossed = t.lo.crossed \cup Crossed(t)
    BY <1>2, <2>1, MarkedDoes
  <2>4. CASE hydrated \cup Directories = {}
    <3>1. o = p
      BY <2>1, <2>4 DEF QueueRecovery
    <3> QED
      BY <1>1, <1>2, <2>2, <2>3, <2>4, <3>1
      DEF NotesOnly, OnlyStream, Looked, LookedAt
  <2>5. CASE hydrated \cup Directories # {}
    <3>1. p \in Pages
      BY <2>3 DEF NotesOnly
    <3>2. OnlySignal(o, p, hydrated, Directories)
      BY <2>1, <2>2, <2>5, <3>1, QueueDoes
    <3>3. SignalledWork(o.rec, p.rec, hydrated, Directories)
      BY <2>1, <2>2, <2>5, <3>1, QueueWork
    <3>4. o \in Pages /\ o.st = p.st /\ o.str = p.str /\ o.ft = p.ft /\ o.lo = p.lo
      BY <3>2 DEF OnlySignal
    <3>5. /\ o.rec.residents = p.rec.residents \cup hydrated
          /\ o.rec.reply = p.rec.reply
          /\ ~o.rec.current \/ Begun(o.rec, p.rec)
      BY <3>3 DEF SignalledWork
    <3> QED
      BY <1>1, <1>2, <2>2, <2>3, <3>4, <3>5
      DEF NotesOnly, OnlyStream, Looked, LookedAt
  <2> QED BY <2>4, <2>5
<1>4. CASE ~(t.str.kind = "reconnect" /\ ~t.str.resyncObserved)
  <2>1. o = Unseen(t, f)
    BY <1>4 DEF ObserveResync, Unseen
  <2>2. /\ NotesOnly(o, t)
        /\ o.str.cursor = t.str.cursor /\ o.str.frame = t.str.frame
        /\ o.lo.jumped = t.lo.jumped /\ o.lo.crossed = t.lo.crossed
        /\ o.lo.evicted = t.lo.evicted /\ o.lo.reported = t.lo.reported
        /\ o.lo.unsignalled = t.lo.unsignalled \cup (f.after + 1) .. f.head
    BY <1>2, <2>1, UnseenDoes
  <2> QED
    BY <1>1, <2>2 DEF NotesOnly, OnlyStream, Looked, LookedAway
<1> QED BY <1>3, <1>4

\* The clocks of a stream whose cursor went to the head of its frame.
LEMMA LookedClocks ==
    ASSUME NEW d, NEW c, Clocks(d, c), NEW f, f = c.str.frame, f # NoFrame,
           NEW o, Looked(o, c, f)
    PROVE  Clocks(d, o) /\ KeptResume(o, c)
<1>1. HeadClock(d, o) /\ FrameClock(d, o)
  BY DEF Clocks, HeadClock, FrameClock, Looked
<1>2. AskedClock(d, o) /\ ResumeClock(d, o) /\ FetchClock(d, o)
  BY DEF Clocks, AskedClock, ResumeClock, FetchClock, InForce, Resuming, Looked
<1>3. KeptResume(o, c)
  BY DEF KeptResume, Resuming, Looked
<1> QED BY <1>1, <1>2, <1>3 DEF Clocks

\* A resync no one looks at gives up what it skips.
LEMMA LookedAwayWhole ==
    ASSUME NEW d, NEW c \in Pages, AllWhole(d, c), NEW f \in Frames,
           f = c.str.frame, f # NoFrame,
           NEW o, Looked(o, c, f), LookedAway(o, c, f)
    PROVE  AllWhole(d, o)
<1>1. Clocks(d, c) /\ Clocks(d, o) /\ KeptResume(o, c)
  BY LookedClocks DEF AllWhole
<1>2. Wider(o, c)
  BY DEF Wider, Given, Excused, Looked, LookedAway
<1>3. f.after = c.str.cursor /\ f.after \in Int /\ f.head \in Int
  BY <1>1 DEF Clocks, FrameClock, Frames, Heads
<1>4. ASSUME NEW t \in Sessions
      PROVE  Kept(o, c, t) /\ KeptReply(o, c, t) /\ Delivered(d, o, c, t)
  <2>1. Kept(o, c, t) /\ KeptReply(o, c, t)
    BY DEF Kept, KeptReply, Looked, LookedAway
  <2>2. ASSUME NEW n \in Turns(d, t), Passed(o, t, n), ~Passed(c, t, n)
        PROVE  n \in Given(o)
    <3>1. n \in Int
      BY DEF Turns
    <3>2. n \in (f.after + 1) .. f.head
      BY <1>3, <2>2, <3>1 DEF Passed, Looked
    <3> QED BY <3>2 DEF Given, LookedAway
  <2> QED BY <2>1, <2>2 DEF Delivered
<1> QED BY <1>1, <1>2, <1>4, NoneTouched

\* A resync that is looked at has every resident read again, and notes the
\* reads it crosses.
LEMMA LookedAtWhole ==
    ASSUME NEW d, NEW c \in Pages, AllWhole(d, c), PassInv(c.rec), NEW f \in Frames,
           f = c.str.frame, f # NoFrame, d \in Daemons,
           NEW o, Looked(o, c, f), LookedAt(o, c)
    PROVE  AllWhole(d, o)
<1>1. Clocks(d, c) /\ Clocks(d, o) /\ KeptResume(o, c)
  BY LookedClocks DEF AllWhole
<1>2. Wider(o, c)
  BY DEF Wider, Given, Excused, Looked, LookedAt
<1> SUFFICES ASSUME NEW s \in Sessions, s \notin o.st.tombstones
             PROVE  WholeAt(d, o, s)
  BY <1>1, GoneIsWhole DEF AllWhole
<1>3. Known(c, s) /\ ReconnectWhole(d, c, s)
  BY DEF AllWhole, WholeAt, Looked
<1>4. Known(o, s)
  BY <1>3 DEF Known, Looked
<1>5. RowWhole(d, o, s)
  BY DEF RowWhole, Pending, Looked, LookedAt
<1>6. FetchWhole(d, o, s)
  BY DEF FetchWhole, Excused, Looked, LookedAt, Crossed
<1>7. ReplyWhole(d, o, s)
  <2>1. CASE c.st.hydrated \cup Directories = {}
    BY <2>1 DEF ReplyWhole, Excused, Looked, LookedAt, Crossed
  <2>2. CASE Begun(o.rec, c.rec)
    <3>1. o.rec.reply[s] = Unasked
      BY <2>2 DEF Begun, PassInv, LookedAt
    <3> QED BY <3>1, Values DEF ReplyWhole
  <2> QED BY <2>1, <2>2 DEF ReplyWhole, LookedAt
<1>8. ReconnectWhole(d, o, s)
  <2> SUFFICES ASSUME InForce(d, o), o.str.reconnect.session = s
               PROVE  \/ Holds(d, o, s, o.str.reconnect.reply.row.last)
                      \/ Pending(o, s) \/ Excused(o, s) \/ Absent(o, s)
    BY DEF ReconnectWhole
  <2> DEFINE last == c.str.reconnect.reply.row.last
  <2>1. InForce(d, c) /\ c.str.reconnect.session = s
        /\ o.str.reconnect.reply.row.last = last
    BY DEF InForce, Resuming, Looked
  <2>2. f.head <= last
    BY <1>1, <2>1 DEF Clocks, ResumeClock
  <2>3. last \in Int /\ f.head \in Int
    <3>1. c.str.reconnect \in Reconnects
      BY PageFields DEF Streams
    <3> QED BY <3>1 DEF Reconnects, Answered, Reads, Row, Frames, Heads
  <2> HIDE DEF last
  <2>4. Holds(d, c, s, last) => Holds(d, o, s, last)
    <3> SUFFICES ASSUME Holds(d, c, s, last), NEW n \in Turns(d, s), n > last,
                        Passed(o, s, n)
                 PROVE  n \in o.st.rows[s].seen \cup Given(o)
      BY DEF Holds
    <3>1. n \in Int
      BY DEF Turns
    <3>2. Passed(c, s, n)
      BY <2>2, <2>3, <3>1 DEF Passed, Looked
    <3> QED BY <1>2, <3>2 DEF Holds, Wider, Looked
  <2> QED
    BY <1>2, <1>3, <2>1, <2>4
    DEF ReconnectWhole, Pending, Wider, Absent, Looked, LookedAt
<1> QED BY <1>4, <1>5, <1>6, <1>7, <1>8 DEF WholeAt

\* A snapshot moves no stream, and no lifetime.
LEMMA SnapshotDoes ==
    ASSUME NEW c \in Pages, NEW s \in Sessions, NEW head \in Heads,
           NEW q, q = ApplySnapshot(c, s, head)
    PROVE  q \in Pages /\ q.st.epoch = c.st.epoch /\ q.str = c.str
<1>1. CASE s \in c.st.tombstones \/ head < c.st.cursor[s]
  BY <1>1 DEF ApplySnapshot
<1>2. CASE ~(s \in c.st.tombstones \/ head < c.st.cursor[s])
  <2> DEFINE row == [c.st.rows[s] EXCEPT !.last = head]
  <2>1. q = Restore(SetRow(c, s, row), s) /\ s \notin c.st.tombstones
    BY <1>2 DEF ApplySnapshot
  <2>2. row \in Row
    BY PageFields, StoreAssumption DEF Stores, Row, Heads
  <2> HIDE DEF row
  <2> QED BY <2>1, <2>2, RestoredRow DEF OnlyTranscripts
<1> QED BY <1>1, <1>2

\* And has its session's transcript read again.
LEMMA SnapshotWhole ==
    ASSUME NEW d, NEW c \in Pages, AllWhole(d, c), NEW s \in Sessions,
           NEW head \in Heads, head = c.str.cursor,
           NEW q, q = ApplySnapshot(c, s, head)
    PROVE  AllWhole(d, q)
<1>1. CASE s \in c.st.tombstones \/ head < c.st.cursor[s]
  BY <1>1 DEF ApplySnapshot
<1>2. CASE ~(s \in c.st.tombstones \/ head < c.st.cursor[s])
  <2> DEFINE row == [c.st.rows[s] EXCEPT !.last = head]
  <2>1. /\ q = Restore(SetRow(c, s, row), s)
        /\ s \notin c.st.tombstones /\ ~(head < c.st.cursor[s])
    BY <1>2 DEF ApplySnapshot
  <2>2. row \in Row /\ row.last = head /\ row.seen = c.st.rows[s].seen
    BY PageFields, StoreAssumption DEF Stores, Row, Heads
  <2>3. head >= 0 /\ head \in Int
    BY DEF Heads
  <2> HIDE DEF row
  <2>4. /\ OnlyTranscripts(q, c)
        /\ q.st.epoch = c.st.epoch /\ q.st.hydrated = c.st.hydrated
        /\ q.st.tombstones = c.st.tombstones
        /\ q.st.restoring = c.st.restoring \cup {s}
        /\ q.st.rows[s] = row /\ q.st.cursor[s] = row.last
        /\ \A t \in Sessions \ {s} : q.st.rows[t] = c.st.rows[t]
        /\ \A t \in Sessions \ {s} : q.st.cursor[t] = c.st.cursor[t]
        /\ \A t \in Sessions \ {s} : t \in q.st.loadError <=> t \in c.st.loadError
        /\ \A t \in Sessions \ {s} : q.ft[t] = c.ft[t]
        /\ \/ q.ft[s] = c.ft[s] /\ (s \in c.st.restoring \/ c.ft[s] # Unasked)
           \/ q.ft[s] = Asked /\ c.ft[s] = Unasked
    BY <2>1, <2>2, RestoredRow
  <2>5. q \in Pages /\ q.rec = c.rec /\ q.str = c.str /\ q.lo = c.lo
    BY <2>4 DEF OnlyTranscripts
  <2>6. Clocks(d, c) /\ head <= Len(d.log)
    BY DEF AllWhole, Clocks, HeadClock
  <2>7. Clocks(d, q) /\ KeptResume(q, c)
    BY <2>2, <2>4, <2>5, <2>6, ClocksKept, Values DEF SameClocks
  <2>8. Wider(q, c)
    BY <2>5, SameWider
  <2>9. ASSUME NEW t \in Sessions \ {s}
        PROVE  Kept(q, c, t) /\ KeptReply(q, c, t) /\ Delivered(d, q, c, t)
    BY <2>4, <2>5, SameDelivered DEF Kept, KeptReply
  <2>10. WholeAt(d, q, s)
    <3>1. /\ Known(c, s) /\ RowWhole(d, c, s) /\ FetchWhole(d, c, s)
          /\ ReplyWhole(d, c, s) /\ ReconnectWhole(d, c, s)
      BY <2>1 DEF AllWhole, WholeAt
    <3>2. q.ft[s] # Unasked /\ (q.ft[s] = c.ft[s] \/ q.ft[s].kind # "detail")
      BY <2>4, <3>1, Values DEF Known
    <3>3. Pending(q, s)
      BY <3>2 DEF Pending
    <3>4. ASSUME NEW a, Holds(d, c, s, a)
          PROVE  Holds(d, q, s, a)
      <4>1. Delivered(d, q, c, s)
        BY <2>2, <2>4, <2>5 DEF Delivered, Passed
      <4> QED BY <2>2, <2>4, <2>8, <3>4, <4>1, HoldsKept DEF Wider
    <3>5. Excused(c, s) => Excused(q, s)
      BY <2>8 DEF Wider
    <3>6. Known(q, s)
      BY <2>2, <2>3, <2>4, <3>2 DEF Known
    <3>7. RowWhole(d, q, s) /\ ReconnectWhole(d, q, s)
      BY <3>3 DEF RowWhole, ReconnectWhole
    <3>8. FetchWhole(d, q, s)
      BY <2>5, <3>1, <3>2, <3>4, <3>5 DEF FetchWhole
    <3>9. ReplyWhole(d, q, s)
      BY <2>5, <3>1, <3>4, <3>5 DEF ReplyWhole
    <3> QED BY <3>6, <3>7, <3>8, <3>9 DEF WholeAt
  <2> QED BY <2>4, <2>5, <2>7, <2>8, <2>9, <2>10, OthersWhole
<1> QED BY <1>1, <1>2

\* ReceiveResync leaves the transcripts whole.
LEMMA ReceiveResyncWhole ==
    ASSUME Inv(daemon, Page), Whole(daemon, Page), ReceiveResync
    PROVE  Whole(daemon', Page')
<1> DEFINE c == Page
           d == daemon
           f == stream.frame
           t == Taken(c, f)
           o == ObserveResync(t, f)
           q == ApplySnapshot(o, f.session, f.head)
<1>1. /\ c = Page /\ d = daemon /\ t = Taken(c, f) /\ o = ObserveResync(t, f)
      /\ q = ApplySnapshot(o, f.session, f.head) /\ c \in Pages /\ d \in Daemons
      /\ Whole(d, c) /\ PassInv(c.rec)
  BY DEF Inv, Cover
<1>2. /\ f.session \in Sessions /\ f.head \in Heads /\ f.after \in Heads
      /\ f \in Frames /\ f # NoFrame /\ f = c.str.frame
  <2>1. f \in Frames /\ f # NoFrame /\ f = c.str.frame
    BY SamePage DEF ReceiveResync, Streams
  <2> QED BY <2>1 DEF Frames
<1>3. Becomes(q) /\ UNCHANGED daemon
  BY DEF ReceiveResync, Taken
<1> HIDE DEF c, d, f, t, o, q
<1>4. Looked(o, c, f) /\ (LookedAway(o, c, f) \/ LookedAt(o, c))
  BY <1>1, <1>2, LookedDoes
<1>5. o \in Pages /\ o.st.epoch = c.st.epoch /\ o.str.frame = NoFrame
      /\ f.head = o.str.cursor
  BY <1>4 DEF Looked
<1>6. AllWhole(d, c) => AllWhole(d, o)
  BY <1>1, <1>2, <1>4, LookedAwayWhole, LookedAtWhole
<1>7. q \in Pages /\ q.st.epoch = o.st.epoch /\ q.str = o.str
  BY <1>1, <1>2, <1>5, SnapshotDoes
<1>8. AllWhole(d, o) => AllWhole(d, q)
  BY <1>1, <1>2, <1>5, SnapshotWhole
<1>9. FrameUp(q)
  BY <1>5, <1>7 DEF FrameUp
<1> QED BY <1>1, <1>3, <1>5, <1>6, <1>7, <1>8, <1>9, Moves DEF Whole

\* The stream's cursor moves over one event.
Past(c, n) == [c EXCEPT !.str.cursor = n]

\* Only the cursor of the stream moves.
LEMMA PastDoes ==
    ASSUME NEW c \in Pages, NEW n \in Heads, NEW q, q = Past(c, n)
    PROVE  /\ OnlyStream(q, c) /\ q.str.cursor = n
           /\ q.str.frame = c.str.frame /\ q.str.reconnect = c.str.reconnect
<1> DEFINE str == [c.str EXCEPT !.cursor = n]
<1>1. str \in Streams /\ str.cursor = n /\ str.frame = c.str.frame
      /\ str.reconnect = c.str.reconnect
  BY PageFields DEF Streams
<1>2. q = [c EXCEPT !.str = str]
  BY DEF Past
<1> HIDE DEF str
<1> QED BY <1>1, <1>2, NewStream

\* The clocks after an event, and what it passes of the sessions it is not of.
LEMMA PastClocks ==
    ASSUME NEW d \in Daemons, NEW c, Clocks(d, c), c.str.frame = NoFrame,
           NEW n \in 1 .. Len(d.log), NEW q, q.str.cursor = n, q.str.frame = NoFrame,
           q.str.reconnect = c.str.reconnect,
           \A s \in Sessions : q.st.cursor[s] = c.st.cursor[s] \/ q.st.cursor[s] = n,
           \A s \in Sessions : q.ft[s] = c.ft[s] \/ q.ft[s].kind # "detail"
    PROVE  Clocks(d, q) /\ KeptResume(q, c)
<1>0. n <= Len(d.log)
  BY DEF Daemons
<1>1. HeadClock(d, q) /\ FrameClock(d, q)
  BY <1>0 DEF Clocks, HeadClock, FrameClock
<1>2. AskedClock(d, q) /\ ResumeClock(d, q) /\ FetchClock(d, q)
  BY DEF Clocks, AskedClock, ResumeClock, FetchClock, InForce, Resuming
<1>3. KeptResume(q, c)
  BY DEF KeptResume, Resuming
<1> QED BY <1>1, <1>2, <1>3 DEF Clocks

\* An event that is passed is in its row, or was passed before.
LEMMA PastDelivers ==
    ASSUME NEW d \in Daemons, NEW c, NEW q, NEW t, c.str.cursor \in Int,
           NEW n, n = c.str.cursor + 1, q.str.cursor = n,
           q.st.cursor[t] = c.st.cursor[t] \/ q.st.cursor[t] = n,
           n \in Turns(d, t) =>
                n <= c.st.cursor[t] \/ n \in q.st.rows[t].seen
    PROVE  Delivered(d, q, c, t)
<1> SUFFICES ASSUME NEW x \in Turns(d, t), Passed(q, t, x), ~Passed(c, t, x)
             PROVE  x \in q.st.rows[t].seen
  BY DEF Delivered
<1>1. x \in Int
  BY DEF Turns
<1>2. x = n
  BY <1>1 DEF Passed
<1> QED BY <1>2 DEF Passed

\* A live event in the row of the session it belongs to.
AppliedTurn(q, c, s, n) ==
    /\ q.st.hydrated = c.st.hydrated /\ q.st.tombstones = c.st.tombstones
    /\ q.st.rows[s].seen = c.st.rows[s].seen \cup {n} /\ q.st.cursor[s] = n
    /\ \/ /\ ~(c.st.rows[s] = NoRow /\ c.st.cursor[s] >= 0)
          /\ s \in q.st.restoring <=> s \in c.st.restoring
          /\ s \in q.st.loadError <=> s \in c.st.loadError
          /\ q.ft[s] = c.ft[s]
       \/ /\ q.ft[s] = c.ft[s] /\ (s \in c.st.restoring \/ c.ft[s] # Unasked)
       \/ q.ft[s] = Asked

\* An event of session s was passed over, or applied.
TurnOutcome(q, c, s, n) ==
    /\ q \in Pages /\ q.st.epoch = c.st.epoch
    /\ q.rec = c.rec /\ q.lo = c.lo /\ q.str.cursor = n
    /\ q.str.frame = c.str.frame /\ q.str.reconnect = c.str.reconnect
    /\ \A t \in Sessions \ {s} : Kept(q, c, t)
    /\ \/ Kept(q, c, s) /\ (s \in c.st.tombstones \/ n <= c.st.cursor[s])
       \/ AppliedTurn(q, c, s, n)

\* An event is applied to the row of its session, or was there before.
LEMMA TurnDoes ==
    ASSUME NEW c \in Pages, NEW s \in Sessions, NEW n \in Sequences,
           NEW t, t = Past(c, n), NEW q, q = ApplyTurn(t, s, n)
    PROVE  TurnOutcome(q, c, s, n)
<1>0. n \in Heads
  BY StoreAssumption DEF Sequences, Heads
<1>1. /\ OnlyStream(t, c) /\ t.str.cursor = n
      /\ t.str.frame = c.str.frame /\ t.str.reconnect = c.str.reconnect
  BY <1>0, PastDoes
<1>2. t \in Pages /\ t.st = c.st /\ t.rec = c.rec /\ t.ft = c.ft /\ t.lo = c.lo
  BY <1>1 DEF OnlyStream
<1>3. CASE s \in t.st.tombstones \/ n <= t.st.cursor[s]
  <2>1. q = t
    BY <1>3 DEF ApplyTurn
  <2>2. \A x \in Sessions : Kept(q, c, x)
    BY <1>2, <2>1 DEF Kept
  <2> QED BY <1>1, <1>2, <1>3, <2>1, <2>2 DEF TurnOutcome
<1>4. CASE ~(s \in t.st.tombstones \/ n <= t.st.cursor[s])
  <2> DEFINE row == [seen |-> c.st.rows[s].seen \cup {n}, last |-> n]
             applied == SetRow(t, s, row)
  <2>1. /\ q = IF c.st.rows[s] = NoRow /\ c.st.cursor[s] >= 0
               THEN Restore(applied, s) ELSE applied
        /\ applied = SetRow(t, s, row) /\ s \notin t.st.tombstones
    BY <1>2, <1>4 DEF ApplyTurn
  <2>2. row \in Row /\ row.last = n /\ row.seen = c.st.rows[s].seen \cup {n}
    BY PageFields, StoreAssumption DEF Stores, Row, Sequences
  <2> HIDE DEF row, applied
  <2>3. CASE c.st.rows[s] = NoRow /\ c.st.cursor[s] >= 0
    <3>1. q = Restore(SetRow(t, s, row), s)
      BY <2>1, <2>3
    <3>2. /\ OnlyTranscripts(q, t)
          /\ q.st.epoch = t.st.epoch /\ q.st.hydrated = t.st.hydrated
          /\ q.st.tombstones = t.st.tombstones
          /\ q.st.restoring = t.st.restoring \cup {s}
          /\ q.st.rows[s] = row /\ q.st.cursor[s] = row.last
          /\ \A x \in Sessions \ {s} : q.st.rows[x] = t.st.rows[x]
          /\ \A x \in Sessions \ {s} : q.st.cursor[x] = t.st.cursor[x]
          /\ \A x \in Sessions \ {s} : x \in q.st.loadError <=> x \in t.st.loadError
          /\ \A x \in Sessions \ {s} : q.ft[x] = t.ft[x]
          /\ \/ q.ft[s] = t.ft[s] /\ (s \in t.st.restoring \/ t.ft[s] # Unasked)
             \/ q.ft[s] = Asked /\ t.ft[s] = Unasked
      BY <1>2, <2>1, <2>2, <3>1, RestoredRow
    <3>3. q \in Pages /\ q.rec = t.rec /\ q.str = t.str /\ q.lo = t.lo
      BY <3>2 DEF OnlyTranscripts
    <3>4. \A x \in Sessions \ {s} : Kept(q, c, x)
      BY <1>2, <3>2, <3>3 DEF Kept
    <3>5. AppliedTurn(q, c, s, n)
      BY <1>2, <2>2, <3>2 DEF AppliedTurn
    <3> QED BY <1>1, <1>2, <3>2, <3>3, <3>4, <3>5 DEF TurnOutcome
  <2>4. CASE ~(c.st.rows[s] = NoRow /\ c.st.cursor[s] >= 0)
    <3>1. OnlyTranscripts(q, t) /\ q.ft = t.ft /\ q.st = WithRow(t.st, s, row)
      BY <1>2, <2>1, <2>2, <2>4, SetRowDoes
    <3>2. t.st \in Stores
      BY <1>2, PageFields
    <3>3. /\ SameChrome(q.st, t.st)
          /\ q.st.tombstones = t.st.tombstones /\ q.st.hydrated = t.st.hydrated
          /\ q.st.loadError = t.st.loadError /\ q.st.restoring = t.st.restoring
          /\ q.st.rows[s] = row /\ q.st.cursor[s] = row.last
          /\ \A x \in Sessions \ {s} : q.st.rows[x] = t.st.rows[x]
          /\ \A x \in Sessions \ {s} : q.st.cursor[x] = t.st.cursor[x]
      BY <2>2, <3>1, <3>2, WithRowFields
    <3>4. q \in Pages /\ q.rec = t.rec /\ q.str = t.str /\ q.lo = t.lo
      BY <3>1 DEF OnlyTranscripts
    <3>5. \A x \in Sessions \ {s} : Kept(q, c, x)
      BY <1>2, <3>1, <3>3, <3>4 DEF Kept
    <3>6. AppliedTurn(q, c, s, n)
      BY <1>2, <2>2, <2>4, <3>1, <3>3 DEF AppliedTurn
    <3> QED BY <1>1, <1>2, <3>3, <3>4, <3>5, <3>6 DEF TurnOutcome, SameChrome
  <2> QED BY <2>3, <2>4
<1> QED BY <1>3, <1>4

\* An event that is applied leaves the transcripts whole.
LEMMA TurnWhole ==
    ASSUME NEW d \in Daemons, NEW c \in Pages, AllWhole(d, c), c.str.frame = NoFrame,
           NEW n \in 1 .. Len(d.log), n = c.str.cursor + 1,
           NEW s \in Sessions, d.log[n] = Turn(s),
           NEW q, TurnOutcome(q, c, s, n)
    PROVE  AllWhole(d, q)
<1>1. n \in Int /\ n > 0 /\ c.str.cursor \in Int
  BY PageFields DEF Daemons, Streams, Heads
<1>2. /\ q.rec = c.rec /\ q.lo = c.lo /\ q.str.cursor = n
      /\ q.str.frame = c.str.frame /\ q.str.reconnect = c.str.reconnect
      /\ \A t \in Sessions \ {s} : Kept(q, c, t)
      /\ \/ Kept(q, c, s) /\ (s \in c.st.tombstones \/ n <= c.st.cursor[s])
         \/ AppliedTurn(q, c, s, n)
  BY DEF TurnOutcome
<1>3. \A t \in Sessions : /\ q.st.cursor[t] = c.st.cursor[t] \/ q.st.cursor[t] = n
                          /\ q.ft[t] = c.ft[t] \/ q.ft[t].kind # "detail"
  BY <1>2, Values DEF Kept, AppliedTurn
<1>4. Clocks(d, c) /\ Clocks(d, q) /\ KeptResume(q, c)
  BY <1>2, <1>3, PastClocks DEF AllWhole
<1>5. Wider(q, c)
  BY <1>2, SameWider
<1>6. ASSUME NEW t \in Sessions \ {s}
      PROVE  Kept(q, c, t) /\ KeptReply(q, c, t) /\ Delivered(d, q, c, t)
  <2>1. n \notin Turns(d, t)
    BY <1>1 DEF Turns, Turn
  <2>2. Delivered(d, q, c, t)
    BY <1>1, <1>2, <1>3, <2>1, PastDelivers
  <2> QED BY <1>2, <2>2 DEF KeptReply
<1>7. s \notin q.st.tombstones => WholeAt(d, q, s)
  <2>1. CASE Kept(q, c, s) /\ (s \in c.st.tombstones \/ n <= c.st.cursor[s])
    <3> SUFFICES ASSUME s \notin q.st.tombstones
                 PROVE  WholeAt(d, q, s)
      OBVIOUS
    <3>1. n <= c.st.cursor[s]
      BY <2>1 DEF Kept
    <3>2. Delivered(d, q, c, s)
      BY <1>1, <1>2, <1>3, <3>1, PastDelivers
    <3> QED
      BY <1>2, <1>4, <1>5, <2>1, <3>2, Untouched DEF AllWhole, KeptReply
  <2>2. CASE AppliedTurn(q, c, s, n)
    <3> SUFFICES ASSUME s \notin q.st.tombstones
                 PROVE  WholeAt(d, q, s)
      OBVIOUS
    <3>1. /\ Known(c, s) /\ RowWhole(d, c, s) /\ FetchWhole(d, c, s)
          /\ ReplyWhole(d, c, s) /\ ReconnectWhole(d, c, s)
      BY <2>2 DEF AllWhole, WholeAt, AppliedTurn
    <3>2. Delivered(d, q, c, s)
      <4>1. n \in q.st.rows[s].seen
        BY <2>2 DEF AppliedTurn
      <4> QED BY <1>1, <1>2, <1>3, <4>1, PastDelivers
    <3>3. ASSUME NEW a, Holds(d, c, s, a)
          PROVE  Holds(d, q, s, a)
      <4>1. c.st.rows[s].seen \subseteq q.st.rows[s].seen
        BY <2>2 DEF AppliedTurn
      <4> QED BY <1>5, <3>2, <3>3, <4>1, HoldsKept DEF Wider
    <3>4. Excused(c, s) => Excused(q, s)
      BY <1>5 DEF Wider
    <3>5. Absent(c, s) => Pending(q, s)
      BY <2>2, <3>1, Values DEF Absent, Pending, AppliedTurn, Known
    <3>6. Pending(c, s) => Pending(q, s)
      BY <1>2, <2>2, <3>1, Values DEF Pending, AppliedTurn, Known
    <3>7. Known(q, s)
      <4>1. s \in q.st.restoring => q.ft[s] # Unasked
        BY <2>2, <3>1, Values DEF Known, AppliedTurn
      <4> QED BY <1>1, <2>2, <4>1 DEF Known, AppliedTurn
    <3>8. RowWhole(d, q, s)
      <4> SUFFICES ASSUME s \in q.st.hydrated
                   PROVE  Holds(d, q, s, NoSequence) \/ Pending(q, s) \/ Excused(q, s)
        BY DEF RowWhole
      <4>1. s \in c.st.hydrated
        BY <2>2 DEF AppliedTurn
      <4>2. c.st.rows[s] = NoRow => Absent(c, s)
        BY <3>1, <4>1 DEF Known, Absent
      <4> QED BY <3>1, <3>3, <3>4, <3>5, <3>6, <4>1, <4>2 DEF RowWhole
    <3>9. FetchWhole(d, q, s)
      BY <1>2, <1>3, <3>1, <3>3, <3>4 DEF FetchWhole
    <3>10. ReplyWhole(d, q, s)
      BY <1>2, <3>1, <3>3, <3>4 DEF ReplyWhole
    <3>11. ReconnectWhole(d, q, s)
      BY <1>2, <3>1, <3>3, <3>4, <3>5, <3>6 DEF ReconnectWhole, InForce, Resuming
    <3> QED BY <3>7, <3>8, <3>9, <3>10, <3>11 DEF WholeAt
  <2> QED BY <1>2, <2>1, <2>2
<1>8. WholeAt(d, q, s)
  BY <1>7, GoneIsWhole
<1> QED BY <1>2, <1>4, <1>5, <1>6, <1>8, OthersWhole

\* A deletion buries its session, and leaves the others alone.
Burial(q, c, s) ==
    /\ q \in Pages /\ q.st.epoch = c.st.epoch /\ s \in q.st.tombstones
    /\ q.rec = c.rec /\ q.lo = c.lo /\ q.ft = c.ft /\ q.str = c.str
    /\ q.st.cursor[s] = c.st.cursor[s]
    /\ \A t \in Sessions \ {s} : Kept(q, c, t)

\* commitDeletion is a burial.
LEMMA BurialDoes ==
    ASSUME NEW c \in Pages, NEW s \in Sessions, NEW q, q = CommitDeletion(c, s)
    PROVE  Burial(q, c, s)
<1>1. OnlyTranscripts(q, c) /\ q.ft = c.ft /\ q.st = Buried(c.st, s)
  BY DeletionDoes
<1>2. c.st \in Stores
  BY PageFields
<1>3. /\ SameChrome(q.st, c.st)
      /\ q.st.tombstones = c.st.tombstones \cup {s}
      /\ q.st.hydrated = c.st.hydrated \ {s}
      /\ q.st.loadError = c.st.loadError \ {s}
      /\ q.st.restoring = c.st.restoring \ {s}
      /\ q.st.cursor = c.st.cursor
      /\ \A t \in Sessions \ {s} : q.st.rows[t] = c.st.rows[t]
  BY <1>1, <1>2, BuriedFields
<1>4. q \in Pages /\ q.rec = c.rec /\ q.str = c.str /\ q.lo = c.lo
  BY <1>1 DEF OnlyTranscripts
<1>5. \A t \in Sessions \ {s} : Kept(q, c, t)
  BY <1>1, <1>3, <1>4 DEF Kept
<1> QED BY <1>1, <1>3, <1>4, <1>5 DEF Burial, SameChrome

\* A burial leaves the other transcripts whole.
LEMMA BurialWhole ==
    ASSUME NEW d, NEW c, AllWhole(d, c), NEW s \in Sessions, NEW q, Burial(q, c, s)
    PROVE  AllWhole(d, q)
<1>1. SameClocks(q, c)
  BY DEF SameClocks, Burial
<1>2. Clocks(d, q) /\ KeptResume(q, c)
  BY <1>1, ClocksKept DEF AllWhole, Burial, Kept
<1>3. Wider(q, c)
  BY SameWider DEF Burial
<1>4. ASSUME NEW t \in Sessions \ {s}
      PROVE  Kept(q, c, t) /\ KeptReply(q, c, t) /\ Delivered(d, q, c, t)
  BY SameDelivered DEF Burial, Kept, KeptReply
<1>5. WholeAt(d, q, s)
  BY GoneIsWhole DEF Burial
<1> QED BY <1>2, <1>3, <1>4, <1>5, OthersWhole

\* A deletion of session s was passed over, or applied.
DeletionOutcome(q, c, s, n) ==
    /\ q \in Pages /\ q.st.epoch = c.st.epoch
    /\ q.rec = c.rec /\ q.lo = c.lo /\ q.ft = c.ft /\ q.str.cursor = n
    /\ q.str.frame = c.str.frame /\ q.str.reconnect = c.str.reconnect
    /\ \A t \in Sessions \ {s} : Kept(q, c, t)
    /\ \/ Kept(q, c, s)
       \/ s \in q.st.tombstones /\ q.st.cursor[s] = n

\* A deletion that arrives buries its session, or comes too late.
LEMMA DeletionEventDoes ==
    ASSUME NEW c \in Pages, NEW s \in Sessions, NEW n \in Sequences,
           NEW t, t = Past(c, n), NEW q, q = ApplyDeletion(t, s, n)
    PROVE  DeletionOutcome(q, c, s, n)
<1>0. n \in Heads /\ n \in Cursors
  BY StoreAssumption DEF Sequences, Heads, Cursors
<1>1. /\ OnlyStream(t, c) /\ t.str.cursor = n
      /\ t.str.frame = c.str.frame /\ t.str.reconnect = c.str.reconnect
  BY <1>0, PastDoes
<1>2. t \in Pages /\ t.st = c.st /\ t.rec = c.rec /\ t.ft = c.ft /\ t.lo = c.lo
  BY <1>1 DEF OnlyStream
<1>3. CASE s \in t.st.tombstones \/ n <= t.st.cursor[s]
  <2>1. q = t
    BY <1>3 DEF ApplyDeletion
  <2>2. \A x \in Sessions : Kept(q, c, x)
    BY <1>2, <2>1 DEF Kept
  <2> QED BY <1>1, <1>2, <2>1, <2>2 DEF DeletionOutcome
<1>4. CASE ~(s \in t.st.tombstones \/ n <= t.st.cursor[s])
  <2> DEFINE b == CommitDeletion(t, s)
             st == [b.st EXCEPT !.cursor[s] = n]
  <2>1. b = CommitDeletion(t, s) /\ q = [b EXCEPT !.st = st]
    BY <1>4 DEF ApplyDeletion
  <2>2. st = [b.st EXCEPT !.cursor[s] = n]
    OBVIOUS
  <2> HIDE DEF b, st
  <2>3. Burial(b, t, s)
    BY <1>2, <2>1, BurialDoes
  <2>4. b \in Pages /\ b.st \in Stores
    BY <2>3, PageFields DEF Burial
  <2>5. /\ st \in Stores /\ st.epoch = b.st.epoch /\ st.rows = b.st.rows
        /\ st.hydrated = b.st.hydrated /\ st.tombstones = b.st.tombstones
        /\ st.restoring = b.st.restoring /\ st.loadError = b.st.loadError
        /\ st.cursor[s] = n
        /\ \A x \in Sessions \ {s} : st.cursor[x] = b.st.cursor[x]
    BY <1>0, <2>2, <2>4 DEF Stores
  <2>6. OnlyTranscripts(q, b) /\ q.ft = b.ft /\ q.st = st
    BY <2>1, <2>4, <2>5, NewStore
  <2>7. \A x \in Sessions \ {s} : Kept(q, t, x)
    BY <2>3, <2>5, <2>6 DEF Burial, Kept, OnlyTranscripts
  <2>8. \A x \in Sessions \ {s} : Kept(q, c, x)
    BY <1>2, <2>7 DEF Kept
  <2> QED
    BY <1>1, <1>2, <2>3, <2>5, <2>6, <2>8 DEF Burial, OnlyTranscripts, DeletionOutcome
<1> QED BY <1>3, <1>4

\* It leaves the transcripts whole.
LEMMA DeletionEventWhole ==
    ASSUME NEW d \in Daemons, NEW c \in Pages, AllWhole(d, c), c.str.frame = NoFrame,
           NEW n \in 1 .. Len(d.log), n = c.str.cursor + 1,
           NEW s \in Sessions, d.log[n] = Deletion(s),
           NEW q, DeletionOutcome(q, c, s, n)
    PROVE  AllWhole(d, q)
<1>1. n \in Int /\ n > 0 /\ c.str.cursor \in Int
  BY PageFields DEF Daemons, Streams, Heads
<1>2. /\ q.rec = c.rec /\ q.lo = c.lo /\ q.ft = c.ft /\ q.str.cursor = n
      /\ q.str.frame = c.str.frame /\ q.str.reconnect = c.str.reconnect
      /\ \A t \in Sessions \ {s} : Kept(q, c, t)
      /\ \/ Kept(q, c, s)
         \/ s \in q.st.tombstones /\ q.st.cursor[s] = n
  BY DEF DeletionOutcome
<1>3. \A t \in Sessions : /\ q.st.cursor[t] = c.st.cursor[t] \/ q.st.cursor[t] = n
                          /\ q.ft[t] = c.ft[t]
  BY <1>2 DEF Kept
<1>4. Clocks(d, c) /\ Clocks(d, q) /\ KeptResume(q, c)
  BY <1>2, <1>3, PastClocks DEF AllWhole
<1>5. Wider(q, c)
  BY <1>2, SameWider
<1>6. ASSUME NEW t \in Sessions
      PROVE  KeptReply(q, c, t) /\ Delivered(d, q, c, t)
  <2>1. n \notin Turns(d, t)
    BY <1>1 DEF Turns, Turn, Deletion
  <2>2. Delivered(d, q, c, t)
    BY <1>1, <1>2, <1>3, <2>1, PastDelivers
  <2> QED BY <1>2, <2>2 DEF KeptReply
<1>7. WholeAt(d, q, s)
  <2>1. CASE Kept(q, c, s)
    BY <1>4, <1>5, <1>6, <2>1, Untouched DEF AllWhole
  <2>2. CASE s \in q.st.tombstones
    BY <2>2, GoneIsWhole
  <2> QED BY <1>2, <2>1, <2>2
<1> QED BY <1>2, <1>4, <1>5, <1>6, <1>7, OthersWhole

\* ReceiveEvent leaves the transcripts whole.
LEMMA ReceiveEventWhole ==
    ASSUME Inv(daemon, Page), Whole(daemon, Page), ReceiveEvent
    PROVE  Whole(daemon', Page')
<1> DEFINE c == Page
           d == daemon
           n == stream.cursor + 1
           s == daemon.log[n].session
           t == Past(c, n)
<1>1. /\ c = Page /\ d = daemon /\ c \in Pages /\ d \in Daemons /\ Whole(d, c)
      /\ t = Past(c, n)
  BY DEF Inv
<1>2. n \in 1 .. Len(d.log) /\ n \in Sequences
  <2>1. stream.cursor \in Heads /\ d \in Daemons
    BY SamePage DEF Streams
  <2>2. stream.cursor < Len(d.log)
    BY DEF ReceiveEvent, LogHead
  <2>3. Len(d.log) \in Nat /\ Len(d.log) <= MaxSequence
    BY <2>1 DEF Daemons
  <2> QED BY <2>1, <2>2, <2>3, StoreAssumption DEF Heads, Sequences
<1>3. s \in Sessions
  <2> DEFINE Events == [session : Sessions, kind : {"turn", "deleted"}]
             log == daemon.log
  <2>1. log \in Seq(Events) /\ n \in 1 .. Len(log)
    BY <1>2, SamePage DEF Daemons
  <2> HIDE DEF Events, log, n
  <2>2. log[n] \in Events
    BY <2>1
  <2> QED BY <2>2 DEF Events, log
<1>4. /\ \/ d.log[n] = Turn(s) /\ Becomes(ApplyTurn(t, s, n))
         \/ d.log[n] = Deletion(s) /\ Becomes(ApplyDeletion(t, s, n))
      /\ UNCHANGED daemon
  BY DEF ReceiveEvent, Past
<1>5. c.str.frame = NoFrame /\ n = c.str.cursor + 1
  BY SamePage DEF ReceiveEvent
<1> HIDE DEF c, d, n, s, t
<1>6. CASE d.log[n] = Turn(s) /\ Becomes(ApplyTurn(t, s, n))
  <2> DEFINE q == ApplyTurn(t, s, n)
  <2>1. q = ApplyTurn(t, s, n) /\ Becomes(q)
    BY <1>6
  <2> HIDE DEF q
  <2>2. TurnOutcome(q, c, s, n)
    BY <1>1, <1>2, <1>3, <2>1, TurnDoes
  <2>3. AllWhole(d, c) => AllWhole(d, q)
    BY <1>1, <1>2, <1>3, <1>5, <1>6, <2>2, TurnWhole
  <2>4. q \in Pages /\ q.st.epoch = c.st.epoch /\ FrameUp(q)
    BY <1>5, <2>2 DEF TurnOutcome, FrameUp
  <2> QED BY <1>1, <1>4, <2>1, <2>3, <2>4, Moves DEF Whole
<1>7. CASE d.log[n] = Deletion(s) /\ Becomes(ApplyDeletion(t, s, n))
  <2> DEFINE q == ApplyDeletion(t, s, n)
  <2>1. q = ApplyDeletion(t, s, n) /\ Becomes(q)
    BY <1>7
  <2> HIDE DEF q
  <2>2. DeletionOutcome(q, c, s, n)
    BY <1>1, <1>2, <1>3, <2>1, DeletionEventDoes
  <2>3. AllWhole(d, c) => AllWhole(d, q)
    BY <1>1, <1>2, <1>3, <1>5, <1>7, <2>2, DeletionEventWhole
  <2>4. q \in Pages /\ q.st.epoch = c.st.epoch /\ FrameUp(q)
    BY <1>5, <2>2 DEF DeletionOutcome, FrameUp
  <2> QED BY <1>1, <1>4, <2>1, <2>3, <2>4, Moves DEF Whole
<1> QED BY <1>4, <1>6, <1>7

-----------------------------------------------------------------------------
(* Reading, evicting and deleting transcripts. *)

\* A step that changes neither transcripts, reads nor losses.
LEMMA QuietWhole ==
    ASSUME NEW d, NEW c, NEW q, AllWhole(d, c), SameTranscripts(q.st, c.st),
           SameClocks(q, c), q.ft = c.ft, q.lo = c.lo,
           \A s \in Sessions : /\ s \in q.rec.residents <=> s \in c.rec.residents
                               /\ KeptReply(q, c, s)
    PROVE  AllWhole(d, q)
<1>1. Clocks(d, q) /\ KeptResume(q, c)
  BY ClocksKept DEF AllWhole, SameTranscripts
<1>2. Wider(q, c)
  BY SameWider
<1>3. ASSUME NEW s \in Sessions
      PROVE  Kept(q, c, s) /\ KeptReply(q, c, s) /\ Delivered(d, q, c, s)
  BY SameDelivered DEF Kept, SameTranscripts, SameClocks
<1> QED BY <1>1, <1>2, <1>3, NoneTouched

\* The merge holds what the read holds, and what the row held that it does not:
\* that is all there is to hold, when the row held what the read lacks.
LEMMA MergeKeeps ==
    ASSUME NEW d, NEW c, Inv(d, c), c.st.epoch = d.epoch, NEW s \in Sessions,
           NEW r \in Answered, IsRead(c, s, r), r.epoch = d.epoch,
           NEW q, NEW merged, merged = Merge(r.row, c.st.rows[s]),
           q.st.rows[s] = merged, q.st.cursor[s] = merged.last,
           Given(c) \subseteq Given(q),
           \A n \in Turns(d, s) :
              n <= q.str.cursor => n <= c.str.cursor \/ n \in Given(q) \/ n <= r.row.last,
           NEW a \in Int, NEW b \in Int, a <= b \/ a <= r.row.last, Holds(d, c, s, a)
    PROVE  Holds(d, q, s, b)
<1> DEFINE row == c.st.rows[s]
<1>1. row \in Row /\ r.row \in Row /\ c.st.cursor[s] \in Int
  BY PageFields DEF Inv, Stores, Cursors, Answered, Reads
<1>2. r.row.last \in Int /\ row.last \in Int
  BY <1>1 DEF Row
<1>3. /\ row.last <= c.st.cursor[s] /\ ReadsInv(d, c, s)
      /\ Sound(d, c, r.epoch, s, row)
  BY DEF Inv, RowsInv
<1>4. TrueRead(d, s, r)
  BY <1>3 DEF ReadsInv
<1>5. row.seen \subseteq merged.seen
  BY <1>1, <1>3, MergeSound
<1>6. /\ r.row.seen \subseteq merged.seen
      /\ merged.last \in {row.last, r.row.last}
  BY DEF Merge
<1> HIDE DEF row
<1> SUFFICES ASSUME NEW n \in Turns(d, s), n > b, Passed(q, s, n)
             PROVE  n \in merged.seen \cup Given(q)
  BY DEF Holds
<1>7. n \in Int
  BY DEF Turns
<1>8. CASE n <= r.row.last
  BY <1>4, <1>6, <1>8 DEF TrueRead
<1>9. CASE ~(n <= r.row.last)
  <2>1. n > a
    BY <1>2, <1>7, <1>9
  <2>2. Passed(c, s, n) \/ n \in Given(q)
    BY <1>1, <1>2, <1>3, <1>6, <1>7, <1>9 DEF Passed
  <2>3. Passed(c, s, n) => n \in row.seen \cup Given(c)
    BY <2>1 DEF Holds, row
  <2> QED BY <1>5, <2>2, <2>3
<1> QED BY <1>8, <1>9

\* A hydrate that begins leaves the transcripts whole.
LEMMA HydrateWhole ==
    ASSUME NEW d, NEW c \in Pages, AllWhole(d, c), NEW s \in Sessions,
           NEW q, q = Hydrate(c, s)
    PROVE  AllWhole(d, q)
<1>1. OnlyTranscripts(q, c) /\ (q = c \/ Refetched(q, c, s))
  BY HydrateDoes
<1>2. CASE Refetched(q, c, s)
  <2>1. c.st \in Stores /\ q.st = Reloaded(c.st, s)
    BY <1>2, PageFields DEF Refetched
  <2>2. /\ q.st.loadError = c.st.loadError \ {s}
        /\ q.st.rows = c.st.rows /\ q.st.cursor = c.st.cursor
        /\ q.st.hydrated = c.st.hydrated /\ q.st.tombstones = c.st.tombstones
        /\ q.st.restoring = c.st.restoring
    BY <2>1, ReloadedFields
  <2>3. /\ q.ft[s] = Asked
        /\ \A t \in Sessions \ {s} : q.ft[t] = c.ft[t]
        /\ q.rec = c.rec /\ q.str = c.str /\ q.lo = c.lo
    BY <1>1, <1>2 DEF Refetched, OnlyTranscripts
  <2>a. SameClocks(q, c) /\ Clocks(d, c)
    BY <2>3 DEF SameClocks, AllWhole
  <2>b. \A t \in Sessions : q.ft[t].kind = "detail" => q.ft[t] = c.ft[t]
    BY <2>3, Values
  <2>4. Clocks(d, q) /\ KeptResume(q, c)
    BY <2>2, <2>a, <2>b, ClocksKept
  <2>5. Wider(q, c)
    BY <2>3, SameWider
  <2>6. ASSUME NEW t \in Sessions \ {s}
        PROVE  Kept(q, c, t) /\ KeptReply(q, c, t) /\ Delivered(d, q, c, t)
    BY <2>2, <2>3, SameDelivered DEF Kept, KeptReply
  <2>7. WholeAt(d, q, s)
    <3> SUFFICES ASSUME s \notin q.st.tombstones
                 PROVE  WholeAt(d, q, s)
      BY GoneIsWhole
    <3>1. Known(c, s) /\ ReplyWhole(d, c, s)
      BY <2>2 DEF AllWhole, WholeAt
    <3>2. Pending(q, s)
      BY <2>3, Values DEF Pending
    <3>3. ASSUME NEW a, Holds(d, c, s, a)
          PROVE  Holds(d, q, s, a)
      BY <2>2, <2>3, <2>5, <3>3, SameDelivered, HoldsKept DEF Wider
    <3>4. Known(q, s)
      BY <2>2, <2>3, <3>1, Values DEF Known
    <3>5. RowWhole(d, q, s) /\ ReconnectWhole(d, q, s)
      BY <3>2 DEF RowWhole, ReconnectWhole
    <3>6. FetchWhole(d, q, s)
      BY <2>3, Values DEF FetchWhole
    <3>7. ReplyWhole(d, q, s)
      BY <2>3, <2>5, <3>1, <3>3 DEF ReplyWhole, Wider
    <3> QED BY <3>4, <3>5, <3>6, <3>7 DEF WholeAt
  <2> QED BY <2>4, <2>5, <2>6, <2>7, OthersWhole
<1> QED BY <1>1, <1>2

\* Hydrating moves no stream, and no lifetime.
LEMMA HydrateStays ==
    ASSUME NEW c \in Pages, NEW s \in Sessions, NEW q, q = Hydrate(c, s)
    PROVE  q \in Pages /\ q.st.epoch = c.st.epoch /\ q.str = c.str
<1>1. OnlyTranscripts(q, c) /\ (q = c \/ q.st = Reloaded(c.st, s))
  BY HydrateDoes DEF Refetched
<1>2. q.st.epoch = c.st.epoch
  BY <1>1, PageFields, ReloadedFields DEF SameChrome
<1> QED BY <1>1, <1>2 DEF OnlyTranscripts

\* Select leaves the transcripts whole.
LEMMA SelectWhole ==
    ASSUME Inv(daemon, Page), Whole(daemon, Page), NEW s \in Sessions, Select(s)
    PROVE  Whole(daemon', Page')
<1> DEFINE p == Page
           d == daemon
           c == Chosen(p, s)
           q == Hydrate(c, s)
<1>1. /\ p = Page /\ d = daemon /\ c = Chosen(p, s) /\ q = Hydrate(c, s)
      /\ p \in Pages /\ Whole(d, p)
  BY DEF Inv
<1>2. Becomes(c) \/ Becomes(q)
  BY DEF Select, Chosen
<1>3. UNCHANGED daemon
  BY DEF Select
<1> HIDE DEF p, d, c, q
<1>4. OnlyTranscripts(c, p) /\ c.ft = p.ft /\ SameTranscripts(c.st, p.st)
  BY <1>1, ChosenDoes
<1>5. c \in Pages /\ c.rec = p.rec /\ c.str = p.str /\ c.lo = p.lo
      /\ c.st.epoch = p.st.epoch
  BY <1>4 DEF OnlyTranscripts, SameTranscripts
<1>6. AllWhole(d, p) => AllWhole(d, c)
  BY <1>4, <1>5, QuietWhole DEF SameClocks, KeptReply
<1>7. q \in Pages /\ q.st.epoch = c.st.epoch /\ q.str = c.str
  BY <1>1, <1>5, HydrateStays
<1>8. AllWhole(d, c) => AllWhole(d, q)
  BY <1>1, <1>5, HydrateWhole
<1>9. Whole(d, c) /\ Whole(d, q)
  BY <1>1, <1>5, <1>6, <1>7, <1>8 DEF Whole, FrameUp
<1> QED BY <1>1, <1>2, <1>3, <1>5, <1>7, <1>9, Moves

\* EnsureHydrated leaves the transcripts whole.
LEMMA EnsureHydratedWhole ==
    ASSUME Inv(daemon, Page), Whole(daemon, Page), NEW s \in Sessions, EnsureHydrated(s)
    PROVE  Whole(daemon', Page')
<1> DEFINE c == Page
           d == daemon
           q == Hydrate(c, s)
<1>1. c = Page /\ d = daemon /\ q = Hydrate(c, s) /\ c \in Pages /\ Whole(d, c)
  BY DEF Inv
<1>2. Becomes(q) /\ UNCHANGED daemon
  BY DEF EnsureHydrated
<1> HIDE DEF c, d, q
<1>3. q \in Pages /\ q.st.epoch = c.st.epoch /\ q.str = c.str
  BY <1>1, HydrateStays
<1>4. AllWhole(d, c) => AllWhole(d, q)
  BY <1>1, HydrateWhole
<1>5. Whole(d, q)
  BY <1>1, <1>3, <1>4 DEF Whole, FrameUp
<1> QED BY <1>1, <1>2, <1>3, <1>5, Moves

\* A read that was answered now holds everything there is.
LEMMA FetchAnsweredWhole ==
    ASSUME Inv(daemon, Page), Whole(daemon, Page), NEW s \in Sessions, FetchAnswered(s)
    PROVE  Whole(daemon', Page')
<1> DEFINE c == Page
           d == daemon
<1>1. PICK a \in Outcomes(s), q \in Pages : Becomes(q) /\ Fetched(q, c, s, a)
  BY FetchAnsweredDoes
<1>2. UNCHANGED daemon /\ d \in Daemons
  BY SamePage, FetchAnsweredDoes
<1>3. a \in Answered /\ (a.kind = "detail" => a.epoch = d.epoch /\ a.row.last = Len(d.log))
  BY <1>2, AnswerIs
<1>4. a # Unasked
  BY DEF Outcomes, Answer, Unasked, Read
<1>5. Whole(d, c) /\ c \in Pages /\ Page' = q
  BY <1>1, Moves DEF Inv
<1> HIDE DEF c, d
<1>6. /\ q.rec = c.rec /\ q.str = c.str /\ q.lo = c.lo /\ q.st = c.st
      /\ c.ft[s] = Asked /\ q.ft[s] = a
      /\ \A t \in Sessions \ {s} : q.ft[t] = c.ft[t]
  BY <1>1 DEF Fetched, OnlyTranscripts
<1>7. ASSUME AllWhole(d, c)
      PROVE  AllWhole(d, q)
  <2>1. Clocks(d, q) /\ KeptResume(q, c)
    BY <1>3, <1>6, <1>7, ClocksKept DEF SameClocks, AllWhole
  <2>2. Wider(q, c)
    BY <1>6, SameWider
  <2>3. ASSUME NEW t \in Sessions \ {s}
        PROVE  Kept(q, c, t) /\ KeptReply(q, c, t) /\ Delivered(d, q, c, t)
    BY <1>6, SameDelivered DEF Kept, KeptReply
  <2>4. WholeAt(d, q, s)
    <3> SUFFICES ASSUME s \notin q.st.tombstones
                 PROVE  WholeAt(d, q, s)
      BY GoneIsWhole
    <3>1. Known(c, s) /\ ReplyWhole(d, c, s)
      BY <1>6, <1>7 DEF AllWhole, WholeAt
    <3>2. Pending(q, s)
      BY <1>4, <1>6 DEF Pending
    <3>3. ASSUME NEW x, Holds(d, c, s, x)
          PROVE  Holds(d, q, s, x)
      BY <1>6, <2>2, <3>3, SameDelivered, HoldsKept DEF Wider
    <3>4. Known(q, s)
      BY <1>4, <1>6, <3>1 DEF Known
    <3>5. RowWhole(d, q, s) /\ ReconnectWhole(d, q, s)
      BY <3>2 DEF RowWhole, ReconnectWhole
    <3>6. FetchWhole(d, q, s)
      <4>1. SUFFICES ASSUME a.kind = "detail"
                     PROVE  Holds(d, q, s, a.row.last)
        BY <1>6 DEF FetchWhole
      <4>2. q.str.cursor \in Int /\ q.st.cursor[s] \in Int /\ Len(d.log) \in Nat
        BY <1>2, PageFields DEF Streams, Stores, Heads, Cursors, Daemons
      <4>3. \A n \in Turns(d, s) : n \in Int
        BY DEF Turns
      <4>4. HeadClock(d, q)
        BY <2>1 DEF Clocks
      <4> QED BY <1>3, <4>1, <4>2, <4>3, <4>4 DEF Holds, Passed, HeadClock
    <3>7. ReplyWhole(d, q, s)
      BY <1>6, <2>2, <3>1, <3>3 DEF ReplyWhole, Wider
    <3> QED BY <3>4, <3>5, <3>6, <3>7 DEF WholeAt
  <2> QED BY <1>7, <2>1, <2>2, <2>3, <2>4, OthersWhole
<1>8. Whole(d, q)
  BY <1>5, <1>6, <1>7 DEF Whole, FrameUp
<1> QED BY <1>2, <1>5, <1>8 DEF d

\* The outcome of a hydrate: what was read is merged, the session is gone, or
\* there is an error to show.
Rehydrated(q, p, s) ==
    LET r == p.ft[s]
        merged == Merge(r.row, p.st.rows[s])
    IN  /\ r.kind = "detail" /\ r.epoch = p.st.epoch
        /\ q.st.rows[s] = merged /\ q.st.cursor[s] = merged.last
        /\ s \notin p.st.tombstones /\ s \notin q.st.tombstones

\* The hydrate failed: the session has an error to show, or the page had one.
NotRead(q, p, s) ==
    /\ p.ft[s].kind = "failed" /\ s \in q.st.loadError \cup q.lo.reported
    /\ q.st.rows[s] = p.st.rows[s] /\ q.st.cursor[s] = p.st.cursor[s]
    /\ s \in q.st.hydrated <=> s \in p.st.hydrated
    /\ s \in q.st.tombstones <=> s \in p.st.tombstones

\* What a hydrate of session s does that is over.
FetchOutcome(q, p, s) ==
    /\ q \in Pages /\ q.rec = p.rec /\ q.str = p.str /\ Wider(q, p)
    /\ q.st.epoch = p.st.epoch
    /\ q.ft[s] = Unasked /\ s \notin q.st.restoring
    /\ \A t \in Sessions \ {s} : Kept(q, p, t)
    /\ \/ Rehydrated(q, p, s)
       \/ p.ft[s].kind = "detail" /\ p.ft[s].epoch # p.st.epoch
       \/ s \in q.st.tombstones /\ q.st.cursor[s] = p.st.cursor[s]
       \/ NotRead(q, p, s)

\* A hydrate that is over leaves all but its read and its restoring mark.
LEMMA FetchOverKeeps ==
    ASSUME NEW p \in Pages, NEW s \in Sessions, NEW c, c = FetchOver(p, s)
    PROVE  /\ c \in Pages /\ c.st \in Stores /\ c.rec = p.rec /\ c.str = p.str
           /\ c.lo = p.lo /\ c.st.epoch = p.st.epoch
           /\ c.st.rows = p.st.rows /\ c.st.cursor = p.st.cursor
           /\ c.st.hydrated = p.st.hydrated /\ c.st.tombstones = p.st.tombstones
           /\ c.ft[s] = Unasked /\ s \notin c.st.restoring
           /\ \A t \in Sessions \ {s} : Kept(c, p, t)
<1>1. /\ OnlyTranscripts(c, p) /\ c.st = Settled(p.st, s) /\ c.ft[s] = Unasked
      /\ \A t \in Sessions \ {s} : c.ft[t] = p.ft[t]
  BY FetchOverDoes
<1>2. c \in Pages /\ c.rec = p.rec /\ c.str = p.str /\ c.lo = p.lo
  BY <1>1 DEF OnlyTranscripts
<1>3. /\ c.st \in Stores /\ c.st.epoch = p.st.epoch
      /\ c.st.rows = p.st.rows /\ c.st.cursor = p.st.cursor
      /\ c.st.tombstones = p.st.tombstones /\ c.st.hydrated = p.st.hydrated
      /\ c.st.restoring = p.st.restoring \ {s} /\ c.st.loadError = p.st.loadError
  BY <1>1, PageFields, SettledFields DEF SameChrome
<1>4. \A t \in Sessions \ {s} : Kept(c, p, t)
  BY <1>1, <1>2, <1>3 DEF Kept
<1> QED BY <1>1, <1>2, <1>3, <1>4

\* FetchSettles has one of these outcomes.
LEMMA FetchSettlesDoes ==
    ASSUME Inv(daemon, Page), NEW s \in Sessions, FetchSettles(s)
    PROVE  /\ UNCHANGED daemon
           /\ \E q \in Pages : Becomes(q) /\ FetchOutcome(q, Page, s)
<1> DEFINE p == Page
           c == FetchOver(p, s)
           r == p.ft[s]
           detail == CommitDetail(c, s, r.row)
           gone == CommitDeletion(c, s)
           failed == FetchFailed(c, s)
           reported == Reported(c, s)
<1>1. /\ p = Page /\ c = FetchOver(p, s) /\ r = p.ft[s] /\ p \in Pages
      /\ detail = CommitDetail(c, s, r.row) /\ gone = CommitDeletion(c, s)
      /\ failed = FetchFailed(c, s) /\ reported = Reported(c, s)
  BY DEF Inv
<1>2. \/ r.kind = "detail" /\ r.epoch = p.st.epoch /\ Becomes(detail)
      \/ r.kind = "detail" /\ r.epoch # p.st.epoch /\ Becomes(c)
      \/ Becomes(gone)
      \/ r.kind = "failed" /\ Becomes(failed)
      \/ r.kind = "failed" /\ Becomes(reported)
  BY SamePage DEF FetchSettles, FetchFails, FetchOver, FetchFailed, Reported
<1>3. UNCHANGED daemon
  BY DEF FetchSettles
<1> HIDE DEF p, c, r, detail, gone, failed, reported
<1>4. r \in Answered
  BY <1>1, PageFields
<1>5. /\ c \in Pages /\ c.st \in Stores /\ c.rec = p.rec /\ c.str = p.str
      /\ c.lo = p.lo /\ c.st.epoch = p.st.epoch
      /\ c.st.rows = p.st.rows /\ c.st.cursor = p.st.cursor
      /\ c.st.hydrated = p.st.hydrated /\ c.st.tombstones = p.st.tombstones
      /\ c.ft[s] = Unasked /\ s \notin c.st.restoring
      /\ \A t \in Sessions \ {s} : Kept(c, p, t)
  BY <1>1, FetchOverKeeps
<1>6. ASSUME r.kind = "detail", r.epoch = p.st.epoch
      PROVE  detail \in Pages /\ FetchOutcome(detail, p, s)
  <2>1. CASE s \in c.st.tombstones
    <3>1. detail = c
      BY <1>1, <2>1 DEF CommitDetail
    <3> QED BY <1>5, <2>1, <3>1, SameWider DEF FetchOutcome
  <2>2. CASE s \notin c.st.tombstones
    <3> DEFINE merged == Merge(r.row, c.st.rows[s])
    <3>1. r.row \in Row /\ merged = Merge(r.row, c.st.rows[s])
      BY <1>4 DEF Answered, Reads
    <3>a. c \in Pages /\ detail = CommitDetail(c, s, r.row)
      BY <1>1, <1>5
    <3>2. /\ OnlyTranscripts(detail, c) /\ detail.ft = c.ft /\ merged \in Row
          /\ detail.st = WithDetail(c.st, s, merged)
      BY <2>2, <3>1, <3>a, DetailDoes
    <3> HIDE DEF merged
    <3>3. /\ SameChrome(detail.st, c.st) /\ detail.st.tombstones = c.st.tombstones
          /\ detail.st.hydrated = c.st.hydrated \cup {s}
          /\ detail.st.loadError = c.st.loadError \ {s}
          /\ detail.st.restoring = c.st.restoring
          /\ detail.st.rows[s] = merged /\ detail.st.cursor[s] = merged.last
          /\ \A t \in Sessions \ {s} : detail.st.rows[t] = c.st.rows[t]
          /\ \A t \in Sessions \ {s} : detail.st.cursor[t] = c.st.cursor[t]
      BY <1>5, <3>2, WithDetailFields
    <3>4. detail \in Pages /\ detail.rec = c.rec /\ detail.str = c.str /\ detail.lo = c.lo
      BY <3>2 DEF OnlyTranscripts
    <3>5. \A t \in Sessions \ {s} : Kept(detail, c, t)
      BY <3>2, <3>3, <3>4 DEF Kept
    <3>6. \A t \in Sessions \ {s} : Kept(detail, p, t)
      BY <1>5, <3>5 DEF Kept
    <3>7. Rehydrated(detail, p, s)
      BY <1>1, <1>5, <1>6, <2>2, <3>1, <3>3 DEF Rehydrated
    <3>8. detail.st.epoch = p.st.epoch
      BY <1>5, <3>3 DEF SameChrome
    <3>9. Wider(detail, p)
      BY <1>5, <3>4, SameWider
    <3> QED BY <1>5, <3>2, <3>3, <3>4, <3>6, <3>7, <3>8, <3>9 DEF FetchOutcome
  <2> QED BY <2>1, <2>2
<1>7. ASSUME r.kind = "detail", r.epoch # p.st.epoch
      PROVE  FetchOutcome(c, p, s)
  BY <1>1, <1>5, <1>7, SameWider DEF FetchOutcome
<1>8. gone \in Pages /\ FetchOutcome(gone, p, s)
  <2>1. OnlyTranscripts(gone, c) /\ gone.ft = c.ft /\ gone.st = Buried(c.st, s)
    BY <1>1, <1>5, DeletionDoes
  <2>2. Burial(gone, c, s)
    BY <1>1, <1>5, BurialDoes
  <2>3. s \notin gone.st.restoring
    BY <1>5, <2>1, BuriedFields
  <2>4. \A t \in Sessions \ {s} : Kept(gone, p, t)
    BY <1>5, <2>2 DEF Burial, Kept
  <2>5. Wider(gone, p)
    BY <1>5, <2>2, SameWider DEF Burial
  <2> QED BY <1>5, <2>2, <2>3, <2>4, <2>5 DEF FetchOutcome, Burial
<1>9. ASSUME r.kind = "failed"
      PROVE  failed \in Pages /\ FetchOutcome(failed, p, s)
  <2>1. /\ OnlyTranscripts(failed, c) /\ failed.ft = c.ft
        /\ SameChrome(failed.st, c.st)
        /\ failed.st.rows = c.st.rows /\ failed.st.cursor = c.st.cursor
        /\ failed.st.hydrated = c.st.hydrated
        /\ failed.st.tombstones = c.st.tombstones
        /\ failed.st.restoring = c.st.restoring
        /\ failed.st.loadError = c.st.loadError \cup {s}
    BY <1>1, <1>5, FetchFailedDoes
  <2>2. failed \in Pages /\ failed.rec = c.rec /\ failed.str = c.str /\ failed.lo = c.lo
    BY <2>1 DEF OnlyTranscripts
  <2>3. \A t \in Sessions \ {s} : Kept(failed, c, t)
    BY <2>1, <2>2 DEF Kept
  <2>4. \A t \in Sessions \ {s} : Kept(failed, p, t)
    BY <1>5, <2>3 DEF Kept
  <2>5. NotRead(failed, p, s)
    BY <1>1, <1>5, <1>9, <2>1 DEF NotRead
  <2>6. failed.st.epoch = p.st.epoch
    BY <1>5, <2>1 DEF SameChrome
  <2>7. Wider(failed, p)
    BY <1>5, <2>2, SameWider
  <2> QED BY <1>5, <2>1, <2>2, <2>4, <2>5, <2>6, <2>7 DEF FetchOutcome
<1>10. ASSUME r.kind = "failed"
       PROVE  reported \in Pages /\ FetchOutcome(reported, p, s)
  <2>1. ReportedOnly(reported, c, s)
    BY <1>1, <1>5, ReportedDoes
  <2>2. \A t \in Sessions \ {s} : Kept(reported, p, t)
    BY <1>5, <2>1 DEF Kept, ReportedOnly, SameTranscripts
  <2>3. NotRead(reported, p, s)
    BY <1>1, <1>5, <1>10, <2>1 DEF NotRead, ReportedOnly, SameTranscripts
  <2>4. Wider(reported, p)
    BY <1>5, <2>1 DEF Wider, Given, Excused, ReportedOnly
  <2> QED
    BY <1>5, <2>1, <2>2, <2>3, <2>4 DEF FetchOutcome, ReportedOnly, SameTranscripts
<1> QED BY <1>1, <1>2, <1>3, <1>5, <1>6, <1>7, <1>8, <1>9, <1>10

\* A transcript that holds everything, or is excused, is whole.
LEMMA HeldIsWhole ==
    ASSUME NEW d, NEW q \in Pages, NEW s \in Sessions, Known(q, s),
           Holds(d, q, s, NoSequence) \/ Excused(q, s)
    PROVE  WholeAt(d, q, s)
<1>1. \A r \in Answered : r.row.last \in Int /\ NoSequence <= r.row.last
  BY Values, StoreAssumption DEF Answered, Reads, Row
<1>2. /\ q.ft[s] \in Answered /\ q.rec.reply[s] \in Answered
      /\ q.str.reconnect.reply \in Answered
  BY PageFields DEF Recoveries, Streams, Reconnects
<1>3. ASSUME NEW r \in Answered, Holds(d, q, s, NoSequence)
      PROVE  Holds(d, q, s, r.row.last)
  BY <1>1, <1>3, HoldsLater, Values
<1> QED
  BY <1>2, <1>3 DEF WholeAt, RowWhole, FetchWhole, ReplyWhole, ReconnectWhole

\* The merged row has a head, and it is one the daemon had.
LEMMA MergedLast ==
    ASSUME NEW d, NEW c, Inv(d, c), HeadClock(d, c), NEW s \in Sessions,
           NEW r \in Answered, IsRead(c, s, r), r.epoch = d.epoch,
           NEW merged, merged = Merge(r.row, c.st.rows[s])
    PROVE  merged.last \in Int /\ 0 <= merged.last /\ merged.last <= Len(d.log)
<1>1. c.st.rows[s] \in Row /\ r.row \in Row /\ c.st.cursor[s] \in Int
  BY PageFields DEF Inv, Stores, Cursors, Answered, Reads
<1>2. r.row.last \in Int /\ c.st.rows[s].last \in Int /\ 0 <= r.row.last
  BY <1>1 DEF Row, Answered, IsRead
<1>3. c.st.rows[s].last <= c.st.cursor[s] /\ TrueRead(d, s, r) /\ Len(d.log) \in Int
  BY DEF Inv, RowsInv, ReadsInv, Daemons
<1>4. c.st.rows[s].last <= Len(d.log) /\ r.row.last <= Len(d.log)
  BY <1>1, <1>2, <1>3 DEF HeadClock, TrueRead
<1> QED BY <1>2, <1>4 DEF Merge

\* FetchSettles leaves the transcripts whole.
LEMMA FetchSettlesWhole ==
    ASSUME Inv(daemon, Page), Whole(daemon, Page), NEW s \in Sessions, FetchSettles(s)
    PROVE  Whole(daemon', Page')
<1> DEFINE p == Page
           d == daemon
           r == p.ft[s]
           merged == Merge(r.row, p.st.rows[s])
<1>1. PICK q \in Pages : Becomes(q) /\ FetchOutcome(q, p, s)
  BY FetchSettlesDoes
<1>2. UNCHANGED daemon /\ Page' = q
  BY <1>1, FetchSettlesDoes, Moves
<1>3. /\ q \in Pages /\ p = Page /\ d = daemon /\ Inv(d, p) /\ Whole(d, p) /\ r = p.ft[s]
      /\ merged = Merge(r.row, p.st.rows[s])
  OBVIOUS
<1> HIDE DEF p, d, r, merged
<1>4. /\ q.rec = p.rec /\ q.str = p.str /\ Wider(q, p) /\ q.st.epoch = p.st.epoch
      /\ q.ft[s] = Unasked /\ s \notin q.st.restoring
      /\ \A t \in Sessions \ {s} : Kept(q, p, t)
  BY <1>1 DEF FetchOutcome
<1>5. ASSUME p.st.epoch = d.epoch, AllWhole(d, p)
      PROVE  AllWhole(d, q)
  <2>1. Clocks(d, p) /\ HeadClock(d, p) /\ (r.kind = "detail" => r.epoch = d.epoch)
    BY <1>3, <1>5 DEF AllWhole, Clocks, FetchClock
  <2>2. r \in Answered /\ (r.kind = "detail" => IsRead(p, s, r))
    BY <1>3, PageFields DEF Inv, IsRead
  <2>3. \/ Rehydrated(q, p, s)
        \/ s \in q.st.tombstones /\ q.st.cursor[s] = p.st.cursor[s]
        \/ NotRead(q, p, s)
    BY <1>1, <1>3, <1>5, <2>1 DEF FetchOutcome
  <2>4. Rehydrated(q, p, s) =>
           /\ r.kind = "detail" /\ q.st.rows[s] = merged /\ q.st.cursor[s] = merged.last
           /\ s \notin q.st.tombstones
    BY <1>3 DEF Rehydrated
  <2>5. r.kind = "detail" =>
           merged.last \in Int /\ 0 <= merged.last /\ merged.last <= Len(d.log)
    BY <1>3, <2>1, <2>2, MergedLast
  <2>6. \A t \in Sessions : q.st.cursor[t] = p.st.cursor[t] \/ q.st.cursor[t] <= Len(d.log)
    BY <1>4, <2>3, <2>4, <2>5 DEF Kept, NotRead
  <2>7. \A t \in Sessions : q.ft[t].kind = "detail" => q.ft[t] = p.ft[t]
    BY <1>4, Values DEF Kept
  <2>8. Clocks(d, q) /\ KeptResume(q, p)
    BY <1>4, <2>1, <2>6, <2>7, ClocksKept DEF SameClocks
  <2>9. Wider(q, p)
    BY <1>4
  <2>10. ASSUME NEW t \in Sessions \ {s}
         PROVE  Kept(q, p, t) /\ KeptReply(q, p, t) /\ Delivered(d, q, p, t)
    BY <1>4, SameDelivered DEF Kept, KeptReply
  <2>11. s \in Sessions \ p.st.tombstones =>
            /\ Known(p, s) /\ FetchWhole(d, p, s) /\ ReplyWhole(d, p, s)
    BY <1>5 DEF AllWhole, WholeAt
  <2>12. ASSUME Rehydrated(q, p, s), s \notin p.st.tombstones
         PROVE  WholeAt(d, q, s)
    <3>1. Known(q, s)
      BY <1>4, <2>4, <2>5, <2>12 DEF Known
    <3>2. ASSUME NEW a \in Int, NEW b \in Int, a <= b \/ a <= r.row.last,
                 Holds(d, p, s, a)
          PROVE  Holds(d, q, s, b)
      <4>1. Given(p) \subseteq Given(q)
        BY <2>9 DEF Wider
      <4>2. \A n \in Turns(d, s) :
              n <= q.str.cursor => n <= p.str.cursor \/ n \in Given(q) \/ n <= r.row.last
        BY <1>4
      <4>3. /\ Inv(d, p) /\ p.st.epoch = d.epoch /\ IsRead(p, s, r) /\ r.epoch = d.epoch
            /\ merged = Merge(r.row, p.st.rows[s])
            /\ q.st.rows[s] = merged /\ q.st.cursor[s] = merged.last
        BY <1>3, <1>5, <2>1, <2>2, <2>4, <2>12
      <4> QED BY <2>2, <3>2, <4>1, <4>2, <4>3, MergeKeeps
    <3>3. r.row.last \in Int /\ NoSequence \in Int
      BY <2>2, Values DEF Answered, Reads, Row
    <3> SUFFICES ASSUME Holds(d, p, s, r.row.last) \/ Excused(p, s)
                        \/ s \in p.rec.residents
                 PROVE  WholeAt(d, q, s)
      BY <1>3, <2>4, <2>11, <2>12 DEF FetchWhole
    <3>4. CASE Holds(d, p, s, r.row.last)
      BY <1>3, <3>1, <3>2, <3>3, <3>4, HeldIsWhole
    <3>5. CASE Excused(p, s)
      BY <1>3, <2>9, <3>1, <3>5, HeldIsWhole DEF Wider
    <3>6. CASE s \in p.rec.residents
      <4>1. Pending(q, s)
        BY <1>4, <3>6 DEF Pending
      <4>2. p.rec.reply[s].row.last \in Int
        BY <1>3, PageFields DEF Inv, Recoveries, Answered, Reads, Row
      <4>3. ReplyWhole(d, q, s)
        BY <1>4, <2>9, <2>11, <2>12, <3>2, <4>2 DEF ReplyWhole, Wider
      <4> QED
        BY <1>4, <3>1, <4>1, <4>3, Values
        DEF WholeAt, RowWhole, FetchWhole, ReconnectWhole
    <3> QED
      BY <3>4, <3>5, <3>6
  <2>13. ASSUME s \in q.st.tombstones
         PROVE  WholeAt(d, q, s)
    BY <2>13, GoneIsWhole
  <2>14. ASSUME NotRead(q, p, s), s \notin p.st.tombstones
         PROVE  WholeAt(d, q, s)
    <3>1. Pending(q, s) \/ Excused(q, s)
      BY <2>14 DEF NotRead, Pending, Excused
    <3>2. Known(q, s)
      BY <1>4, <2>11, <2>14 DEF NotRead, Known
    <3>3. ASSUME NEW a, Holds(d, p, s, a)
          PROVE  Holds(d, q, s, a)
      BY <1>4, <2>9, <2>14, <3>3, SameDelivered, HoldsKept DEF Wider, NotRead
    <3>4. ReplyWhole(d, q, s)
      BY <1>4, <2>9, <2>11, <2>14, <3>3 DEF ReplyWhole, Wider
    <3> QED
      BY <1>4, <3>1, <3>2, <3>4, Values
      DEF WholeAt, RowWhole, FetchWhole, ReconnectWhole
  <2>15. Rehydrated(q, p, s) => s \notin p.st.tombstones
    BY DEF Rehydrated
  <2>16. NotRead(q, p, s) => (s \in p.st.tombstones <=> s \in q.st.tombstones)
    BY DEF NotRead
  <2>17. WholeAt(d, q, s)
    BY <2>3, <2>12, <2>13, <2>14, <2>15, <2>16
  <2> QED BY <1>5, <2>8, <2>9, <2>10, <2>17, OthersWhole
<1>6. Whole(d, q)
  BY <1>3, <1>4, <1>5 DEF Whole, FrameUp
<1> QED BY <1>2, <1>3, <1>6

\* A row that a read contains may go: what the read does not hold was given up.
LEMMA HoldsWithoutRow ==
    ASSUME NEW d, NEW c, NEW q, NEW s, NEW r \in Answered, TrueRead(d, s, r),
           r.epoch = d.epoch, c.st.rows[s].seen \subseteq r.row.seen,
           Given(c) \subseteq Given(q), q.str.cursor = c.str.cursor,
           q.st.cursor[s] = c.st.cursor[s], Holds(d, c, s, r.row.last)
    PROVE  Holds(d, q, s, r.row.last)
<1> SUFFICES ASSUME NEW n \in Turns(d, s), n > r.row.last, Passed(q, s, n)
             PROVE  n \in Given(q)
  BY DEF Holds
<1>1. n \in Int /\ r.row.last \in Int
  BY DEF Turns, Answered, Reads, Row
<1>2. n \in c.st.rows[s].seen \cup Given(c)
  BY DEF Holds, Passed
<1>3. n \notin r.row.seen
  BY <1>1 DEF TrueRead
<1> QED BY <1>2, <1>3

\* Evict leaves the transcripts whole: what only the row had is noted.
LEMMA EvictWhole ==
    ASSUME Inv(daemon, Page), Whole(daemon, Page), NEW s \in Sessions, Evict(s)
    PROVE  Whole(daemon', Page')
<1> DEFINE p == Page
           d == daemon
<1>1. PICK q \in Pages : Becomes(q) /\ WithoutRow(q, p, s)
  BY EvictDoes
<1>2. UNCHANGED daemon /\ Page' = q
  BY <1>1, EvictDoes, Moves
<1>3. p = Page /\ d = daemon /\ Inv(d, p) /\ Whole(d, p) /\ p \in Pages
  BY DEF Inv
<1> HIDE DEF p, d
<1>4. ASSUME AllWhole(d, p)
      PROVE  AllWhole(d, q)
  <2>1. q.str = p.str /\ q.ft = p.ft /\ q.rec = p.rec /\ q.st.cursor = p.st.cursor
    BY <1>1 DEF WithoutRow
  <2>2. SameClocks(q, p) /\ Clocks(d, p) /\ FetchClock(d, p)
    BY <1>4, <2>1 DEF SameClocks, AllWhole, Clocks
  <2>3. Clocks(d, q) /\ KeptResume(q, p)
    BY <2>1, <2>2, ClocksKept
  <2>4. Wider(q, p)
    BY <1>1 DEF WithoutRow, Wider, Given, Excused
  <2>5. ASSUME NEW t \in Sessions \ {s}
        PROVE  Kept(q, p, t) /\ KeptReply(q, p, t) /\ Delivered(d, q, p, t)
    BY <1>1, SameDelivered DEF WithoutRow, Kept, KeptReply
  <2>6. ASSUME s \notin q.st.tombstones
        PROVE  WholeAt(d, q, s)
    <3>1. /\ s \notin p.st.tombstones /\ p.st.rows[s] # NoRow /\ q.st.rows[s] = NoRow
          /\ q.st.hydrated = p.st.hydrated /\ q.st.restoring = p.st.restoring
          /\ q.st.loadError = p.st.loadError
      BY <1>1, <2>6 DEF WithoutRow
    <3>2. Known(p, s) /\ FetchWhole(d, p, s) /\ ReplyWhole(d, p, s)
      BY <1>4, <3>1 DEF AllWhole, WholeAt
    <3>3. Known(q, s) /\ Absent(q, s)
      BY <2>1, <3>1, <3>2 DEF Known, Absent
    <3>4. RowWhole(d, q, s) /\ ReconnectWhole(d, q, s)
      BY <3>1, <3>3 DEF RowWhole, ReconnectWhole
    <3>5. ASSUME NEW r \in {p.ft[s], p.rec.reply[s]}, r.kind = "detail",
                 r.epoch = d.epoch, Holds(d, p, s, r.row.last)
          PROVE  Holds(d, q, s, r.row.last) \/ Excused(q, s)
      <4>1. r \in Answered
        BY <1>3, PageFields DEF Recoveries
      <4>2. TrueRead(d, s, r)
        BY <1>3, <3>5, <4>1 DEF Inv, RowsInv, ReadsInv, IsRead
      <4>3. p.st.rows[s].seen \subseteq r.row.seen \/ Excused(q, s)
        BY <1>1, <3>5 DEF WithoutRow, Excused
      <4>4. Given(p) \subseteq Given(q)
        BY <2>4 DEF Wider
      <4> QED BY <2>1, <3>5, <4>1, <4>2, <4>3, <4>4, HoldsWithoutRow
    <3>6. Excused(p, s) => Excused(q, s)
      BY <2>4 DEF Wider
    <3>7. FetchWhole(d, q, s)
      BY <2>1, <2>2, <3>2, <3>5, <3>6 DEF FetchWhole, FetchClock
    <3>8. ReplyWhole(d, q, s)
      BY <2>1, <3>2, <3>5, <3>6 DEF ReplyWhole
    <3> QED BY <3>3, <3>4, <3>7, <3>8 DEF WholeAt
  <2>7. WholeAt(d, q, s)
    BY <2>6, GoneIsWhole
  <2> QED BY <1>4, <2>3, <2>4, <2>5, <2>7, OthersWhole
<1>5. Whole(d, q)
  BY <1>1, <1>3, <1>4 DEF Whole, FrameUp, WithoutRow
<1> QED BY <1>2, <1>3, <1>5

\* Remove leaves the transcripts whole.
LEMMA RemoveWhole ==
    ASSUME Inv(daemon, Page), Whole(daemon, Page), NEW s \in Sessions, Remove(s)
    PROVE  Whole(daemon', Page')
<1> DEFINE c == Page
           d == daemon
           q == CommitDeletion(c, s)
<1>1. c = Page /\ d = daemon /\ q = CommitDeletion(c, s) /\ c \in Pages /\ Whole(d, c)
  BY DEF Inv
<1>2. Becomes(q) /\ UNCHANGED daemon
  BY DEF Remove
<1> HIDE DEF c, d, q
<1>3. Burial(q, c, s)
  BY <1>1, BurialDoes
<1>4. AllWhole(d, c) => AllWhole(d, q)
  BY <1>3, BurialWhole
<1>5. q \in Pages /\ Whole(d, q)
  BY <1>1, <1>3, <1>4 DEF Whole, FrameUp, Burial
<1> QED BY <1>1, <1>2, <1>5, Moves

\* No step on a transcript breaks one.
LEMMA TranscriptStepsWhole ==
    ASSUME Inv(daemon, Page), Whole(daemon, Page), TranscriptSteps
    PROVE  Whole(daemon', Page')
BY SelectWhole, EnsureHydratedWhole, FetchAnsweredWhole, FetchSettlesWhole,
   EvictWhole, RemoveWhole
DEF TranscriptSteps

-----------------------------------------------------------------------------
(* The end of the store's own reconnect. *)

\* A reconnect that is dropped leaves the transcripts whole.
LEMMA DroppedWhole ==
    ASSUME NEW d, NEW c, Inv(d, c), Whole(d, c), NEW q, q = Dropped(c)
    PROVE  Whole(d, q) /\ q \in Pages /\ Cover(q)
<1>1. OnlyStream(q, c) /\ q.str.reconnect = NoReconnect /\ q.str.cursor = c.str.cursor
      /\ q.str.frame = c.str.frame /\ (c.str.up => q.str.up)
  BY DroppedDoes DEF Inv
<1>2. SameClocks(q, c)
  BY <1>1 DEF SameClocks, NoReconnect
<1>3. AllWhole(d, c) => Clocks(d, q) /\ KeptResume(q, c)
  BY <1>1, <1>2, ClocksKept DEF AllWhole, OnlyStream
<1>4. AllWhole(d, c) => AllWhole(d, q)
  BY <1>1, <1>3, StreamWhole
<1>5. Cover(q)
  BY <1>1 DEF Inv, OnlyStream, Cover, SessionsCovered, DirectoriesCovered
<1> QED BY <1>1, <1>4, <1>5 DEF Whole, FrameUp, OnlyStream

\* A row that is a read holds all there is up to its head.
LEMMA ReadIsHeld ==
    ASSUME NEW d, NEW q, NEW s, NEW r \in Answered, TrueRead(d, s, r), r.epoch = d.epoch,
           q.st.rows[s].seen = r.row.seen, q.st.cursor[s] = r.row.last,
           q.str.cursor \in Int, q.str.cursor <= r.row.last
    PROVE  Holds(d, q, s, NoSequence)
<1> SUFFICES ASSUME NEW n \in Turns(d, s), Passed(q, s, n)
             PROVE  n \in q.st.rows[s].seen
  BY DEF Holds
<1>1. n \in Int /\ r.row.last \in Int
  BY DEF Turns, Answered, Reads, Row
<1>2. n <= r.row.last
  BY <1>1 DEF Passed
<1> QED BY <1>2 DEF TrueRead

\* The merge over an absent row is the read.
LEMMA MergeAbsent ==
    ASSUME NEW r \in Answered, r.kind = "detail"
    PROVE  Merge(r.row, NoRow) = r.row /\ 0 <= r.row.last /\ r.row.last \in Int
<1>1. 0 <= r.row.last /\ r.row.last \in Int
  BY DEF Answered, Reads, Row
<1> QED BY <1>1, Values DEF Merge

\* A resumed page has no reconnect that could be in force.
LEMMA ResumedClocks ==
    ASSUME NEW d, NEW q, q.str.reconnect = NoReconnect, q.str.frame = NoFrame,
           HeadClock(d, q), FetchClock(d, q)
    PROVE  Clocks(d, q) /\ ~Resuming(q)
<1>1. ~q.str.reconnect.active
  BY DEF NoReconnect
<1> QED
  BY <1>1 DEF Clocks, FrameClock, AskedClock, ResumeClock, InForce, Resuming

\* The reconnect goes on in the lifetime the page knows.
LEMMA ResumedWhole ==
    ASSUME NEW d, NEW p, Inv(d, p), p.st.epoch = d.epoch, AllWhole(d, p), InForce(d, p),
           NEW c, OnlyStream(c, p), NEW s \in Sessions, s = p.str.reconnect.session,
           NEW a \in Answered, a = p.str.reconnect.reply,
           NEW end \in Heads, end <= a.row.last,
           NEW jumped, jumped = (p.str.cursor + 1) .. end,
           NEW q, ResumedAs(q, c, s, a), ResumedFrom(q, c, s, end, jumped)
    PROVE  AllWhole(d, q)
<1> DEFINE merged == Merge(a.row, p.st.rows[s])
<1>1. /\ c.st = p.st /\ c.rec = p.rec /\ c.ft = p.ft /\ c.lo = p.lo
      /\ merged = Merge(a.row, p.st.rows[s])
  BY DEF OnlyStream
<1> HIDE DEF merged
<1>2. /\ q \in Pages /\ q.rec = p.rec /\ q.ft = p.ft
      /\ q.lo.overtaken = p.lo.overtaken /\ q.str.reconnect = NoReconnect
      /\ q.st.tombstones = p.st.tombstones
      /\ q.st.rows[s] = merged /\ q.st.cursor[s] = merged.last
      /\ \A t \in Sessions \ {s} : q.st.rows[t] = p.st.rows[t]
      /\ \A t \in Sessions \ {s} : q.st.cursor[t] = p.st.cursor[t]
  BY <1>1 DEF ResumedAs
<1>3. /\ q.str.cursor = end /\ q.str.frame = NoFrame
      /\ q.st.hydrated = p.st.hydrated \cup {s}
      /\ q.st.restoring = p.st.restoring /\ q.st.loadError = p.st.loadError
      /\ q.lo.jumped = p.lo.jumped \cup jumped
      /\ q.lo.unsignalled = p.lo.unsignalled /\ q.lo.crossed = p.lo.crossed
      /\ q.lo.evicted = p.lo.evicted /\ q.lo.reported = p.lo.reported
  BY <1>1 DEF ResumedFrom
<1>4. a.kind = "detail" /\ a.epoch = d.epoch /\ IsRead(p, s, a)
  BY DEF InForce, Resuming, IsRead
<1>5. TrueRead(d, s, a)
  BY <1>4 DEF Inv, RowsInv, ReadsInv
<1>6. Clocks(d, p) /\ HeadClock(d, p) /\ FetchClock(d, p)
  BY DEF AllWhole, Clocks
<1>7. /\ a.row.last \in Int /\ 0 <= a.row.last /\ a.row.last <= Len(d.log)
      /\ end \in Int /\ p.str.cursor \in Int /\ Len(d.log) \in Int
  <2>1. a.row.last \in Int /\ 0 <= a.row.last
    BY <1>4 DEF Answered, Reads, Row
  <2>2. p.str.cursor \in Int /\ Len(d.log) \in Int /\ end \in Int
    BY PageFields DEF Inv, Streams, Heads, Daemons
  <2> QED BY <1>4, <1>5, <2>1, <2>2 DEF TrueRead
<1>8. merged.last \in Int /\ 0 <= merged.last /\ merged.last <= Len(d.log)
  BY <1>1, <1>4, <1>6, MergedLast
<1>9. Clocks(d, q) /\ ~Resuming(q)
  <2>1. HeadClock(d, q)
    BY <1>2, <1>3, <1>6, <1>7, <1>8 DEF HeadClock
  <2>2. FetchClock(d, q)
    BY <1>2, <1>6 DEF FetchClock
  <2> QED BY <1>2, <1>3, <2>1, <2>2, ResumedClocks
<1>10. KeptResume(q, p)
  BY <1>9 DEF KeptResume
<1>11. Wider(q, p) /\ jumped \subseteq Given(q)
  BY <1>2, <1>3 DEF Wider, Given, Excused
<1>12. \A n \in Int : n <= q.str.cursor => n <= p.str.cursor \/ n \in Given(q)
  BY <1>3, <1>7, <1>11
<1>13. ASSUME NEW t \in Sessions \ {s}
       PROVE  Kept(q, p, t) /\ KeptReply(q, p, t) /\ Delivered(d, q, p, t)
  <2>1. Kept(q, p, t) /\ KeptReply(q, p, t)
    BY <1>2, <1>3 DEF Kept, KeptReply
  <2>2. \A n \in Turns(d, t) : n \in Int
    BY DEF Turns
  <2> QED BY <1>2, <1>12, <2>1, <2>2 DEF Delivered, Passed
<1>14. ASSUME s \notin q.st.tombstones
       PROVE  WholeAt(d, q, s)
  <2>1. /\ Known(p, s) /\ FetchWhole(d, p, s) /\ ReplyWhole(d, p, s)
        /\ ReconnectWhole(d, p, s)
    BY <1>2, <1>14 DEF AllWhole, WholeAt
  <2>2. Known(q, s)
    BY <1>2, <1>3, <1>8, <2>1 DEF Known
  <2>3. ASSUME NEW x \in Int, NEW b \in Int, x <= b \/ x <= a.row.last,
               Holds(d, p, s, x)
        PROVE  Holds(d, q, s, b)
    <3>1. Given(p) \subseteq Given(q)
      BY <1>11 DEF Wider
    <3>2. \A n \in Turns(d, s) : n \in Int
      BY DEF Turns
    <3>3. \A n \in Turns(d, s) :
            n <= q.str.cursor => n <= p.str.cursor \/ n \in Given(q) \/ n <= a.row.last
      BY <1>12, <3>2
    <3> QED BY <1>1, <1>2, <1>4, <2>3, <3>1, <3>3, MergeKeeps
  <2>4. CASE Holds(d, p, s, a.row.last)
    BY <1>2, <1>7, <2>2, <2>3, <2>4, HeldIsWhole, Values
  <2>5. CASE Excused(p, s)
    BY <1>2, <1>11, <2>2, <2>5, HeldIsWhole DEF Wider
  <2>6. CASE Absent(p, s)
    <3>1. merged = a.row
      BY <1>1, <1>4, <2>6, MergeAbsent DEF Absent
    <3>2. Holds(d, q, s, NoSequence)
      BY <1>2, <1>3, <1>4, <1>5, <1>7, <3>1, ReadIsHeld
    <3> QED BY <1>2, <2>2, <3>2, HeldIsWhole
  <2>7. CASE Pending(p, s)
    <3>1. Pending(q, s)
      BY <1>2, <1>3, <2>7 DEF Pending
    <3>2. p.ft[s].row.last \in Int /\ p.rec.reply[s].row.last \in Int
      BY PageFields DEF Inv, Recoveries, Answered, Reads, Row
    <3>3. Excused(p, s) => Excused(q, s)
      BY <1>11 DEF Wider
    <3>4. FetchWhole(d, q, s)
      BY <1>2, <2>1, <2>3, <3>2, <3>3 DEF FetchWhole
    <3>5. ReplyWhole(d, q, s)
      BY <1>2, <2>1, <2>3, <3>2, <3>3 DEF ReplyWhole
    <3> QED
      BY <1>9, <2>2, <3>1, <3>4, <3>5 DEF WholeAt, RowWhole, ReconnectWhole, InForce
  <2> QED BY <2>1, <2>4, <2>5, <2>6, <2>7 DEF ReconnectWhole
<1>15. WholeAt(d, q, s)
  BY <1>14, GoneIsWhole
<1> QED BY <1>9, <1>10, <1>11, <1>13, <1>15, OthersWhole

\* The reconnect brings the page a new lifetime.
LEMMA RenewedWhole ==
    ASSUME NEW d \in Daemons, NEW o, NEW c, NEW a \in Answered, a.kind = "detail",
           Forgotten(c, o, a.epoch), NEW s \in Sessions, TrueRead(d, s, a),
           a.epoch = d.epoch,
           NEW q, ResumedAs(q, c, s, a), ResumedFrom(q, c, s, a.row.last, {})
    PROVE  AllWhole(d, q)
<1>1. /\ q \in Pages /\ q.str.reconnect = NoReconnect
      /\ q.str.cursor = a.row.last /\ q.str.frame = NoFrame
      /\ q.st.hydrated = {s} /\ q.st.restoring = {}
      /\ q.st.rows[s] = Merge(a.row, NoRow) /\ q.st.cursor[s] = Merge(a.row, NoRow).last
      /\ \A t \in Sessions \ {s} : q.st.cursor[t] = -1 /\ q.st.rows[t] = NoRow
      /\ \A t \in Sessions : /\ q.ft[t] = Unasked
                             /\ ~q.rec.current \/ q.rec.reply[t] = Unasked
  BY DEF ResumedAs, ResumedFrom, Forgotten
<1>2. /\ q.st.rows[s] = a.row /\ q.st.cursor[s] = a.row.last
      /\ 0 <= a.row.last /\ a.row.last \in Int
  BY <1>1, MergeAbsent
<1>3. a.row.last <= Len(d.log) /\ Len(d.log) \in Nat
  BY DEF TrueRead, Daemons
<1>4. HeadClock(d, q)
  BY <1>1, <1>2, <1>3 DEF HeadClock
<1>5. FetchClock(d, q)
  BY <1>1, Values DEF FetchClock
<1>6. Clocks(d, q) /\ ~Resuming(q)
  BY <1>1, <1>4, <1>5, ResumedClocks
<1>7. Holds(d, q, s, NoSequence)
  BY <1>1, <1>2, ReadIsHeld
<1>8. WholeAt(d, q, s)
  <2>1. Known(q, s)
    BY <1>1, <1>2 DEF Known
  <2> QED BY <1>1, <1>7, <2>1, HeldIsWhole
<1>9. ASSUME NEW t \in Sessions \ {s}
      PROVE  WholeAt(d, q, t)
  <2>1. Known(q, t) /\ RowWhole(d, q, t)
    BY <1>1 DEF Known, RowWhole
  <2>2. FetchWhole(d, q, t) /\ ReplyWhole(d, q, t)
    BY <1>1, Values DEF FetchWhole, ReplyWhole
  <2>3. ReconnectWhole(d, q, t)
    BY <1>6 DEF ReconnectWhole, InForce
  <2> QED BY <2>1, <2>2, <2>3 DEF WholeAt
<1> QED BY <1>6, <1>8, <1>9 DEF AllWhole

\* ReconnectSettles leaves the transcripts whole, in either lifetime.
LEMMA ReconnectSettlesWhole ==
    ASSUME Inv(daemon, Page), Whole(daemon, Page), ReconnectSettles
    PROVE  Whole(daemon', Page')
<1> DEFINE p == Page
           d == daemon
           done == Dropped(p)
           r == stream.reconnect
           a == r.reply
           s == r.session
           c == ApplyEpochChange(done, a.epoch)
           cursor == ResumeCursor(r)
           jumped == Jumped(r)
           end == IF r.cursor >= 0 THEN r.cursor ELSE a.row.last
           q == Resumes(c, s, a, cursor, jumped)
           broken == Broken(done)
<1>1. /\ p = Page /\ d = daemon /\ done = Dropped(p) /\ c = ApplyEpochChange(done, a.epoch)
      /\ q = Resumes(c, s, a, cursor, jumped) /\ broken = Broken(done)
      /\ r = stream.reconnect /\ r = p.str.reconnect /\ a = r.reply /\ s = r.session
      /\ Inv(d, p) /\ Whole(d, p) /\ p \in Pages /\ d \in Daemons
  BY SamePage DEF Inv
<1>2. /\ UNCHANGED daemon
      /\ \/ Becomes(done)
         \/ Becomes(broken)
         \/ a.kind = "detail" /\ ~r.superseded /\ Becomes(q)
  BY ReconnectSettlesIs
<1>3. a.kind = "detail" =>
        /\ r.active /\ s \in Sessions /\ a.epoch \in Epochs /\ a \in Answered
        /\ cursor \in Heads /\ jumped \in SUBSET Sequences
  BY ResumeTyped
<1>4. /\ cursor = IF p.st.epoch = a.epoch /\ r.cursor >= 0 THEN r.cursor ELSE a.row.last
      /\ jumped = IF p.str.epoch = a.epoch THEN (p.str.cursor + 1) .. end ELSE {}
      /\ end = IF r.cursor >= 0 THEN r.cursor ELSE a.row.last
      /\ p.str.epoch = p.st.epoch
  BY SamePage DEF ResumeCursor, Jumped, Inv, RowsInv
<1> HIDE DEF p, d, done, r, a, s, c, cursor, jumped, end, q, broken
<1>5. Whole(d, done) /\ done \in Pages /\ Cover(done) /\ OnlyStream(done, p)
  BY <1>1, DroppedWhole, DroppedDoes
<1>6. CASE Becomes(done)
  BY <1>1, <1>2, <1>5, <1>6, Moves
<1>7. CASE Becomes(broken)
  <2>1. OnlyTranscripts(broken, done) /\ broken.ft = done.ft
        /\ SameTranscripts(broken.st, done.st)
    BY <1>1, <1>5, BrokenDoes
  <2>2. /\ broken \in Pages /\ broken.rec = done.rec /\ broken.str = done.str
        /\ broken.lo = done.lo /\ broken.st.epoch = done.st.epoch
    BY <2>1 DEF OnlyTranscripts, SameTranscripts
  <2>3. AllWhole(d, done) => AllWhole(d, broken)
    BY <2>1, <2>2, QuietWhole DEF SameClocks, KeptReply
  <2>4. Whole(d, broken)
    BY <1>5, <2>2, <2>3 DEF Whole, FrameUp
  <2> QED BY <1>1, <1>2, <1>7, <2>2, <2>4, Moves
<1>8. CASE a.kind = "detail" /\ ~r.superseded /\ Becomes(q)
  <2>1. EpochChanged(c, done, a.epoch)
    BY <1>1, <1>3, <1>5, <1>8, EpochChangeIs
  <2>2. c \in Pages /\ c.st.epoch = a.epoch /\ done.st = p.st
    BY <1>5, <2>1 DEF EpochChanged, OnlyStream
  <2>3. ResumedAs(q, c, s, a) /\ ResumedFrom(q, c, s, cursor, jumped)
    BY <1>1, <1>3, <1>8, <2>2, ResumesDoes
  <2>4. q \in Pages /\ q.st.epoch = a.epoch /\ FrameUp(q)
    BY <2>2, <2>3 DEF ResumedAs, ResumedFrom, FrameUp
  <2>5. ASSUME d.epoch = a.epoch
        PROVE  AllWhole(d, q)
    <3>1. CASE p.st.epoch = a.epoch
      <4>1. c = done
        BY <2>1, <2>2, <3>1 DEF EpochChanged
      <4>2. AllWhole(d, p) /\ InForce(d, p)
        BY <1>1, <1>3, <1>8, <2>5, <3>1 DEF Whole, InForce, Resuming
      <4>3. cursor = end /\ jumped = (p.str.cursor + 1) .. end
        BY <1>4, <3>1
      <4>4. r.cursor <= a.row.last
        BY <1>1, <4>2 DEF AllWhole, Clocks, ResumeClock
      <4>5. a.row.last \in Int
        BY <1>3, <1>8 DEF Answered, Reads, Row
      <4>6. end <= a.row.last
        BY <1>4, <4>4, <4>5
      <4>7. /\ Inv(d, p) /\ p.st.epoch = d.epoch /\ OnlyStream(c, p) /\ s \in Sessions
            /\ s = p.str.reconnect.session /\ a \in Answered
            /\ a = p.str.reconnect.reply /\ end \in Heads
            /\ ResumedFrom(q, c, s, end, jumped)
        BY <1>1, <1>3, <1>5, <1>8, <2>3, <2>5, <3>1, <4>1, <4>3
      <4> QED BY <2>3, <4>2, <4>3, <4>6, <4>7, ResumedWhole
    <3>2. CASE p.st.epoch # a.epoch
      <4>1. Forgotten(c, done, a.epoch)
        BY <1>1, <1>3, <1>5, <1>8, <2>2, <3>2, EpochChangeForgets
      <4>2. cursor = a.row.last /\ jumped = {}
        BY <1>4, <3>2
      <4>3. TrueRead(d, s, a)
        BY <1>1, <1>3, <1>8 DEF Inv, RowsInv, ReadsInv, IsRead
      <4> QED BY <1>1, <1>3, <1>8, <2>3, <2>5, <4>1, <4>2, <4>3, RenewedWhole
    <3> QED BY <3>1, <3>2
  <2> QED BY <1>1, <1>2, <1>8, <2>4, <2>5, Moves DEF Whole
<1> QED BY <1>2, <1>6, <1>7, <1>8

\* No step of the stream breaks a transcript.
LEMMA StreamStepsWhole ==
    ASSUME Inv(daemon, Page), Whole(daemon, Page), StreamSteps
    PROVE  Whole(daemon', Page')
BY DisconnectWhole, ConnectWhole, ReceiveResyncWhole, ReceiveEventWhole,
   SwitchTransportWhole, ReconnectAnsweredWhole, ReconnectSettlesWhole
DEF StreamSteps

-----------------------------------------------------------------------------
(* The recovery pass's reads. *)

\* What the pass may do to the obligations without a transcript noticing.
LEMMA WorkWhole ==
    ASSUME NEW d, NEW c, NEW q, Whole(d, c), OnlyWork(q, c),
           \A t \in Sessions :
              /\ KeptReply(q, c, t)
              /\ (t \in q.rec.residents <=> t \in c.rec.residents) \/ t \in c.st.tombstones
    PROVE  Whole(d, q)
<1>1. q.st = c.st /\ q.str = c.str /\ q.ft = c.ft /\ q.lo = c.lo
  BY DEF OnlyWork
<1>2. ASSUME AllWhole(d, c)
      PROVE  AllWhole(d, q)
  <2>1. Clocks(d, q) /\ KeptResume(q, c)
    BY <1>1, <1>2, ClocksKept DEF SameClocks, AllWhole
  <2>2. Wider(q, c)
    BY <1>1, SameWider
  <2>3. ASSUME NEW t \in Sessions
        PROVE  WholeAt(d, q, t)
    <3>1. CASE t \in c.st.tombstones
      BY <1>1, <3>1, GoneIsWhole
    <3>2. CASE t \notin c.st.tombstones
      <4>1. Kept(q, c, t) /\ KeptReply(q, c, t) /\ Delivered(d, q, c, t)
        BY <1>1, <3>2, SameDelivered DEF Kept
      <4> QED BY <1>2, <2>1, <2>2, <4>1, Untouched DEF AllWhole
    <3> QED BY <3>1, <3>2
  <2> QED BY <2>1, <2>3 DEF AllWhole
<1> QED BY <1>1, <1>2 DEF Whole, FrameUp

\* RecoverySkips leaves the transcripts whole.
LEMMA RecoverySkipsWhole ==
    ASSUME Inv(daemon, Page), Whole(daemon, Page), NEW s \in Sessions, RecoverySkips(s)
    PROVE  Whole(daemon', Page')
<1> DEFINE p == Page
           c == PassItemDone(p, s)
           q == Drained(c, s)
<1>1. /\ p = Page /\ Inv(daemon, p) /\ c = PassItemDone(p, s) /\ q = Drained(c, s)
      /\ Whole(daemon, p)
  OBVIOUS
<1>2. UNCHANGED daemon /\ (Becomes(c) \/ (Becomes(q) /\ s \in p.st.tombstones))
  BY SamePage DEF RecoverySkips, Drained
<1> HIDE DEF p, c, q
<1>3. p \in Pages
  BY <1>1 DEF Inv
<1>4. OnlyWork(c, p) /\ SameWork(c.rec, p.rec) /\ c.rec.current = p.rec.current
  BY <1>1, <1>3, ItemDoneDoes, PassedOverFields, PageFields
<1>5. c \in Pages /\ Whole(daemon, c)
  BY <1>1, <1>4, WorkWhole DEF OnlyWork, SameWork, KeptReply
<1>6. ASSUME s \in p.st.tombstones
      PROVE  q \in Pages /\ Whole(daemon, q)
  <2>1. /\ OnlyWork(q, c) /\ q.rec.residents = c.rec.residents \ {s}
        /\ q.rec.reply = c.rec.reply /\ SamePass(q.rec, c.rec)
    BY <1>1, <1>5, DrainedDoes, DismissedFields, PageFields
  <2>2. s \in c.st.tombstones
    BY <1>4, <1>6 DEF OnlyWork
  <2> QED BY <1>5, <2>1, <2>2, WorkWhole DEF OnlyWork, SamePass, KeptReply
<1> QED BY <1>2, <1>5, <1>6, Moves

\* A read that was just answered leaves nothing to hold.
LEMMA FreshHolds ==
    ASSUME NEW d \in Daemons, NEW q \in Pages, HeadClock(d, q), NEW s \in Sessions
    PROVE  Holds(d, q, s, Len(d.log))
<1>1. q.str.cursor \in Int /\ q.st.cursor[s] \in Int /\ Len(d.log) \in Nat
  BY PageFields DEF Streams, Stores, Heads, Cursors, Daemons
<1>2. \A n \in Turns(d, s) : n \in Int
  BY DEF Turns
<1> QED BY <1>1, <1>2 DEF Holds, Passed, HeadClock

\* RecoveryReads leaves the transcripts whole: what was just read is all there is.
LEMMA RecoveryReadsWhole ==
    ASSUME Inv(daemon, Page), Whole(daemon, Page), NEW s \in Sessions, RecoveryReads(s)
    PROVE  Whole(daemon', Page')
<1>1. PICK a \in Outcomes(s) : Becomes([Page EXCEPT !.rec.reply[s] = a])
  BY DEF RecoveryReads
<1> DEFINE p == Page
           d == daemon
           reply == [p.rec.reply EXCEPT ![s] = a]
           rec == [p.rec EXCEPT !.reply = reply]
           q == [p EXCEPT !.rec = rec]
<1>2. /\ Becomes(q) /\ p = Page /\ q = [p EXCEPT !.rec = rec] /\ UNCHANGED d
      /\ Whole(d, p) /\ d \in Daemons
  BY <1>1, SamePage DEF Page, RecoveryReads
<1>3. a \in Answered /\ (a.kind = "detail" => a.row.last = Len(d.log))
  BY SamePage, AnswerIs
<1>4. p \in Pages /\ p.rec \in Recoveries
  BY PageFields DEF Inv
<1> HIDE DEF p, q
<1>5. /\ reply \in [Sessions -> Answered] /\ reply[s] = a
      /\ \A t \in Sessions \ {s} : reply[t] = p.rec.reply[t]
  BY <1>3, <1>4 DEF Recoveries
<1> HIDE DEF reply
<1>6. /\ rec \in Recoveries /\ rec.reply = reply
      /\ rec.residents = p.rec.residents /\ rec.current = p.rec.current
  BY <1>4, <1>5 DEF Recoveries
<1> HIDE DEF rec
<1>7. OnlyWork(q, p) /\ q.rec = rec
  BY <1>2, <1>4, <1>6, NewWork
<1> HIDE DEF d
<1>8. q.st = p.st /\ q.str = p.str /\ q.ft = p.ft /\ q.lo = p.lo /\ q \in Pages
  BY <1>7 DEF OnlyWork
<1>9. ASSUME AllWhole(d, p)
      PROVE  AllWhole(d, q)
  <2>1. Clocks(d, q) /\ KeptResume(q, p)
    BY <1>8, <1>9, ClocksKept DEF SameClocks, AllWhole
  <2>2. Wider(q, p)
    BY <1>8, SameWider
  <2>3. ASSUME NEW t \in Sessions
        PROVE  Kept(q, p, t) /\ Delivered(d, q, p, t) /\ (t # s => KeptReply(q, p, t))
    BY <1>5, <1>6, <1>7, <1>8, SameDelivered DEF Kept, KeptReply
  <2>4. WholeAt(d, q, s)
    <3> SUFFICES ASSUME s \notin q.st.tombstones
                 PROVE  WholeAt(d, q, s)
      BY GoneIsWhole
    <3>1. /\ Known(p, s) /\ RowWhole(d, p, s) /\ FetchWhole(d, p, s)
          /\ ReconnectWhole(d, p, s)
      BY <1>8, <1>9 DEF AllWhole, WholeAt
    <3>2. ASSUME NEW x, Holds(d, p, s, x)
          PROVE  Holds(d, q, s, x)
      BY <1>8, <2>2, <2>3, <3>2, HoldsKept DEF Wider
    <3>3. /\ Excused(p, s) => Excused(q, s)
          /\ Pending(p, s) => Pending(q, s)
          /\ s \in p.rec.residents => s \in q.rec.residents
      BY <1>6, <1>7, <1>8, <2>2 DEF Wider, Pending
    <3>4. Known(q, s)
      BY <1>8, <3>1 DEF Known
    <3>5. RowWhole(d, q, s)
      BY <1>8, <3>1, <3>2, <3>3 DEF RowWhole
    <3>6. FetchWhole(d, q, s)
      BY <1>8, <3>1, <3>2, <3>3 DEF FetchWhole
    <3>7. ReconnectWhole(d, q, s)
      BY <1>8, <3>1, <3>2, <3>3 DEF ReconnectWhole, InForce, Resuming, Absent
    <3>8. ReplyWhole(d, q, s)
      <4>1. Holds(d, q, s, Len(d.log))
        BY <1>2, <1>8, <2>1, FreshHolds DEF Clocks
      <4> QED BY <1>3, <1>5, <1>6, <1>7, <4>1 DEF ReplyWhole
    <3> QED BY <3>4, <3>5, <3>6, <3>7, <3>8 DEF WholeAt
  <2> QED BY <1>9, <2>1, <2>2, <2>3, <2>4, OthersWhole
<1>10. Whole(d, q)
  BY <1>2, <1>8, <1>9 DEF Whole, FrameUp
<1> QED BY <1>2, <1>8, <1>10, Moves DEF d

\* The outcome of a recovery read: nothing, or the session is gone, or what was
\* read is merged, or it was overtaken.
Recovered(q, b, s, a) ==
    /\ a.kind = "detail" /\ a.epoch = b.st.epoch
    /\ s \notin b.st.tombstones /\ s \notin q.st.tombstones
    /\ q.st.rows[s] = Merge(a.row, b.st.rows[s]) /\ q.st.cursor[s] = q.st.rows[s].last
    /\ s \in q.st.restoring <=> s \in b.st.restoring

\* What the verdict on session s does.
RecoveryOutcome(q, b, s, a) ==
    /\ q \in Pages /\ q.str = b.str /\ q.ft = b.ft /\ q.st.epoch = b.st.epoch
    /\ q.rec.reply = b.rec.reply /\ (q.rec.current => b.rec.current)
    /\ Wider(q, b)
    /\ \A t \in Sessions \ {s} : Kept(q, b, t)
    /\ \/ q = b
       \/ s \in q.st.tombstones /\ q.st.cursor[s] = b.st.cursor[s]
       \/ Recovered(q, b, s, a)
       \/ s \in q.lo.overtaken /\ q.st = b.st

\* A resident is drained once its session has one of these outcomes.
LEMMA DrainedOutcome ==
    ASSUME NEW b \in Pages, NEW s \in Sessions, NEW a, NEW c \in Pages,
           NEW q, q = Drained(c, s),
           c.rec.reply = b.rec.reply, c.rec.current => b.rec.current,
           \A t \in Sessions \ {s} : t \in c.rec.residents <=> t \in b.rec.residents,
           c.str = b.str, c.ft = b.ft, c.st.epoch = b.st.epoch, Wider(c, b),
           \A t \in Sessions \ {s} :
              /\ t \in c.st.tombstones <=> t \in b.st.tombstones
              /\ t \in c.st.hydrated <=> t \in b.st.hydrated
              /\ t \in c.st.restoring <=> t \in b.st.restoring
              /\ t \in c.st.loadError <=> t \in b.st.loadError
              /\ c.st.rows[t] = b.st.rows[t] /\ c.st.cursor[t] = b.st.cursor[t],
           \/ s \in c.st.tombstones /\ c.st.cursor[s] = b.st.cursor[s]
           \/ Recovered(c, b, s, a)
           \/ s \in c.lo.overtaken /\ c.st = b.st
    PROVE  RecoveryOutcome(q, b, s, a)
<1>1. /\ OnlyWork(q, c) /\ q.rec.residents = c.rec.residents \ {s}
      /\ q.rec.reply = c.rec.reply /\ SamePass(q.rec, c.rec)
  BY DrainedDoes, DismissedFields, PageFields
<1>2. /\ q \in Pages /\ q.st = c.st /\ q.str = c.str /\ q.ft = c.ft /\ q.lo = c.lo
      /\ q.rec.current => c.rec.current
  BY <1>1 DEF OnlyWork, SamePass
<1>3. Wider(q, b)
  BY <1>2 DEF Wider, Given, Excused
<1>4. \A t \in Sessions \ {s} : Kept(q, b, t)
  BY <1>1, <1>2 DEF Kept
<1>5. Recovered(c, b, s, a) => Recovered(q, b, s, a)
  BY <1>2 DEF Recovered
<1> QED BY <1>1, <1>2, <1>3, <1>4, <1>5 DEF RecoveryOutcome

\* A read that was overtaken is recorded as such.
LEMMA OvertakenWider ==
    ASSUME NEW c \in Pages, NEW s \in Sessions, NEW q, q = Overtaken(c, s)
    PROVE  Wider(q, c) /\ s \in q.lo.overtaken
<1> DEFINE lo == [c.lo EXCEPT !.overtaken = @ \cup {s}]
<1>1. /\ lo.overtaken = c.lo.overtaken \cup {s}
      /\ lo.jumped = c.lo.jumped /\ lo.unsignalled = c.lo.unsignalled
      /\ lo.crossed = c.lo.crossed /\ lo.evicted = c.lo.evicted
      /\ lo.reported = c.lo.reported
  BY PageFields DEF Loss
<1>2. q = [c EXCEPT !.lo = lo]
  BY DEF Overtaken
<1> HIDE DEF lo
<1>3. q.lo = lo
  BY <1>2 DEF Pages
<1> QED BY <1>1, <1>3 DEF Wider, Given, Excused

\* RecoveryVerdict has one of these outcomes.
LEMMA VerdictOutcome ==
    ASSUME NEW b \in Pages, Cover(b), NEW s \in Sessions \ b.rec.stale,
           NEW a \in Answered,
           NEW q, q = RecoveryVerdict(b, s, a)
    PROVE  RecoveryOutcome(q, b, s, a)
<1> DEFINE gone == CommitDeletion(b, s)
           read == CommitDetail(b, s, a.row)
           counted == Counting(read, {s} \ b.rec.stale)
           late == Overtaken(b, s)
<1>1. gone = CommitDeletion(b, s) /\ read = CommitDetail(b, s, a.row)
      /\ counted = Counting(read, {s} \ b.rec.stale)
      /\ late = Overtaken(b, s)
  OBVIOUS
<1>2. \/ q = b
      \/ s \in b.st.tombstones /\ q = Drained(b, s)
      \/ q = Drained(gone, s)
      \/ /\ s \notin b.st.tombstones /\ a.kind = "detail" /\ a.epoch = b.st.epoch
         /\ q = Drained(counted, s)
      \/ q = Drained(late, s)
  BY DEF RecoveryVerdict, Counting, Counted, Overtaken
<1> HIDE DEF gone, read, counted, late
<1>3. Wider(b, b) /\ \A t : Kept(b, b, t)
  BY DEF Wider, Kept
<1>4. CASE q = b
  BY <1>3, <1>4 DEF RecoveryOutcome
<1>5. CASE s \in b.st.tombstones /\ q = Drained(b, s)
  BY <1>3, <1>5, DrainedOutcome
<1>6. CASE q = Drained(gone, s)
  <2>1. OnlyTranscripts(gone, b) /\ gone.ft = b.ft /\ gone.st = Buried(b.st, s)
    BY <1>1, DeletionDoes
  <2>2. /\ gone.st.epoch = b.st.epoch /\ gone.st.cursor = b.st.cursor
        /\ gone.st.tombstones = b.st.tombstones \cup {s}
        /\ gone.st.hydrated = b.st.hydrated \ {s}
        /\ gone.st.loadError = b.st.loadError \ {s}
        /\ gone.st.restoring = b.st.restoring \ {s}
        /\ \A t \in Sessions \ {s} : gone.st.rows[t] = b.st.rows[t]
    BY <2>1, PageFields, BuriedFields DEF SameChrome
  <2>3. gone \in Pages /\ gone.rec = b.rec /\ gone.str = b.str /\ Wider(gone, b)
    BY <2>1, SameWider DEF OnlyTranscripts
  <2> QED BY <1>6, <2>1, <2>2, <2>3, DrainedOutcome
<1>7. CASE /\ s \notin b.st.tombstones /\ a.kind = "detail" /\ a.epoch = b.st.epoch
           /\ q = Drained(counted, s)
  <2> DEFINE merged == Merge(a.row, b.st.rows[s])
             more == {s} \ b.rec.stale
             rec == Counted(read.rec, more)
  <2>1. a.row \in Row /\ merged = Merge(a.row, b.st.rows[s])
    BY DEF Answered, Reads
  <2>2. /\ OnlyTranscripts(read, b) /\ read.ft = b.ft /\ merged \in Row
        /\ read.st = WithDetail(b.st, s, merged)
    BY <1>1, <1>7, <2>1, DetailDoes
  <2> HIDE DEF merged
  <2>3. /\ read.st.epoch = b.st.epoch /\ read.st.tombstones = b.st.tombstones
        /\ read.st.hydrated = b.st.hydrated \cup {s}
        /\ read.st.loadError = b.st.loadError \ {s}
        /\ read.st.restoring = b.st.restoring
        /\ read.st.rows[s] = merged /\ read.st.cursor[s] = merged.last
        /\ \A t \in Sessions \ {s} : read.st.rows[t] = b.st.rows[t]
        /\ \A t \in Sessions \ {s} : read.st.cursor[t] = b.st.cursor[t]
    BY <2>2, PageFields, WithDetailFields DEF SameChrome
  <2>4. /\ read \in Pages /\ read.rec = b.rec /\ read.str = b.str /\ read.lo = b.lo
    BY <2>2 DEF OnlyTranscripts
  <2>5. more \in SUBSET Sessions /\ counted = Counting(read, more)
    BY <1>1
  <2> HIDE DEF more
  <2>6. /\ rec \in Recoveries /\ rec.residents = b.rec.residents
        /\ rec.reply = b.rec.reply /\ (rec.current => b.rec.current)
    BY <2>4, <2>5, PageFields DEF Counted, Recoveries
  <2>7. counted = [read EXCEPT !.rec = rec]
    BY <2>5 DEF Counting
  <2> HIDE DEF rec
  <2>8. OnlyWork(counted, read) /\ counted.rec = rec
    BY <2>4, <2>6, <2>7, NewWork
  <2>9. /\ counted \in Pages /\ counted.st = read.st /\ counted.str = b.str
        /\ counted.ft = b.ft /\ counted.lo = b.lo /\ Wider(counted, b)
    BY <2>2, <2>4, <2>8, SameWider DEF OnlyWork
  <2>10. Recovered(counted, b, s, a)
    BY <1>7, <2>1, <2>3, <2>9 DEF Recovered
  <2> QED BY <1>7, <2>3, <2>6, <2>8, <2>9, <2>10, DrainedOutcome
<1>8. CASE q = Drained(late, s)
  <2>1. /\ late \in Pages /\ late.st = b.st /\ late.rec = b.rec
        /\ late.str = b.str /\ late.ft = b.ft
    BY <1>1, OvertakenKeeps
  <2>2. Wider(late, b) /\ s \in late.lo.overtaken
    BY <1>1, OvertakenWider
  <2> QED BY <1>8, <2>1, <2>2, DrainedOutcome
<1> QED BY <1>2, <1>4, <1>5, <1>6, <1>7, <1>8

\* The verdict leaves the transcripts whole, given what the read's reply held.
LEMMA OutcomeWhole ==
    ASSUME NEW d, NEW p, Inv(d, p), AllWhole(d, p), p.st.epoch = d.epoch,
           NEW s \in Sessions, p.rec.current, NEW a, a = p.rec.reply[s],
           NEW b, OnlyWork(b, p), AllWhole(d, b),
           NEW q, RecoveryOutcome(q, b, s, a)
    PROVE  AllWhole(d, q)
<1>1. /\ q \in Pages /\ q.str = b.str /\ q.ft = b.ft /\ q.st.epoch = b.st.epoch
      /\ q.rec.reply = b.rec.reply /\ (q.rec.current => b.rec.current)
      /\ Wider(q, b) /\ \A t \in Sessions \ {s} : Kept(q, b, t)
      /\ b.st = p.st /\ b.str = p.str /\ b.lo = p.lo /\ b.ft = p.ft
  BY DEF RecoveryOutcome, OnlyWork
<1>2. HeadClock(d, p) /\ Clocks(d, b)
  BY DEF AllWhole, Clocks
<1>3. a \in Answered /\ (a.kind = "detail" => IsRead(p, s, a))
  BY PageFields DEF Inv, IsRead, Recoveries
<1> DEFINE merged == Merge(a.row, p.st.rows[s])
<1>4. merged = Merge(a.row, p.st.rows[s])
  OBVIOUS
<1> HIDE DEF merged
<1>5. Recovered(q, b, s, a) =>
         /\ a.kind = "detail" /\ a.epoch = d.epoch
         /\ s \notin p.st.tombstones /\ s \notin q.st.tombstones
         /\ q.st.rows[s] = merged /\ q.st.cursor[s] = merged.last
         /\ s \in q.st.restoring <=> s \in p.st.restoring
         /\ merged.last \in Int /\ 0 <= merged.last /\ merged.last <= Len(d.log)
  <2> SUFFICES ASSUME Recovered(q, b, s, a)
               PROVE  /\ a.kind = "detail" /\ a.epoch = d.epoch
                      /\ s \notin p.st.tombstones /\ s \notin q.st.tombstones
                      /\ q.st.rows[s] = merged /\ q.st.cursor[s] = merged.last
                      /\ s \in q.st.restoring <=> s \in p.st.restoring
                      /\ merged.last \in Int /\ 0 <= merged.last /\ merged.last <= Len(d.log)
    OBVIOUS
  <2>1. /\ a.kind = "detail" /\ a.epoch = d.epoch
        /\ s \notin p.st.tombstones /\ s \notin q.st.tombstones
        /\ q.st.rows[s] = merged /\ q.st.cursor[s] = merged.last
        /\ s \in q.st.restoring <=> s \in p.st.restoring
    BY <1>1, <1>4 DEF Recovered
  <2>2. merged.last \in Int /\ 0 <= merged.last /\ merged.last <= Len(d.log)
    BY <1>2, <1>3, <1>4, <2>1, MergedLast
  <2> QED BY <2>1, <2>2
<1>6. \/ q = b
      \/ s \in q.st.tombstones /\ q.st.cursor[s] = b.st.cursor[s]
      \/ Recovered(q, b, s, a)
      \/ s \in q.lo.overtaken /\ q.st = b.st
  BY DEF RecoveryOutcome
<1>7. \A t \in Sessions : q.st.cursor[t] = b.st.cursor[t] \/ q.st.cursor[t] <= Len(d.log)
  BY <1>1, <1>5, <1>6 DEF Kept
<1>8. Clocks(d, q) /\ KeptResume(q, b)
  BY <1>1, <1>2, <1>7, ClocksKept DEF SameClocks
<1>9. ASSUME NEW t \in Sessions \ {s}
      PROVE  Kept(q, b, t) /\ KeptReply(q, b, t) /\ Delivered(d, q, b, t)
  BY <1>1, SameDelivered DEF Kept, KeptReply
<1>10. s \notin p.st.tombstones => Known(p, s) /\ ReplyWhole(d, p, s)
  BY DEF AllWhole, WholeAt
<1>11. CASE q = b
  BY <1>11
<1>12. CASE s \in q.st.tombstones
  BY <1>1, <1>8, <1>9, <1>12, GoneIsWhole, OthersWhole
<1>13. CASE Recovered(q, b, s, a)
  <2>1. Known(q, s)
    BY <1>1, <1>5, <1>10, <1>13 DEF Known
  <2>2. Holds(d, p, s, a.row.last) \/ Excused(p, s)
    BY <1>5, <1>10, <1>13 DEF ReplyWhole
  <2>3. ASSUME Holds(d, p, s, a.row.last)
        PROVE  Holds(d, q, s, NoSequence)
    <3>1. Given(p) \subseteq Given(q)
      BY <1>1 DEF Wider, Given
    <3>2. \A n \in Turns(d, s) :
            n <= q.str.cursor => n <= p.str.cursor \/ n \in Given(q) \/ n <= a.row.last
      BY <1>1
    <3>3. a.row.last \in Int /\ NoSequence \in Int /\ a.row.last <= a.row.last
      BY <1>3, Values DEF Answered, Reads, Row
    <3>4. /\ IsRead(p, s, a) /\ a.epoch = d.epoch
          /\ q.st.rows[s] = merged /\ q.st.cursor[s] = merged.last
      BY <1>3, <1>5, <1>13
    <3> QED BY <1>3, <1>4, <2>3, <3>1, <3>2, <3>3, <3>4, MergeKeeps
  <2>4. Excused(p, s) => Excused(q, s)
    BY <1>1 DEF Wider, Excused
  <2>5. WholeAt(d, q, s)
    BY <1>1, <2>1, <2>2, <2>3, <2>4, HeldIsWhole
  <2> QED BY <1>1, <1>8, <1>9, <2>5, OthersWhole
<1>14. CASE s \in q.lo.overtaken /\ q.st = b.st
  <2>1. s \notin p.st.tombstones => Known(q, s)
    BY <1>1, <1>10, <1>14 DEF Known
  <2>2. Excused(q, s)
    BY <1>14 DEF Excused
  <2>3. WholeAt(d, q, s)
    <3>1. CASE s \in q.st.tombstones
      BY <3>1, GoneIsWhole
    <3>2. CASE s \notin q.st.tombstones
      BY <1>1, <1>14, <2>1, <2>2, <3>2, HeldIsWhole
    <3> QED BY <3>1, <3>2
  <2> QED BY <1>1, <1>8, <1>9, <2>3, OthersWhole
<1> QED BY <1>6, <1>11, <1>12, <1>13, <1>14

\* RecoverySettles leaves the transcripts whole.
LEMMA RecoverySettlesWhole ==
    ASSUME Inv(daemon, Page), Whole(daemon, Page), NEW s \in Sessions, RecoverySettles(s)
    PROVE  Whole(daemon', Page')
<1> DEFINE p == Page
           d == daemon
           b == ReadOver(p, s)
           a == p.rec.reply[s]
           v == RecoveryVerdict(b, s, a)
<1>1. /\ p = Page /\ b = ReadOver(p, s) /\ a = p.rec.reply[s]
      /\ v = RecoveryVerdict(b, s, a) /\ Inv(d, p) /\ Whole(d, p)
  OBVIOUS
<1> HIDE DEF p, b, a, v
<1>2. p \in Pages /\ Cover(p)
  BY <1>1 DEF Inv
<1>3. a \in Answered
  BY <1>1, <1>2, PageFields DEF Recoveries
<1>4. /\ UNCHANGED d /\ a # Unasked
      /\ \/ ~p.rec.current /\ Becomes(b)
         \/ /\ p.rec.current
            /\ (s \notin p.rec.stale => Becomes([v EXCEPT !.rec.stale = @ \ {s}]))
  BY <1>1, <1>2, RecoverySettlesIs
<1> HIDE DEF d
<1>5. OnlyWork(b, p) /\ Cover(b) /\ s \notin b.rec.stale
  BY <1>1, <1>2, UnreadKeeps
<1>6. b.rec = Unread(p.rec, s)
  BY <1>1, <1>2 DEF ReadOver, Pages
<1>7. /\ b.rec.residents = p.rec.residents /\ b.rec.current = p.rec.current
      /\ b.rec.reply[s] = Unasked
      /\ \A t \in Sessions \ {s} : b.rec.reply[t] = p.rec.reply[t]
  BY <1>2, <1>6, UnreadFields, PageFields
<1>8. Whole(d, b)
  BY <1>1, <1>5, <1>7, Values, WorkWhole DEF KeptReply
<1>9. b \in Pages
  BY <1>5 DEF OnlyWork
<1>10. ASSUME p.rec.current
       PROVE  v \in Pages /\ Becomes(v) /\ Whole(d, v)
  <2>1. s \notin p.rec.stale
    BY <1>1, <1>2, <1>4, <1>10 DEF Cover, PassInv
  <2>2. RecoveryOutcome(v, b, s, a)
    BY <1>1, <1>3, <1>5, <1>9, VerdictOutcome
  <2>3. /\ v \in Pages /\ v.str = b.str /\ v.st.epoch = b.st.epoch /\ b.st = p.st
    BY <1>5, <2>2 DEF RecoveryOutcome, OnlyWork
  <2>4. v.rec.stale = b.rec.stale
    BY <1>1, <1>3, <1>5, <1>9, VerdictDoes DEF Verdict, VerdictOf
  <2>5. Becomes(v)
    <3> DEFINE w == [v EXCEPT !.rec.stale = @ \ {s}]
    <3>1. w = v
      BY <1>5, <2>3, <2>4 DEF Pages, Recoveries
    <3>2. Becomes(w)
      BY <1>4, <1>10, <2>1
    <3> QED BY <3>1, <3>2
  <2>6. ASSUME v.st.epoch = d.epoch
        PROVE  AllWhole(d, v)
    <3>1. AllWhole(d, p) /\ AllWhole(d, b) /\ p.st.epoch = d.epoch
      BY <1>1, <1>8, <2>3, <2>6 DEF Whole
    <3> QED BY <1>1, <1>5, <1>10, <2>2, <3>1, OutcomeWhole
  <2> QED BY <1>8, <2>3, <2>5, <2>6 DEF Whole, FrameUp
<1> QED BY <1>4, <1>8, <1>9, <1>10, Moves DEF d

-----------------------------------------------------------------------------
(* The end of a pass, and the listings. *)

\* A pass without reads in flight owes the transcripts nothing.
LEMMA IdleReplies ==
    ASSUME NEW c \in Pages, Cover(c), c.rec.todo = {}, NEW q,
           q.rec.reply = c.rec.reply, NEW s \in Sessions
    PROVE  KeptReply(q, c, s)
BY NothingInFlight, Values DEF KeptReply

\* A pass that ends leaves the transcripts whole.
LEMMA EndPassWhole ==
    ASSUME NEW d, NEW c \in Pages, Cover(c), Whole(d, c), c.rec.todo = {},
           c.rec.stage # "idle", NEW q, q = EndPass(c)
    PROVE  q \in Pages /\ Whole(d, q)
<1>1. /\ OnlyWork(q, c) /\ q.rec.reply = c.rec.reply
      /\ q.rec.residents = c.rec.residents
  BY EndPassCovers
<1>2. \A s \in Sessions : KeptReply(q, c, s)
  BY <1>1, IdleReplies
<1> QED BY <1>1, <1>2, WorkWhole DEF OnlyWork

\* ResidentsDone leaves the transcripts whole.
LEMMA ResidentsDoneWhole ==
    ASSUME Inv(daemon, Page), Whole(daemon, Page), ResidentsDone
    PROVE  Whole(daemon', Page')
<1> DEFINE p == Page
           end == EndPass(p)
           rec == [p.rec EXCEPT !.stage = "directories", !.todo = p.rec.directories]
           next == [p EXCEPT !.rec = rec]
<1>1. /\ p = Page /\ Inv(daemon, p) /\ end = EndPass(p)
      /\ next = [p EXCEPT !.rec = rec] /\ Whole(daemon, p)
  OBVIOUS
<1>2. /\ UNCHANGED daemon /\ p.rec.stage = "residents" /\ p.rec.todo = {}
      /\ Becomes(next) \/ Becomes(end)
  BY SamePage DEF ResidentsDone
<1> HIDE DEF p, end, next
<1>3. p \in Pages /\ Cover(p) /\ p.rec \in Recoveries
  BY <1>1, PageFields DEF Inv
<1>4. end \in Pages /\ Whole(daemon, end)
  BY <1>1, <1>2, <1>3, EndPassWhole
<1>5. rec \in Recoveries /\ SameWork(rec, p.rec)
  BY <1>3 DEF Recoveries, SameWork
<1> HIDE DEF rec
<1>6. OnlyWork(next, p) /\ next.rec = rec
  BY <1>1, <1>3, <1>5, NewWork
<1>7. next \in Pages /\ Whole(daemon, next)
  <2>1. next.rec.reply = p.rec.reply /\ next.rec.residents = p.rec.residents
    BY <1>5, <1>6 DEF SameWork
  <2>2. \A s \in Sessions : KeptReply(next, p, s)
    BY <1>2, <1>3, <2>1, IdleReplies
  <2> QED BY <1>1, <1>6, <2>1, <2>2, WorkWhole DEF OnlyWork
<1> QED BY <1>2, <1>4, <1>7, Moves

\* DirectoriesDone leaves the transcripts whole.
LEMMA DirectoriesDoneWhole ==
    ASSUME Inv(daemon, Page), Whole(daemon, Page), DirectoriesDone
    PROVE  Whole(daemon', Page')
<1> DEFINE p == Page
           end == EndPass(p)
<1>1. p = Page /\ Inv(daemon, p) /\ end = EndPass(p) /\ Whole(daemon, p)
  OBVIOUS
<1>2. /\ UNCHANGED daemon /\ p.rec.stage # "idle" /\ p.rec.todo = {} /\ Becomes(end)
  BY SamePage DEF DirectoriesDone
<1> HIDE DEF p, end
<1>3. end \in Pages /\ Whole(daemon, end)
  BY <1>1, <1>2, EndPassWhole DEF Inv
<1> QED BY <1>2, <1>3, Moves

\* RetryTimer leaves the transcripts whole.
LEMMA RetryTimerWhole ==
    ASSUME Inv(daemon, Page), Whole(daemon, Page), RetryTimer
    PROVE  Whole(daemon', Page')
<1> DEFINE p == Page
           rec == [p.rec EXCEPT !.timer = FALSE]
           b == [p EXCEPT !.rec = rec]
           q == StartPass(b)
<1>1. /\ p = Page /\ Inv(daemon, p) /\ b = [p EXCEPT !.rec = rec] /\ q = StartPass(b)
      /\ Whole(daemon, p)
  OBVIOUS
<1>2. UNCHANGED daemon /\ Becomes(q)
  BY SamePage DEF RetryTimer
<1> HIDE DEF p, b, q
<1>3. p \in Pages /\ PassInv(p.rec) /\ p.rec \in Recoveries
  BY <1>1, PageFields DEF Inv, Cover
<1>4. rec \in Recoveries /\ SameWork(rec, p.rec) /\ SamePass(rec, p.rec)
  BY <1>3 DEF Recoveries, SameWork, SamePass
<1> HIDE DEF rec
<1>5. OnlyWork(b, p) /\ b.rec = rec
  BY <1>1, <1>3, <1>4, NewWork
<1>6. OnlyWork(q, b) /\ b \in Pages
  BY <1>1, <1>5, StartPassDoes DEF OnlyWork
<1>7. SameWork(q.rec, rec) /\ (SamePass(q.rec, rec) \/ Begun(q.rec, rec))
  BY <1>1, <1>5, <1>6, BegunOrSame
<1>8. /\ OnlyWork(q, p) /\ SameWork(q.rec, p.rec)
      /\ SamePass(q.rec, p.rec) \/ Begun(q.rec, p.rec)
  BY <1>4, <1>5, <1>6, <1>7 DEF OnlyWork, SameWork, SamePass, Begun
<1>9. \A s \in Sessions : KeptReply(q, p, s)
  BY <1>3, <1>8, PassReplies DEF SameWork
<1>10. q \in Pages /\ Whole(daemon, q)
  BY <1>1, <1>8, <1>9, WorkWhole DEF OnlyWork, SameWork
<1> QED BY <1>2, <1>10, Moves

\* The listings have no part in the transcripts.
LEMMA RelistedWhole ==
    ASSUME NEW dm, NEW c, NEW q, NEW d, Whole(dm, c), Relisted(q, c, d)
    PROVE  Whole(dm, q)
<1>1. /\ q.str = c.str /\ q.ft = c.ft /\ q.lo = c.lo /\ SameTranscripts(q.st, c.st)
      /\ q.rec.residents = c.rec.residents /\ q.rec.reply = c.rec.reply
      /\ q.rec.current = c.rec.current
  BY DEF Relisted, OtherWork
<1>2. AllWhole(dm, c) => AllWhole(dm, q)
  BY <1>1, QuietWhole DEF SameClocks, KeptReply
<1> QED BY <1>1, <1>2 DEF Whole, FrameUp, SameTranscripts

\* No step of the recovery, and no listing, breaks a transcript.
LEMMA RecoveryStepsWhole ==
    ASSUME Inv(daemon, Page), Whole(daemon, Page), RecoverySteps \/ OtherSteps
    PROVE  Whole(daemon', Page')
<1>1. CASE \E s \in Sessions : RecoverySkips(s) \/ RecoveryReads(s) \/ RecoverySettles(s)
  BY <1>1, RecoverySkipsWhole, RecoveryReadsWhole, RecoverySettlesWhole
<1>2. CASE ResidentsDone \/ DirectoriesDone \/ RetryTimer
  BY <1>2, ResidentsDoneWhole, DirectoriesDoneWhole, RetryTimerWhole
<1>3. CASE \E d \in Directories : PassLists(d) \/ RefreshDirectory(d)
  <2>1. UNCHANGED daemon /\ \E d \in Directories : Relisted(Page', Page, d)
    BY <1>3, PassListsStep, RefreshDirectoryStep
  <2> QED BY <2>1, RelistedWhole
<1>4. CASE \E d \in Directories, o \in Callers : ListAnswered(d, o) \/ ListSettles(d, o)
  <2>1. UNCHANGED daemon /\ \E d \in Directories : Relisted(Page', Page, d)
    BY <1>4, ListAnsweredStep, ListSettlesStep
  <2> QED BY <2>1, RelistedWhole
<1> QED BY <1>1, <1>2, <1>3, <1>4 DEF RecoverySteps, OtherSteps, Callers
-----------------------------------------------------------------------------
(* The transcripts are whole. *)

\* A page that was just attached has what its bootstrap read, or nothing.
LEMMA InitWhole ==
    ASSUME Init
    PROVE  Whole(daemon, Page)
<1> DEFINE c == Page
           d == daemon
<1>1. StoreInv /\ d \in Daemons /\ c \in Pages
  BY InitHolds DEF StoreInv, Inv
<1>2. /\ c.str.cursor = 0 /\ c.str.frame = NoFrame /\ c.str.reconnect = NoReconnect
      /\ c.rec.current = FALSE /\ Len(d.log) = 0 /\ c.st.restoring = {}
      /\ c.lo = NoLoss
      /\ \A s \in Sessions :
            /\ c.ft[s] = Unasked
            /\ \/ c.st.rows[s] = [seen |-> {0}, last |-> 0] /\ c.st.cursor[s] = 0
               \/ c.st.rows[s] = NoRow /\ c.st.cursor[s] = NoSequence
                  /\ s \notin c.st.hydrated
  <2>1. PICK kind \in StreamKinds, s0 \in Sessions :
         LET first == IF kind = "bootstrap" THEN {s0} ELSE {}
             row(s) == IF s \in first THEN [seen |-> {0}, last |-> 0] ELSE NoRow
         IN  /\ store = [epoch |-> 1, rows |-> [s \in Sessions |-> row(s)],
                         cursor |-> [s \in Sessions |-> row(s).last],
                         hydrated |-> first, tombstones |-> {}, restoring |-> {},
                         loadError |-> {}, connection |-> "ready", error |-> FALSE,
                         selected |-> IF first = {} THEN NoSession ELSE s0]
             /\ stream = [kind |-> kind, up |-> TRUE, epoch |-> 1, cursor |-> 0,
                          frame |-> NoFrame, resyncObserved |-> FALSE,
                          reconnect |-> NoReconnect]
    BY DEF Init
  <2> DEFINE first == IF kind = "bootstrap" THEN {s0} ELSE {}
             row(s) == IF s \in first THEN [seen |-> {0}, last |-> 0] ELSE NoRow
             rows == [s \in Sessions |-> row(s)]
             cursor == [s \in Sessions |-> row(s).last]
  <2>2. /\ store.rows = rows /\ store.cursor = cursor /\ store.hydrated = first
        /\ store.restoring = {}
        /\ stream.cursor = 0 /\ stream.frame = NoFrame /\ stream.reconnect = NoReconnect
    BY <2>1
  <2>3. ASSUME NEW s \in Sessions
        PROVE  \/ rows[s] = [seen |-> {0}, last |-> 0] /\ cursor[s] = 0
               \/ rows[s] = NoRow /\ cursor[s] = NoSequence /\ s \notin first
    BY DEF NoRow
  <2>4. /\ recovery.current = FALSE /\ daemon.log = <<>> /\ lost = NoLoss
        /\ \A s \in Sessions : fetch[s] = Unasked
    BY DEF Init
  <2>5. c.st = store /\ c.str = stream /\ c.rec = recovery /\ c.ft = fetch /\ c.lo = lost
    BY DEF Page
  <2> HIDE DEF first, row, rows, cursor, c
  <2> QED BY <2>2, <2>3, <2>4, <2>5
<1> HIDE DEF c, d
<1>3. ~NoReconnect.active /\ Unasked.kind # "detail"
  BY Values DEF NoReconnect
<1>4. Clocks(d, c)
  BY <1>2, <1>3, Values
  DEF Clocks, HeadClock, FrameClock, AskedClock, ResumeClock, InForce, Resuming, FetchClock
<1>5. ASSUME NEW s \in Sessions
      PROVE  WholeAt(d, c, s)
  <2>1. Known(c, s)
    BY <1>2, <1>5, Values DEF Known
  <2>2. RowWhole(d, c, s)
    <3>1. \A n \in Turns(d, s) : n = 0
      BY <1>2 DEF Turns
    <3> QED BY <1>2, <1>5, <3>1 DEF RowWhole, Holds
  <2>3. FetchWhole(d, c, s) /\ ReplyWhole(d, c, s) /\ ReconnectWhole(d, c, s)
    BY <1>2, <1>3, <1>5 DEF FetchWhole, ReplyWhole, ReconnectWhole, InForce, Resuming
  <2> QED BY <2>1, <2>2, <2>3 DEF WholeAt
<1>6. Whole(d, c)
  BY <1>2, <1>4, <1>5 DEF Whole, AllWhole, FrameUp
<1> QED BY <1>6 DEF c, d

\* Every step leaves the transcripts whole.
LEMMA WholeKept ==
    ASSUME StoreInv, Whole(daemon, Page), [Next]_vars
    PROVE  Whole(daemon', Page')
<1>1. Inv(daemon, Page)
  BY DEF StoreInv
<1>2. CASE UNCHANGED vars
  BY <1>2 DEF vars, Page
<1>3. CASE Next
  BY <1>1, <1>3, DaemonStepsWhole, StreamStepsWhole, TranscriptStepsWhole,
     RecoveryStepsWhole DEF Next
<1> QED BY <1>2, <1>3

\* Transcripts that are whole show it.
LEMMA WholeShown ==
    ASSUME StoreInv, Whole(daemon, Page)
    PROVE  HydratedMeansWhole
<1> SUFFICES ASSUME store.epoch = daemon.epoch, NEW s \in Sessions, IsHydrated(s),
                    s \notin store.tombstones
             PROVE  \/ Missing(s) \subseteq lost.jumped \cup lost.unsignalled
                    \/ Unfinished(s)
                    \/ s \in GivenUp
  BY DEF HydratedMeansWhole
<1>1. /\ Page.st = store /\ Page.rec = recovery /\ Page.str = stream
      /\ Page.ft = fetch /\ Page.lo = lost
      /\ stream \in Streams /\ daemon \in Daemons
  BY SamePage DEF StoreInv
<1>2. RowWhole(daemon, Page, s)
  BY <1>1 DEF Whole, AllWhole, WholeAt
<1>3. Holds(daemon, Page, s, NoSequence) \/ Pending(Page, s) \/ Excused(Page, s)
  BY <1>1, <1>2 DEF RowWhole, IsHydrated
<1>4. CASE Pending(Page, s)
  BY <1>1, <1>4 DEF Pending, Unfinished
<1>5. CASE Excused(Page, s)
  BY <1>1, <1>5 DEF Excused, GivenUp
<1>6. CASE Holds(daemon, Page, s, NoSequence)
  <2>1. stream.cursor \in Nat /\ Len(daemon.log) \in Nat
    BY <1>1, StoreAssumption DEF Streams, Heads, Daemons
  <2>2. ASSUME NEW n \in Missing(s)
        PROVE  n \in lost.jumped \cup lost.unsignalled
    <3>1. n \in Turns(daemon, s) /\ n > NoSequence /\ n <= stream.cursor
          /\ n \notin store.rows[s].seen
      BY <2>1, <2>2 DEF Missing, Turns, LogHead, NoSequence
    <3> QED BY <1>1, <1>6, <3>1 DEF Holds, Passed, Given
  <2> QED BY <2>2
<1> QED BY <1>3, <1>4, <1>5, <1>6

\* A transcript that counts as hydrated lacks no event the stream has passed,
\* unless a read or an error is still owed for it, or one of the six ways to lose
\* one that the code leaves open was taken: whatever the order of events, reads,
\* evictions, resyncs, restarts of the daemon and reconnects.
THEOREM TranscriptsWhole == Spec => []HydratedMeansWhole
<1> DEFINE W == Whole(daemon, Page)
<1>1. Init => W
  BY InitWhole
<1>2. StoreInv /\ W /\ [Next]_vars => W'
  <2>1. W' <=> Whole(daemon', Page')
    BY DEF Page
  <2> QED BY <2>1, WholeKept
<1>3. StoreInv /\ W => HydratedMeansWhole
  BY WholeShown
<1> QED BY <1>1, <1>2, <1>3, StoreInvHolds, PTL DEF Spec
=============================================================================
