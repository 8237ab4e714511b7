------------------------- MODULE PendingInput_proofs -------------------------
(***************************************************************************)
(* A badge says what the daemon's index said at the sequence its row is    *)
(* marked with, for any number of sessions, dialogs, lifetimes and reads.  *)
(*                                                                         *)
(* RowIsAsOf is about the page alone.  What makes it inductive is that the *)
(* daemon's log always ends with what its index holds, so that an answer   *)
(* sampled at a sequence says what the log says there, and keeps saying so *)
(* while the log grows and the answer is on its way.                       *)
(*                                                                         *)
(* BadgesTrue, AlertsEnd and MissIsFetched also need to know what the page *)
(* has applied since it last missed something, and what it still owes      *)
(* itself: KInv, below, is IInv with that.                                 *)
(***************************************************************************)
EXTENDS PendingInput, FiniteSetTheorems, TLAPS

\* What a log says of session s as of its n-th event: AsOf, of any log.
About(log, n, s) == {i \in 1 .. n : log[i].session = s}
Said(log, n, s) ==
    IF About(log, n, s) = {} THEN Null ELSE log[Max(About(log, n, s))].pending

Summaries == {Pending(requests) : requests \in SUBSET Requests}
Events == [session : Sessions, kind : {"input", "deleted"}, pending : Summaries]
Rows == Summaries \cup {Unknown, NoRow}

Daemons ==
    [epoch : Epochs, log : [Epochs -> Seq(Events)], open : [Sessions -> SUBSET Requests],
     phase : [Sessions -> {"live", "closing", "gone"}], left : Int]

Pages ==
    [epoch : Nat, attached : BOOLEAN, at : Int, signals : BOOLEAN,
     rows : [Sessions -> Rows], marker : [Sessions -> Int], last : [Sessions -> Int],
     tombstones : SUBSET Sessions, opened : SUBSET Sessions, raised : SUBSET Sessions]

\* The index of daemon d is what its log ends with, and later lifetimes have none.
IndexIsLogged(d) ==
    /\ \A s \in Sessions :
          Pending(d.open[s]) = Said(d.log[d.epoch], Len(d.log[d.epoch]), s)
    /\ \A k \in Epochs : k > d.epoch => d.log[k] = <<>>

\* The last event that a page of this epoch can know of.
EndOf(d, epoch) == IF epoch = 0 THEN -1 ELSE Len(d.log[epoch])

\* A page c of daemon d: behind it, and right in what it says.
Behind(c, d) ==
    /\ c.epoch \in 0 .. d.epoch
    /\ c.attached => c.epoch = d.epoch /\ c.at >= 0
    /\ c.at \in -1 .. EndOf(d, c.epoch)
    /\ \A s \in Sessions : {c.marker[s], c.last[s]} \subseteq -1 .. EndOf(d, c.epoch)

RowsAreAsOf(c, d) ==
    \A s \in Sessions :
        Known(c.rows[s]) =>
            c.marker[s] >= 0 /\ c.rows[s] = Said(d.log[c.epoch], c.marker[s], s)

Fit(c, d) == c \in Pages /\ Behind(c, d) /\ RowsAreAsOf(c, d)

\* An answer a of daemon d, however old.
Truthful(a, d) ==
    /\ a.epoch \in 1 .. d.epoch
    /\ a.sequence \in 0 .. Len(d.log[a.epoch])
    /\ a.pending \in [Sessions -> Summaries]
    /\ \A s \in Sessions : a.pending[s] = Said(d.log[a.epoch], a.sequence, s)

AnswersTruthful(d) ==
    /\ fetch.step = "answered" => Truthful(fetch.answer, d)
    /\ list.answer # NoAnswer => Truthful(list.answer, d)
    /\ detail.answer # NoAnswer => detail.session \in Sessions /\ Truthful(detail.answer, d)

Answers ==
    [epoch : Nat, sequence : Nat, pending : [Sessions -> Summaries], gone : SUBSET Sessions]
Fetches == [step : {"idle", "asked", "answered"}, again : BOOLEAN, answer : Answers]

IInv ==
    /\ daemon \in Daemons
    /\ IndexIsLogged(daemon)
    /\ Fit(page, daemon)
    /\ fetch \in Fetches
    /\ AnswersTruthful(daemon)

-----------------------------------------------------------------------------
(* Maxima, and what logs say. *)

\* A finite set of integers has a maximum: the elements from x upwards are a finite
\* set, and a smallest such set is that of the greatest x.
LEMMA HasMax ==
    ASSUME NEW S \in SUBSET Int, IsFiniteSet(S), S # {}
    PROVE  Max(S) \in S /\ \A y \in S : y <= Max(S)
<1> DEFINE Above(x) == {y \in S : y >= x}
           Tops == {Above(x) : x \in S}
<1>1. Tops \subseteq SUBSET S /\ Tops # {}
  OBVIOUS
<1>2. Tops \subseteq FiniteSubsetsOf(S)
  BY <1>1, FS_FiniteSubsetsOfFinite
<1>3. IsWellFoundedOn(StrictSubsetOrdering(S), FiniteSubsetsOf(S))
  BY FS_StrictSubsetOrderingWellFounded
<1>4. PICK top \in Tops : \A t \in Tops : ~(<<t, top>> \in StrictSubsetOrdering(S))
  <2> HIDE DEF Tops
  <2> QED BY <1>1, <1>2, <1>3, WFMin
<1>5. PICK x \in S : top = Above(x)
  BY <1>4
<1>6. ASSUME NEW y \in S, y > x
      PROVE  FALSE
  <2>1. x \in Int /\ y \in Int /\ \A z \in S : z \in Int
    OBVIOUS
  <2>2. Above(x) \subseteq S /\ Above(y) \in Tops
    OBVIOUS
  <2> HIDE DEF Tops
  <2>3. Above(y) \subseteq Above(x) /\ x \in Above(x) /\ x \notin Above(y)
    <3>1. x >= x /\ ~(x >= y) /\ \A z \in S : z >= y => z >= x
      BY <1>6, <2>1
    <3>2. \A z \in S : (z \in Above(x) <=> z >= x) /\ (z \in Above(y) <=> z >= y)
      OBVIOUS
    <3>3. Above(y) \subseteq S
      OBVIOUS
    <3> HIDE DEF Above
    <3> QED BY <3>1, <3>2, <3>3
  <2> HIDE DEF Above
  <2>4. <<Above(y), Above(x)>> \in StrictSubsetOrdering(S)
    BY <2>2, <2>3 DEF StrictSubsetOrdering
  <2> QED BY <1>4, <1>5, <2>2, <2>4
<1>7. x \in S /\ \A y \in S : x >= y
  BY <1>5, <1>6
<1> HIDE DEF Above, Tops
<1>8. Max(S) \in S /\ \A y \in S : Max(S) >= y
  BY <1>7 DEF Max
<1> QED BY <1>8

LEMMA MaxOfAbout ==
    ASSUME NEW log, NEW n \in Nat, NEW s, About(log, n, s) # {}
    PROVE  /\ Max(About(log, n, s)) \in About(log, n, s)
           /\ \A i \in About(log, n, s) : i <= Max(About(log, n, s))
<1>1. About(log, n, s) \in SUBSET (1 .. n) /\ About(log, n, s) \subseteq Int
  BY DEF About
<1>2. IsFiniteSet(1 .. n)
  BY FS_Interval
<1>3. IsFiniteSet(About(log, n, s))
  BY <1>1, <1>2, FS_Subset
<1> QED BY <1>1, <1>3, HasMax

\* Two logs that agree up to n say the same there.
LEMMA SaidSame ==
    ASSUME NEW log, NEW other, NEW n \in Nat, NEW s,
           \A i \in 1 .. n : other[i] = log[i]
    PROVE  Said(other, n, s) = Said(log, n, s)
<1>1. About(other, n, s) = About(log, n, s)
  BY DEF About
<1>2. About(log, n, s) # {} => Max(About(log, n, s)) \in 1 .. n
  BY MaxOfAbout DEF About
<1> QED BY <1>1, <1>2 DEF Said

\* An event about s is what the log says of s at that event.
LEMMA SaidLast ==
    ASSUME NEW log, NEW n \in Nat \ {0}, NEW s, log[n].session = s
    PROVE  Said(log, n, s) = log[n].pending
<1>1. n \in About(log, n, s) /\ \A i \in About(log, n, s) : i <= n /\ i \in Int
  BY DEF About
<1>2. Max(About(log, n, s)) = n
  BY <1>1, MaxOfAbout
<1> QED BY <1>1, <1>2 DEF Said

\* Events about other sessions change nothing.
LEMMA SaidSkips ==
    ASSUME NEW log, NEW m \in Nat, NEW n \in Nat, m <= n, NEW s,
           \A i \in m + 1 .. n : log[i].session # s
    PROVE  Said(log, n, s) = Said(log, m, s)
<1>1. About(log, n, s) = About(log, m, s)
  BY DEF About
<1> QED BY <1>1 DEF Said

\* Nothing has been said of any session before the first event.
LEMMA SaidNothing ==
    ASSUME NEW log, NEW s
    PROVE  Said(log, 0, s) = Null
BY DEF Said, About

LEMMA NothingPending ==
    Pending({}) = Null /\ Null \in Summaries
<1>1. Pending({}) = Null
  BY FS_EmptySet DEF Pending, Null
<1> QED BY <1>1 DEF Summaries

-----------------------------------------------------------------------------
(* The daemon. *)

\* Its log only grows: an answer and a page stay right.
Grows(d, e) ==
    /\ d \in Daemons /\ e \in Daemons
    /\ e.epoch \in d.epoch .. MaxEpoch
    /\ \A k \in 1 .. d.epoch :
          /\ Len(d.log[k]) <= Len(e.log[k])
          /\ \A i \in 1 .. Len(d.log[k]) : e.log[k][i] = d.log[k][i]

LEMMA GrowsFacts ==
    ASSUME NEW d, NEW e, Grows(d, e)
    PROVE  /\ d.epoch \in Nat /\ e.epoch \in Nat /\ d.epoch <= e.epoch
           /\ \A k \in 1 .. d.epoch :
                 /\ d.log[k] \in Seq(Events) /\ e.log[k] \in Seq(Events)
                 /\ Len(d.log[k]) \in Nat /\ Len(e.log[k]) \in Nat
<1>1. /\ d.epoch \in 1 .. MaxEpoch /\ MaxEpoch \in Nat
      /\ e.epoch \in d.epoch .. MaxEpoch
      /\ d.log \in [1 .. MaxEpoch -> Seq(Events)] /\ e.log \in [1 .. MaxEpoch -> Seq(Events)]
  BY InputAssumption DEF Grows, Daemons, Epochs
<1>2. \A k \in 1 .. d.epoch : k \in 1 .. MaxEpoch
  BY <1>1
<1>3. \A k \in 1 .. d.epoch : d.log[k] \in Seq(Events) /\ e.log[k] \in Seq(Events)
  BY <1>1, <1>2
<1>4. \A log \in Seq(Events) : Len(log) \in Nat
  OBVIOUS
<1> QED BY <1>1, <1>3, <1>4

LEMMA TruthfulGrows ==
    ASSUME NEW d, NEW e, Grows(d, e), NEW a, Truthful(a, d)
    PROVE  Truthful(a, e)
<1>1. a.sequence \in Nat /\ \A i \in 1 .. a.sequence : e.log[a.epoch][i] = d.log[a.epoch][i]
  BY GrowsFacts DEF Truthful, Grows
<1>2. \A s \in Sessions : Said(e.log[a.epoch], a.sequence, s) = Said(d.log[a.epoch], a.sequence, s)
  BY <1>1, SaidSame
<1>3. a.epoch \in 1 .. e.epoch /\ a.sequence \in 0 .. Len(e.log[a.epoch])
  <2>1. Len(d.log[a.epoch]) <= Len(e.log[a.epoch])
    BY DEF Truthful, Grows
  <2> QED BY <2>1, GrowsFacts DEF Truthful
<1> QED BY <1>2, <1>3 DEF Truthful

LEMMA FitGrows ==
    ASSUME NEW d, NEW e, Grows(d, e), NEW c, Fit(c, d), c.attached => e.epoch = d.epoch
    PROVE  Fit(c, e)
<1>1. c \in Pages /\ c.epoch \in 0 .. d.epoch
  BY DEF Fit, Behind
<1>2. c.epoch # 0 => /\ c.epoch \in 1 .. d.epoch
                     /\ Len(d.log[c.epoch]) \in Nat /\ Len(e.log[c.epoch]) \in Nat
  BY <1>1, GrowsFacts
<1>3. EndOf(d, c.epoch) \in Int /\ EndOf(e, c.epoch) \in Int /\ EndOf(d, c.epoch) <= EndOf(e, c.epoch)
  BY <1>2 DEF EndOf, Grows
<1>4. Behind(c, e)
  <2>1. c.epoch \in 0 .. e.epoch
    BY <1>1, GrowsFacts
  <2> QED BY <1>1, <1>3, <2>1 DEF Fit, Behind, Pages
<1>5. ASSUME NEW s \in Sessions, Known(c.rows[s])
      PROVE  c.marker[s] >= 0 /\ c.rows[s] = Said(e.log[c.epoch], c.marker[s], s)
  <2>1. /\ c.marker[s] \in Nat /\ c.rows[s] = Said(d.log[c.epoch], c.marker[s], s)
        /\ c.marker[s] <= EndOf(d, c.epoch)
    BY <1>1, <1>3, <1>5 DEF Fit, Behind, RowsAreAsOf, Pages
  <2>2. c.epoch # 0 /\ c.marker[s] <= Len(d.log[c.epoch])
    BY <2>1 DEF EndOf
  <2>3. \A i \in 1 .. c.marker[s] : e.log[c.epoch][i] = d.log[c.epoch][i]
    BY <1>2, <2>1, <2>2 DEF Grows
  <2> QED BY <2>1, <2>3, SaidSame
<1> QED BY <1>1, <1>4, <1>5 DEF Fit, RowsAreAsOf

\* What the daemon can be after a step of its own.
Follows(e) ==
    e \in Daemons /\ e.epoch = daemon.epoch /\ Grows(daemon, e) /\ IndexIsLogged(e)

LEMMA DaemonMoves ==
    ASSUME IInv, Follows(daemon'), UNCHANGED <<page, fetch, list, detail>>
    PROVE  IInv'
<1>1. Fit(page, daemon)'
  <2>1. Fit(page, daemon')
    BY FitGrows DEF IInv, Follows
  <2> QED BY <2>1
<1>2. AnswersTruthful(daemon)'
  <2>1. \A a : Truthful(a, daemon) => Truthful(a, daemon')
    BY TruthfulGrows DEF Follows
  <2> QED BY <2>1 DEF IInv, AnswersTruthful
<1>3. daemon' \in Daemons /\ IndexIsLogged(daemon)' /\ (fetch \in Fetches)'
  BY DEF IInv, Follows, Fetches, Answers, Summaries, Pending
<1> QED BY <1>1, <1>2, <1>3 DEF IInv

\* What is published about s ends with what the index now holds of it.
LEMMA Publishes ==
    ASSUME IInv, NEW s \in Sessions, NEW d \in Daemons, NEW events \in Seq(Events),
           d.epoch = daemon.epoch, d.log = daemon.log,
           \A t \in Sessions \ {s} : d.open[t] = daemon.open[t],
           \A i \in 1 .. Len(events) : events[i].session = s,
           IF events = <<>> THEN Pending(d.open[s]) = Index(s)
           ELSE events[Len(events)].pending = Pending(d.open[s])
    PROVE  Follows(Publish(d, events))
<1> DEFINE e == Publish(d, events)
           log == daemon.log[daemon.epoch]
           n == Len(log)
<1>1. daemon \in Daemons /\ daemon.epoch \in Epochs /\ log \in Seq(Events) /\ n \in Nat
  BY DEF IInv, Daemons
<1>2. /\ e = [d EXCEPT !.log = [d.log EXCEPT ![daemon.epoch] = log \o events]]
      /\ log \o events \in Seq(Events)
  BY <1>1 DEF Publish, Daemons
<1>3. /\ e \in Daemons /\ e.epoch = daemon.epoch /\ e.open = d.open
      /\ e.log[daemon.epoch] = log \o events
      /\ \A k \in Epochs \ {daemon.epoch} : e.log[k] = daemon.log[k]
  <2> HIDE DEF e, log
  <2>1. d.log \in [Epochs -> Seq(Events)]
    BY DEF Daemons
  <2>2. [d.log EXCEPT ![daemon.epoch] = log \o events] \in [Epochs -> Seq(Events)]
    BY <1>1, <1>2, <2>1
  <2> QED BY <1>1, <1>2, <2>1, <2>2 DEF Daemons
<1> DEFINE whole == log \o events
           end == n + Len(events)
<1>4. /\ Len(whole) = end /\ end \in Nat /\ n <= end
      /\ \A i \in 1 .. n : whole[i] = log[i]
      /\ \A i \in n + 1 .. end : whole[i] = events[i - n] /\ i - n \in 1 .. Len(events)
      /\ events # <<>> => end \in Nat \ {0} /\ whole[end] = events[Len(events)]
  BY <1>1
<1>5. e.log[daemon.epoch] = whole
  BY <1>3
<1> HIDE DEF e, log, n, whole, end
<1>6. Grows(daemon, e)
  <2>1. \A k \in 1 .. daemon.epoch : k \in Epochs
    BY <1>1, InputAssumption DEF Epochs
  <2>2. \A k \in Epochs : Len(daemon.log[k]) \in Nat
    BY <1>1 DEF Daemons
  <2>3. MaxEpoch \in Nat /\ e.epoch \in daemon.epoch .. MaxEpoch
    BY <1>1, <1>3, InputAssumption DEF Epochs
  <2>4. ASSUME NEW k \in 1 .. daemon.epoch
        PROVE  /\ Len(daemon.log[k]) <= Len(e.log[k])
               /\ \A i \in 1 .. Len(daemon.log[k]) : e.log[k][i] = daemon.log[k][i]
    <3>1. CASE k = daemon.epoch
      BY <1>4, <1>5, <3>1 DEF log, n
    <3>2. CASE k # daemon.epoch
      BY <1>3, <2>1, <2>2, <3>2
    <3> QED BY <3>1, <3>2
  <2> QED BY <1>1, <1>3, <2>3, <2>4 DEF Grows
<1>7. ASSUME NEW t \in Sessions
      PROVE  Pending(e.open[t]) = Said(whole, end, t)
  <2>1. Said(whole, n, t) = Pending(daemon.open[t])
    <3>1. Pending(daemon.open[t]) = Said(log, n, t)
      BY DEF IInv, IndexIsLogged, log, n
    <3>2. Said(whole, n, t) = Said(log, n, t)
      BY <1>1, <1>4, SaidSame
    <3> QED BY <3>1, <3>2
  <2>2. CASE t # s \/ events = <<>>
    <3>1. Pending(e.open[t]) = Pending(daemon.open[t])
      BY <1>3, <2>2 DEF Index
    <3>2. \A i \in n + 1 .. end : whole[i].session # t
      BY <1>4, <2>2
    <3>3. Said(whole, end, t) = Said(whole, n, t)
      BY <1>1, <1>4, <3>2, SaidSkips
    <3> QED BY <2>1, <3>1, <3>3
  <2>3. CASE t = s /\ events # <<>>
    <3>1. Len(events) \in 1 .. Len(events)
      BY <2>3
    <3>2. whole[end].session = s
      BY <1>4, <2>3, <3>1
    <3>3. Said(whole, end, s) = whole[end].pending
      BY <1>4, <2>3, <3>2, SaidLast
    <3> QED BY <1>3, <1>4, <2>3, <3>3
  <2> QED BY <2>2, <2>3
<1>8. IndexIsLogged(e)
  <2>1. \A k \in Epochs : k > daemon.epoch => e.log[k] = <<>>
    BY <1>1, <1>3 DEF IInv, IndexIsLogged, Epochs
  <2> QED BY <1>3, <1>4, <1>5, <1>7, <2>1 DEF IndexIsLogged
<1> QED BY <1>3, <1>6, <1>8 DEF e, Follows

\* The number of dialogs left, and the phases, say nothing of the log.
LEMMA SameLogs ==
    ASSUME NEW e, Follows(e), NEW f \in Daemons,
           f.epoch = e.epoch, f.log = e.log, f.open = e.open
    PROVE  Follows(f)
BY DEF Follows, Grows, IndexIsLogged

LEMMA PublishNothing ==
    ASSUME NEW d \in Daemons
    PROVE  Publish(d, <<>>) = d
<1>1. d.epoch \in Epochs /\ d.log \in [Epochs -> Seq(Events)]
  BY DEF Daemons
<1>2. d.log[d.epoch] \in Seq(Events)
  BY <1>1
<1>3. d.log[d.epoch] \o <<>> = d.log[d.epoch]
  BY <1>2
<1>4. [d.log EXCEPT ![d.epoch] = d.log[d.epoch] \o <<>>] = d.log
  BY <1>1, <1>3
<1>5. Publish(d, <<>>) = [d EXCEPT !.log = d.log]
  BY <1>1, <1>4 DEF Publish
<1> QED BY <1>5 DEF Daemons

LEMMA EventsTyped ==
    ASSUME NEW s \in Sessions
    PROVE  /\ \A q \in SUBSET Requests : Input(s, Pending(q)) \in Events
           /\ Deleted(s) \in Events
BY NothingPending DEF Input, Deleted, Events, Summaries

\* The dialogs of one session change.
LEMMA Opens ==
    ASSUME IInv, NEW s \in Sessions, NEW q \in SUBSET Requests
    PROVE  [daemon EXCEPT !.open[s] = q] \in Daemons
BY DEF IInv, Daemons

LEMMA Changes ==
    ASSUME IInv, NEW s \in Sessions, NEW q \in SUBSET Requests
    PROVE  Follows(Change(s, q))
<1> DEFINE d == [daemon EXCEPT !.open[s] = q]
           event == Input(s, Pending(q))
<1>1. /\ d \in Daemons /\ d.epoch = daemon.epoch /\ d.log = daemon.log /\ d.open[s] = q
      /\ \A t \in Sessions \ {s} : d.open[t] = daemon.open[t]
  BY DEF IInv, Daemons
<1>2. event \in Events /\ event.session = s /\ event.pending = Pending(q)
  BY EventsTyped DEF Input
<1>3. Change(s, q) = IF Pending(q) = Index(s) THEN d ELSE Publish(d, <<event>>)
  BY DEF Change
<1> HIDE DEF d, event
<1>4. CASE Pending(q) = Index(s)
  <2> DEFINE events == <<>>
  <2>1. events \in Seq(Events) /\ events = <<>> /\ 1 .. Len(events) = {}
    OBVIOUS
  <2>2. Pending(d.open[s]) = Index(s)
    BY <1>1, <1>4
  <2> HIDE DEF events
  <2>3. Follows(Publish(d, events))
    BY <1>1, <2>1, <2>2, Publishes
  <2> QED BY <1>1, <1>3, <1>4, <2>1, <2>3, PublishNothing
<1>5. CASE Pending(q) # Index(s)
  <2> DEFINE events == <<event>>
  <2>1. /\ events \in Seq(Events) /\ Len(events) = 1 /\ events[1] = event
        /\ events # <<>>
    BY <1>2
  <2> HIDE DEF events
  <2>2. /\ \A i \in 1 .. Len(events) : events[i].session = s
        /\ events[Len(events)].pending = Pending(d.open[s])
    BY <1>1, <1>2, <2>1
  <2>3. Follows(Publish(d, events))
    BY <1>1, <2>1, <2>2, Publishes
  <2> QED BY <1>3, <1>5, <2>3 DEF events
<1> QED BY <1>4, <1>5

\* cancelPendingExtensionDialogs ends with a summary of nothing.
LEMMA Cancels ==
    ASSUME IInv, NEW s \in Sessions
    PROVE  Follows(Cancelled(s)) /\ Cancelled(s).open = [daemon.open EXCEPT ![s] = {}]
<1> DEFINE open == daemon.open[s]
           After(i) == {r \in open : Cardinality({q \in open : q <= r}) > i}
           n == Cardinality(open)
           events == [i \in 1 .. n |-> Input(s, Pending(After(i)))]
           d == [daemon EXCEPT !.open[s] = {}]
<1>1. Cancelled(s) = Publish(d, events)
  BY DEF Cancelled
<1>2. /\ d \in Daemons /\ d.epoch = daemon.epoch /\ d.log = daemon.log /\ d.open[s] = {}
      /\ \A t \in Sessions \ {s} : d.open[t] = daemon.open[t]
      /\ d.open = [daemon.open EXCEPT ![s] = {}]
  BY DEF IInv, Daemons
<1>3. open \in SUBSET Requests
  BY DEF IInv, Daemons
<1>4. IsFiniteSet(open) /\ n \in Nat /\ (n = 0 => open = {})
  <2>1. IsFiniteSet(Requests)
    BY InputAssumption, FS_Interval DEF Requests
  <2> QED BY <1>3, <2>1, FS_Subset, FS_CardinalityType, FS_EmptySet
<1>5. After(n) = {}
  <2>1. \A r \in open : {q \in open : q <= r} \in SUBSET open
    OBVIOUS
  <2>2. \A r \in open : /\ Cardinality({q \in open : q <= r}) \in Nat
                        /\ Cardinality({q \in open : q <= r}) <= n
    BY <1>4, <2>1, FS_Subset, FS_CardinalityType
  <2> QED BY <1>4, <2>2
<1>6. \A i \in 1 .. n : After(i) \in SUBSET Requests
  BY <1>3
<1> HIDE DEF After, n
<1>7. \A i \in 1 .. n : Input(s, Pending(After(i))) \in Events
  BY <1>6, EventsTyped
<1>8. events \in Seq(Events) /\ Len(events) = n
  BY <1>4, <1>7
<1>9. \A i \in 1 .. n : events[i].session = s /\ events[i].pending = Pending(After(i))
  BY DEF Input
<1> HIDE DEF events, d, open
<1>10. IF events = <<>> THEN Pending(d.open[s]) = Index(s)
       ELSE events[Len(events)].pending = Pending(d.open[s])
  <2>1. CASE n = 0
    <3>1. Index(s) = Pending({})
      BY <1>4, <2>1 DEF Index, open
    <3>2. events = <<>>
      BY <1>8, <2>1
    <3> QED BY <1>2, <3>1, <3>2
  <2>2. CASE n # 0
    <3>1. n \in 1 .. n /\ events # <<>>
      BY <1>4, <1>8, <2>2
    <3> QED BY <1>2, <1>5, <1>8, <1>9, <3>1
  <2> QED BY <2>1, <2>2
<1>11. Follows(Publish(d, events))
  BY <1>2, <1>8, <1>9, <1>10, Publishes
<1>12. Publish(d, events).open = d.open
  BY <1>2 DEF Publish, Daemons
<1> QED BY <1>1, <1>2, <1>11, <1>12

\* A step of the daemon leaves its index logged, and only adds to its log.
LEMMA DaemonFollows ==
    ASSUME IInv, NEW s \in Sessions,
           OpenRequest(s) \/ Settle(s) \/ Reload(s) \/ BeginClose(s) \/ EndClose(s)
    PROVE  Follows(daemon')
<1>2. CASE OpenRequest(s)
  <2>1. PICK r \in Requests :
           daemon' = [Change(s, daemon.open[s] \cup {r}) EXCEPT !.left = @ - 1]
    BY <1>2 DEF OpenRequest
  <2>2. daemon.open[s] \cup {r} \in SUBSET Requests
    BY DEF IInv, Daemons
  <2> DEFINE e == Change(s, daemon.open[s] \cup {r})
  <2>3. Follows(e)
    BY <2>2, Changes
  <2>4. daemon' = [e EXCEPT !.left = @ - 1]
    BY <2>1
  <2> HIDE DEF e
  <2>5. /\ daemon' \in Daemons /\ daemon'.epoch = e.epoch
        /\ daemon'.log = e.log /\ daemon'.open = e.open
    BY <2>3, <2>4 DEF Follows, Daemons
  <2> QED BY <2>3, <2>5, SameLogs
<1>3. CASE Settle(s)
  <2>1. PICK r \in daemon.open[s] : daemon' = Change(s, daemon.open[s] \ {r})
    BY <1>3 DEF Settle
  <2>2. daemon.open[s] \ {r} \in SUBSET Requests
    BY DEF IInv, Daemons
  <2> QED BY <2>1, <2>2, Changes
<1>4. CASE Reload(s)
  BY <1>4, Cancels DEF Reload
<1>5. CASE BeginClose(s)
  <2> DEFINE e == Cancelled(s)
  <2>1. Follows(e) /\ daemon' = [e EXCEPT !.phase[s] = "closing"]
    BY <1>5, Cancels DEF BeginClose
  <2> HIDE DEF e
  <2>2. /\ daemon' \in Daemons /\ daemon'.epoch = e.epoch
        /\ daemon'.log = e.log /\ daemon'.open = e.open
    BY <2>1 DEF Follows, Daemons
  <2> QED BY <2>1, <2>2, SameLogs
<1>6. CASE EndClose(s)
  <2>1. Grows(daemon, daemon)
    BY InputAssumption DEF IInv, Grows, Daemons, Epochs
  <2>2. CASE daemon' = [daemon EXCEPT !.phase[s] = "live"]
    <3>1. /\ daemon' \in Daemons /\ daemon'.epoch = daemon.epoch
          /\ daemon'.log = daemon.log /\ daemon'.open = daemon.open
      BY <2>2 DEF IInv, Daemons
    <3>2. Follows(daemon)
      BY <2>1 DEF Follows, IInv
    <3> QED BY <3>1, <3>2, SameLogs
  <2>3. CASE daemon' = Publish([daemon EXCEPT !.phase[s] = "gone", !.open[s] = {}],
                               <<Deleted(s)>>)
    <3> DEFINE d == [daemon EXCEPT !.phase[s] = "gone", !.open[s] = {}]
               events == <<Deleted(s)>>
    <3>1. /\ d \in Daemons /\ d.epoch = daemon.epoch /\ d.log = daemon.log /\ d.open[s] = {}
          /\ \A t \in Sessions \ {s} : d.open[t] = daemon.open[t]
      BY DEF IInv, Daemons
    <3>2. /\ events \in Seq(Events) /\ Len(events) = 1 /\ events[1] = Deleted(s)
          /\ events # <<>>
      BY EventsTyped
    <3>3. daemon' = Publish(d, events)
      BY <2>3
    <3> HIDE DEF d, events
    <3>4. /\ \A i \in 1 .. Len(events) : events[i].session = s
          /\ events[Len(events)].pending = Pending(d.open[s])
      BY <3>1, <3>2, NothingPending DEF Deleted
    <3> QED BY <3>1, <3>2, <3>3, <3>4, Publishes
  <2> QED BY <1>6, <2>2, <2>3 DEF EndClose
<1> QED BY <1>2, <1>3, <1>4, <1>5, <1>6

LEMMA DaemonKeeps ==
    ASSUME IInv, NEW s \in Sessions,
           OpenRequest(s) \/ Settle(s) \/ Reload(s) \/ BeginClose(s) \/ EndClose(s)
    PROVE  IInv'
<1>1. UNCHANGED <<page, fetch, list, detail>>
  BY DEF OpenRequest, Settle, Reload, BeginClose, EndClose, PageSide
<1> QED BY <1>1, DaemonFollows, DaemonMoves

\* A new lifetime has logged nothing and has nothing open; the page is cut off.
LEMMA RestartKeeps ==
    ASSUME IInv, Restart
    PROVE  IInv'
<1>1. /\ daemon \in Daemons /\ daemon.epoch \in 1 .. MaxEpoch /\ MaxEpoch \in Nat
      /\ daemon.epoch < MaxEpoch
  BY InputAssumption DEF IInv, Daemons, Epochs, Restart
<1>2. /\ daemon'.epoch = daemon.epoch + 1 /\ daemon'.log = daemon.log
      /\ daemon'.open = [s \in Sessions |-> {}]
      /\ daemon' \in Daemons
  <2> DEFINE phases == [s \in Sessions |-> IF daemon.phase[s] = "gone" THEN "gone" ELSE "live"]
  <2>1. daemon' = [daemon EXCEPT !.epoch = @ + 1, !.open = [s \in Sessions |-> {}],
                                 !.phase = phases]
    BY DEF Restart
  <2>2. phases \in [Sessions -> {"live", "closing", "gone"}]
    OBVIOUS
  <2>3. daemon.epoch + 1 \in Epochs
    BY <1>1 DEF Epochs
  <2>4. [s \in Sessions |-> {}] \in [Sessions -> SUBSET Requests]
    OBVIOUS
  <2> HIDE DEF phases
  <2> QED BY <1>1, <2>1, <2>2, <2>3, <2>4 DEF Daemons
<1>3. Grows(daemon, daemon')
  <2>1. \A k \in 1 .. daemon.epoch : Len(daemon.log[k]) \in Nat
    BY <1>1 DEF Daemons, Epochs
  <2> QED BY <1>1, <1>2, <2>1 DEF Grows
<1>4. IndexIsLogged(daemon')
  <2>1. daemon'.log[daemon'.epoch] = <<>>
    BY <1>1, <1>2 DEF IInv, IndexIsLogged, Epochs
  <2>2. Len(<<>>) = 0
    OBVIOUS
  <2>3. \A k \in Epochs : k > daemon'.epoch => daemon'.log[k] = <<>>
    BY <1>1, <1>2 DEF IInv, IndexIsLogged, Epochs
  <2> QED BY <1>2, <2>1, <2>2, <2>3, NothingPending, SaidNothing DEF IndexIsLogged
<1>5. Fit(page', daemon)
  BY DEF Restart, IInv, Fit, Pages, Behind, RowsAreAsOf
<1>6. Fit(page', daemon')
  <2>1. ~page'.attached
    BY DEF Restart, IInv, Fit, Pages
  <2> QED BY <1>3, <1>5, <2>1, FitGrows
<1>7. AnswersTruthful(daemon)'
  <2>1. \A a : Truthful(a, daemon) => Truthful(a, daemon')
    BY <1>3, TruthfulGrows
  <2> QED BY <2>1 DEF IInv, AnswersTruthful, Restart
<1>8. (fetch \in Fetches)'
  BY DEF IInv, Restart, Fetches, Answers, Summaries, Pending
<1> QED BY <1>2, <1>4, <1>6, <1>7, <1>8 DEF IInv

-----------------------------------------------------------------------------
(* The handlers of the page. *)

\* A page that differs only in rows it knows nothing of, or that a log says.
LEMMA FitMoves ==
    ASSUME NEW c, Fit(c, daemon), NEW e \in Pages,
           e.epoch = c.epoch, e.at = c.at, e.attached => c.attached,
           \A s \in Sessions :
              /\ {e.marker[s], e.last[s]} \subseteq -1 .. EndOf(daemon, c.epoch)
              /\ \/ e.rows[s] = c.rows[s] /\ e.marker[s] = c.marker[s]
                 \/ ~Known(e.rows[s])
                 \/ /\ e.marker[s] >= 0
                    /\ e.rows[s] = Said(daemon.log[c.epoch], e.marker[s], s)
    PROVE  Fit(e, daemon)
BY DEF Fit, Behind, RowsAreAsOf

LEMMA ClearedFits ==
    ASSUME NEW c, Fit(c, daemon), NEW gone
    PROVE  Fit(Cleared(c, gone), daemon)
BY DEF Cleared, Fit, Pages, Behind, RowsAreAsOf

LEMMA OpenedFits ==
    ASSUME NEW c, Fit(c, daemon), NEW s \in Sessions, NEW alert \in BOOLEAN
    PROVE  Fit(Opened(c, s, alert), daemon)
BY DEF Opened, Fit, Pages, Behind, RowsAreAsOf

LEMMA ReconciledFits ==
    ASSUME NEW c, Fit(c, daemon)
    PROVE  Fit(Reconciled(c), daemon)
BY DEF Reconciled, Fit, Pages, Behind, RowsAreAsOf

LEMMA KnownRows ==
    ~Known(NoRow) /\ ~Known(Unknown) /\ {NoRow, Unknown} \cup Summaries \subseteq Rows
BY DEF Known, NoRow, Unknown, Rows

\* An event about s, applied at its sequence.
LEMMA InputFits ==
    ASSUME daemon \in Daemons, NEW c, Fit(c, daemon), c.epoch # 0,
           NEW n \in 1 .. Len(daemon.log[c.epoch]), NEW s \in Sessions,
           daemon.log[c.epoch][n].session = s, NEW alert \in BOOLEAN
    PROVE  Fit(ApplyInput(c, s, n, daemon.log[c.epoch][n].pending, alert), daemon)
<1> DEFINE value == daemon.log[c.epoch][n].pending
           d == [c EXCEPT !.marker[s] = n, !.rows = Observe(c.rows, s, value)]
<1>1. c \in Pages /\ c.epoch \in Epochs /\ daemon.log[c.epoch] \in Seq(Events)
  <2>1. c \in Pages /\ c.epoch \in 0 .. daemon.epoch /\ daemon.epoch \in 1 .. MaxEpoch /\ MaxEpoch \in Nat
    BY InputAssumption DEF Fit, Behind, Daemons, Epochs
  <2>2. c.epoch \in Epochs
    BY <2>1 DEF Epochs
  <2> QED BY <2>1, <2>2 DEF Daemons
<1>2. daemon.log[c.epoch][n] \in Events /\ Len(daemon.log[c.epoch]) \in Nat
  BY <1>1
<1>3. value \in Summaries /\ value = Said(daemon.log[c.epoch], n, s)
  BY <1>2, SaidLast DEF Events
<1>4. EndOf(daemon, c.epoch) = Len(daemon.log[c.epoch]) /\ n \in -1 .. EndOf(daemon, c.epoch)
  BY <1>2 DEF EndOf
<1> HIDE DEF value
<1>5. Fit(d, daemon)
  <2>1. d \in Pages /\ d.epoch = c.epoch /\ d.at = c.at /\ d.attached = c.attached
    <3>1. value \in Rows /\ n \in Int
      BY <1>2, <1>3 DEF Rows
    <3>2. Observe(c.rows, s, value) \in [Sessions -> Rows]
      BY <1>1, <3>1 DEF Pages, Observe
    <3>3. [c.marker EXCEPT ![s] = n] \in [Sessions -> Int]
      BY <1>1, <3>1 DEF Pages
    <3> QED BY <1>1, <3>2, <3>3 DEF Pages
  <2>2. \A t \in Sessions : d.last[t] = c.last[t]
    BY <1>1 DEF Pages
  <2>3. \A t \in Sessions \ {s} : d.rows[t] = c.rows[t] /\ d.marker[t] = c.marker[t]
    BY <1>1 DEF Pages, Observe
  <2>4. /\ d.marker[s] = n
        /\ d.rows[s] = value \/ d.rows[s] = NoRow
    BY <1>1 DEF Pages, Observe
  <2> HIDE DEF d
  <2> QED BY <1>3, <1>4, <2>1, <2>2, <2>3, <2>4, FitMoves, KnownRows DEF Fit, Behind
<1>6. ApplyInput(c, s, n, value, alert) \in
         {c, d, Opened(d, s, alert), Cleared(d, {s})}
  BY DEF ApplyInput
<1> HIDE DEF d
<1>7. Fit(ApplyInput(c, s, n, value, alert), daemon)
  BY <1>5, <1>6, OpenedFits, ClearedFits
<1> QED BY <1>7 DEF value

LEMMA DeletionFits ==
    ASSUME NEW c, Fit(c, daemon), NEW s \in Sessions, EndOf(daemon, c.epoch) >= -1
    PROVE  Fit(CommitDeletion(c, s), daemon)
<1> DEFINE d == [c EXCEPT !.tombstones = @ \cup {s}, !.rows[s] = NoRow, !.marker[s] = -1]
<1>1. c \in Pages
  BY DEF Fit
<1>2. d \in Pages /\ d.epoch = c.epoch /\ d.at = c.at /\ d.attached = c.attached
  <2>1. NoRow \in Rows
    BY KnownRows
  <2>2. [c.rows EXCEPT ![s] = NoRow] \in [Sessions -> Rows]
    BY <1>1, <2>1 DEF Pages
  <2>3. [c.marker EXCEPT ![s] = -1] \in [Sessions -> Int]
    BY <1>1 DEF Pages
  <2> QED BY <1>1, <2>2, <2>3 DEF Pages
<1>3. \A t \in Sessions : d.last[t] = c.last[t]
  BY <1>1 DEF Pages
<1>4. \A t \in Sessions \ {s} : d.rows[t] = c.rows[t] /\ d.marker[t] = c.marker[t]
  BY <1>1 DEF Pages
<1>5. d.marker[s] = -1 /\ d.rows[s] = NoRow
  BY <1>1 DEF Pages
<1>6. CommitDeletion(c, s) \in {d, Cleared(d, {s})}
  BY DEF CommitDeletion
<1> HIDE DEF d
<1>7. -1 \in -1 .. EndOf(daemon, c.epoch)
  BY DEF EndOf
<1>8. Fit(d, daemon)
  BY <1>2, <1>3, <1>4, <1>5, <1>7, FitMoves, KnownRows DEF Fit, Behind
<1> QED BY <1>6, <1>8, ClearedFits

\* A page that changes lifetimes knows nothing any more.
LEMMA ResetFits ==
    ASSUME daemon \in Daemons, NEW c \in Pages, c.at \in 0 .. Len(Log)
    PROVE  Fit(ResetForEpoch(c, daemon.epoch), daemon)
<1> DEFINE gone == {s \in Sessions : Needing(c.rows[s])} \cup {s \in c.opened : c.rows[s] = NoRow}
           b == Cleared(c, gone)
           rows == [s \in Sessions |-> IF b.rows[s] = NoRow THEN NoRow ELSE Unknown]
           e == [b EXCEPT !.epoch = daemon.epoch, !.rows = rows,
                          !.marker = [s \in Sessions |-> -1],
                          !.last = [s \in Sessions |-> -1]]
<1>1. b \in Pages /\ b.at = c.at
  BY DEF Cleared, Pages
<1>2. ResetForEpoch(c, daemon.epoch) = e
  BY DEF ResetForEpoch
<1>3. daemon.epoch \in Nat \ {0} /\ Len(Log) \in Nat
  BY DEF Daemons, Epochs, Log
<1> HIDE DEF b
<1>4. /\ e \in Pages /\ e.epoch = daemon.epoch /\ e.at = c.at
      /\ \A s \in Sessions : e.rows[s] \in {NoRow, Unknown} /\ e.marker[s] = -1 /\ e.last[s] = -1
  <2>1. rows \in [Sessions -> Rows] /\ \A s \in Sessions : rows[s] \in {NoRow, Unknown}
    BY KnownRows
  <2>2. [s \in Sessions |-> -1] \in [Sessions -> Int]
    OBVIOUS
  <2> HIDE DEF rows
  <2> QED BY <1>1, <1>3, <2>1, <2>2 DEF Pages
<1>5. EndOf(daemon, daemon.epoch) = Len(Log)
  BY <1>3 DEF EndOf, Log
<1> HIDE DEF e
<1>6. Behind(e, daemon) /\ RowsAreAsOf(e, daemon)
  BY <1>3, <1>4, <1>5, KnownRows DEF Behind, RowsAreAsOf
<1> QED BY <1>2, <1>4, <1>6 DEF Fit

LEMMA EndBounds ==
    ASSUME daemon \in Daemons, NEW k \in 0 .. daemon.epoch
    PROVE  /\ EndOf(daemon, k) \in Int /\ EndOf(daemon, k) >= -1
           /\ k # 0 => EndOf(daemon, k) = Len(daemon.log[k]) /\ EndOf(daemon, k) \in Nat
<1>1. daemon.epoch \in 1 .. MaxEpoch /\ MaxEpoch \in Nat
  BY InputAssumption DEF Daemons, Epochs
<1>2. k # 0 => k \in Epochs
  BY <1>1 DEF Epochs
<1>3. k # 0 => daemon.log[k] \in Seq(Events)
  BY <1>2 DEF Daemons
<1>4. k # 0 => Len(daemon.log[k]) \in Nat
  BY <1>3
<1> QED BY <1>4 DEF EndOf

\* A list in which some rows take what a truthful answer says and others are
\* forgotten, or known to exist only.
Adopt(rows, marker, answer, c) ==
    \A s \in Sessions :
        \/ rows[s] = answer.pending[s] /\ marker[s] = answer.sequence
        \/ rows[s] \in {c.rows[s], NoRow, Unknown} /\ marker[s] = c.marker[s]

LEMMA AdoptedFits ==
    ASSUME daemon \in Daemons, NEW c, Fit(c, daemon),
           NEW answer, Truthful(answer, daemon), answer.epoch = c.epoch,
           NEW rows \in [Sessions -> Rows], NEW marker \in [Sessions -> Int],
           Adopt(rows, marker, answer, c)
    PROVE  Fit([c EXCEPT !.rows = rows, !.marker = marker], daemon)
<1> DEFINE e == [c EXCEPT !.rows = rows, !.marker = marker]
<1>1. c \in Pages /\ c.epoch \in 1 .. daemon.epoch
  BY DEF Fit, Truthful
<1>2. answer.sequence \in 0 .. EndOf(daemon, c.epoch) /\ EndOf(daemon, c.epoch) \in Int
  BY <1>1, EndBounds DEF Truthful
<1>5. /\ e \in Pages /\ e.epoch = c.epoch /\ e.at = c.at /\ e.attached = c.attached
      /\ e.rows = rows /\ e.marker = marker /\ e.last = c.last
  BY <1>1 DEF Pages
<1> HIDE DEF e
<1>6. \A s \in Sessions : {e.marker[s], e.last[s]} \subseteq -1 .. EndOf(daemon, c.epoch)
  BY <1>2, <1>5 DEF Fit, Behind, Adopt
<1>7. ASSUME NEW s \in Sessions
      PROVE  \/ e.rows[s] = c.rows[s] /\ e.marker[s] = c.marker[s]
             \/ ~Known(e.rows[s])
             \/ /\ e.marker[s] >= 0
                /\ e.rows[s] = Said(daemon.log[c.epoch], e.marker[s], s)
  BY <1>2, <1>5, KnownRows DEF Truthful, Adopt
<1>8. Fit(e, daemon)
  BY <1>5, <1>6, <1>7, FitMoves
<1> QED BY <1>8 DEF e

LEMMA PendingListFits ==
    ASSUME daemon \in Daemons, NEW c, Fit(c, daemon),
           NEW answer, Truthful(answer, daemon), answer.epoch = c.epoch
    PROVE  Fit(ApplyPendingList(c, answer), daemon)
<1> DEFINE Named(s) == Needing(answer.pending[s])
           adopted == {s \in Sessions : /\ Named(s) \/ Needing(c.rows[s])
                                        /\ Accepts(c, s, answer.sequence)}
           rows == [s \in Sessions |-> IF s \in adopted THEN answer.pending[s] ELSE c.rows[s]]
           marker == [s \in Sessions |-> IF s \in adopted THEN answer.sequence ELSE c.marker[s]]
<1>1. ApplyPendingList(c, answer) = [c EXCEPT !.rows = rows, !.marker = marker]
  BY DEF ApplyPendingList, Fit, Pages
<1>2. answer.pending \in [Sessions -> Summaries] /\ answer.sequence \in Int /\ c \in Pages
  <2>1. c.epoch \in 0 .. daemon.epoch
    BY DEF Fit, Behind
  <2> QED BY <2>1, EndBounds DEF Truthful, Fit
<1> HIDE DEF adopted
<1>3. rows \in [Sessions -> Rows] /\ marker \in [Sessions -> Int]
  BY <1>2, KnownRows DEF Pages
<1>4. Adopt(rows, marker, answer, c)
  BY DEF Adopt
<1> HIDE DEF rows, marker
<1>5. Fit([c EXCEPT !.rows = rows, !.marker = marker], daemon)
  BY <1>3, <1>4, AdoptedFits
<1> QED BY <1>1, <1>5

LEMMA ListFits ==
    ASSUME daemon \in Daemons, NEW c, Fit(c, daemon), NEW baseline, NEW adopting,
           NEW answer, Truthful(answer, daemon), answer.epoch = c.epoch
    PROVE  Fit(ApplyList(c, answer, baseline, adopting), daemon)
<1> DEFINE removed == {s \in Sessions : s \in c.tombstones
                                        \/ (c.rows[s] = NoRow /\ baseline[s] # NoRow)}
           listed == Sessions \ (answer.gone \cup removed)
           dropped == {s \in answer.gone : c.rows[s] = baseline[s]}
           adopted == {s \in listed : adopting /\ Accepts(c, s, answer.sequence)}
           rows == [s \in Sessions |-> IF s \in adopted THEN answer.pending[s]
                                       ELSE IF s \in dropped THEN NoRow
                                       ELSE IF s \in listed /\ c.rows[s] = NoRow THEN Unknown
                                       ELSE c.rows[s]]
           marker == [s \in Sessions |-> IF s \in adopted THEN answer.sequence ELSE c.marker[s]]
<1>1. ApplyList(c, answer, baseline, adopting) = [c EXCEPT !.rows = rows, !.marker = marker]
  BY DEF ApplyList, Fit, Pages
<1>2. answer.pending \in [Sessions -> Summaries] /\ answer.sequence \in Int /\ c \in Pages
  <2>1. c.epoch \in 0 .. daemon.epoch
    BY DEF Fit, Behind
  <2> QED BY <2>1, EndBounds DEF Truthful, Fit
<1> HIDE DEF adopted, dropped, listed
<1>3. rows \in [Sessions -> Rows] /\ marker \in [Sessions -> Int]
  BY <1>2, KnownRows DEF Pages
<1>4. Adopt(rows, marker, answer, c)
  BY DEF Adopt
<1> HIDE DEF rows, marker
<1>5. Fit([c EXCEPT !.rows = rows, !.marker = marker], daemon)
  BY <1>3, <1>4, AdoptedFits
<1> QED BY <1>1, <1>5

\* A sample moves the cursor of its session, and its row says what the sample does.
LEMMA SampledFits ==
    ASSUME daemon \in Daemons, NEW c, Fit(c, daemon), c.epoch \in 1 .. daemon.epoch,
           NEW s \in Sessions, NEW n \in 0 .. EndOf(daemon, c.epoch),
           NEW value \in Summaries, value = Said(daemon.log[c.epoch], n, s)
    PROVE  Fit(Sampled(c, s, n, value), daemon)
<1> DEFINE d == IF Accepts(c, s, n)
                THEN [c EXCEPT !.marker[s] = n, !.rows = Observe(@, s, value)]
                ELSE c
           last == Max({c.last[s], n})
           e == [d EXCEPT !.last[s] = last]
<1>1. c \in Pages
  BY DEF Fit
<1>2. EndOf(daemon, c.epoch) \in Int /\ n \in Int
  BY EndBounds
<1>3. c.last[s] \in -1 .. EndOf(daemon, c.epoch) /\ c.last[s] \in Int
  BY <1>1 DEF Fit, Behind, Pages
<1>4. last \in {c.last[s], n}
  <2>1. IsFiniteSet({c.last[s]})
    BY FS_Singleton
  <2>2. IsFiniteSet({c.last[s]} \cup {n})
    BY <2>1, FS_AddElement
  <2>3. {c.last[s]} \cup {n} = {c.last[s], n} /\ {c.last[s], n} \in SUBSET Int
    BY <1>2, <1>3
  <2> QED BY <2>2, <2>3, HasMax
<1> HIDE DEF last
<1>5. value \in Rows
  BY KnownRows
<1>6. /\ d \in Pages /\ d.epoch = c.epoch /\ d.at = c.at /\ d.attached = c.attached
      /\ d.last = c.last
      /\ \A t \in Sessions \ {s} : d.rows[t] = c.rows[t] /\ d.marker[t] = c.marker[t]
      /\ \/ d.rows[s] = c.rows[s] /\ d.marker[s] = c.marker[s]
         \/ d.rows[s] \in {value, NoRow} /\ d.marker[s] = n
  <2>1. CASE Accepts(c, s, n)
    <3>1. Observe(c.rows, s, value) \in [Sessions -> Rows]
      BY <1>1, <1>5 DEF Pages, Observe
    <3>2. [c.marker EXCEPT ![s] = n] \in [Sessions -> Int]
      BY <1>1, <1>2 DEF Pages
    <3>3. d = [c EXCEPT !.marker = [c.marker EXCEPT ![s] = n],
                        !.rows = Observe(c.rows, s, value)]
      BY <1>1, <2>1 DEF Pages
    <3>4. /\ d \in Pages /\ d.epoch = c.epoch /\ d.at = c.at /\ d.attached = c.attached
          /\ d.last = c.last /\ d.marker = [c.marker EXCEPT ![s] = n]
          /\ d.rows = Observe(c.rows, s, value)
      BY <1>1, <3>1, <3>2, <3>3 DEF Pages
    <3> HIDE DEF d
    <3> QED BY <1>1, <3>4 DEF Observe, Pages
  <2>2. CASE ~Accepts(c, s, n)
    BY <1>1, <2>2
  <2> QED BY <2>1, <2>2
<1>7. Sampled(c, s, n, value) = e
  BY <1>6 DEF Sampled, last
<1> HIDE DEF d
<1>8. /\ e \in Pages /\ e.epoch = c.epoch /\ e.at = c.at /\ e.attached = c.attached
      /\ e.marker = d.marker /\ e.last = [c.last EXCEPT ![s] = last] /\ e.rows = d.rows
  <2>1. [c.last EXCEPT ![s] = last] \in [Sessions -> Int]
    BY <1>1, <1>2, <1>4 DEF Pages
  <2> QED BY <1>6, <2>1 DEF Pages
<1> HIDE DEF e
<1>9. \A t \in Sessions : {e.marker[t], e.last[t]} \subseteq -1 .. EndOf(daemon, c.epoch)
  BY <1>1, <1>2, <1>3, <1>4, <1>6, <1>8 DEF Fit, Behind, Pages
<1>10. \A t \in Sessions \ {s} : e.rows[t] = c.rows[t] /\ e.marker[t] = c.marker[t]
  BY <1>6, <1>8 DEF Pages
<1>11. \/ e.rows[s] = c.rows[s] /\ e.marker[s] = c.marker[s]
       \/ ~Known(e.rows[s])
       \/ e.marker[s] >= 0 /\ e.rows[s] = Said(daemon.log[c.epoch], e.marker[s], s)
  BY <1>2, <1>6, <1>8, KnownRows DEF Pages
<1>12. \A t \in Sessions :
          \/ e.rows[t] = c.rows[t] /\ e.marker[t] = c.marker[t]
          \/ ~Known(e.rows[t])
          \/ e.marker[t] >= 0 /\ e.rows[t] = Said(daemon.log[c.epoch], e.marker[t], t)
  BY <1>10, <1>11
<1>13. Fit(e, daemon)
  BY <1>8, <1>9, <1>12, FitMoves
<1> QED BY <1>7, <1>13

\* After a detail the row at least exists.
LEMMA DetailFits ==
    ASSUME daemon \in Daemons, NEW c, Fit(c, daemon), NEW s \in Sessions,
           NEW answer, Truthful(answer, daemon), answer.epoch = c.epoch
    PROVE  Fit(ApplyDetail(c, s, answer), daemon)
<1> DEFINE h == Sampled(c, s, answer.sequence, answer.pending[s])
           rows == [h.rows EXCEPT ![s] = IF h.rows[s] = NoRow THEN Unknown ELSE h.rows[s]]
           e == [h EXCEPT !.rows = rows]
<1>1. c.epoch \in 1 .. daemon.epoch /\ c.epoch \in 0 .. daemon.epoch
  BY DEF Truthful
<1>2. EndOf(daemon, c.epoch) = Len(daemon.log[c.epoch])
  BY <1>1, EndBounds
<1>3. Fit(h, daemon)
  BY <1>1, <1>2, SampledFits DEF Truthful
<1>4. h \in Pages
  BY <1>3 DEF Fit
<1>5. ApplyDetail(c, s, answer) = e
  BY <1>4 DEF ApplyDetail, Pages
<1> HIDE DEF h
<1>6. rows \in [Sessions -> Rows]
  BY <1>4, KnownRows DEF Pages
<1>7. \A t \in Sessions : rows[t] = h.rows[t] \/ rows[t] = Unknown
  BY <1>4 DEF Pages
<1> HIDE DEF rows
<1>8. /\ e \in Pages /\ e.epoch = h.epoch /\ e.at = h.at /\ e.attached = h.attached
      /\ e.marker = h.marker /\ e.last = h.last /\ e.rows = rows
  BY <1>4, <1>6 DEF Pages
<1> HIDE DEF e
<1>9. \A t \in Sessions : {e.marker[t], e.last[t]} \subseteq -1 .. EndOf(daemon, h.epoch)
  BY <1>3, <1>8 DEF Fit, Behind
<1>10. Fit(e, daemon)
  BY <1>3, <1>7, <1>8, <1>9, FitMoves, KnownRows
<1> QED BY <1>5, <1>10

-----------------------------------------------------------------------------
(* The steps of the page. *)

FetchFits(f) == f \in Fetches /\ (f.step = "answered" => Truthful(f.answer, daemon))

LEMMA PageMoves ==
    ASSUME IInv, UNCHANGED <<daemon, list, detail>>, Fit(page', daemon), FetchFits(fetch')
    PROVE  IInv'
<1>1. daemon' \in Daemons /\ IndexIsLogged(daemon')
  BY DEF IInv
<1>2. Fit(page', daemon')
  OBVIOUS
<1>3. (fetch \in Fetches)'
  BY DEF FetchFits, Fetches, Answers, Summaries, Pending
<1>4. AnswersTruthful(daemon)'
  BY DEF IInv, FetchFits, AnswersTruthful
<1> QED BY <1>1, <1>2, <1>3, <1>4 DEF IInv

LEMMA AnswerTruthful ==
    ASSUME IInv
    PROVE  Truthful(Answer, daemon) /\ Answer \in Answers
<1>1. /\ daemon \in Daemons /\ daemon.epoch \in 1 .. daemon.epoch /\ daemon.epoch \in Nat
      /\ Len(Log) \in Nat
  BY InputAssumption DEF IInv, Daemons, Epochs, Log
<1> DEFINE pending == [s \in Sessions |-> Index(s)]
<1>2. pending \in [Sessions -> Summaries]
  BY <1>1 DEF Index, Summaries, Daemons
<1>3. \A s \in Sessions : pending[s] = Said(Log, Len(Log), s)
  BY DEF IInv, IndexIsLogged, Index, Log
<1>4. Gone \in SUBSET Sessions
  BY DEF Gone
<1>5. /\ Answer.epoch = daemon.epoch /\ Answer.sequence = Len(Log)
      /\ Answer.pending = pending /\ Answer.gone = Gone
      /\ Answer = [epoch |-> daemon.epoch, sequence |-> Len(Log), pending |-> pending, gone |-> Gone]
  BY DEF Answer, LogHead
<1> HIDE DEF pending
<1>6. Answer \in Answers
  BY <1>1, <1>2, <1>4, <1>5 DEF Answers
<1>7. Truthful(Answer, daemon)
  BY <1>1, <1>2, <1>3, <1>5 DEF Truthful, Log
<1> QED BY <1>6, <1>7

\* A fetch that is triggered, or over, holds no other answer.
LEMMA FetchesFit ==
    ASSUME IInv
    PROVE  /\ FetchFits(fetch) /\ FetchFits(Refreshed(fetch))
           /\ FetchFits(Refreshed(NoFetch)) /\ FetchFits(Finished(fetch))
<1>1. NoAnswer \in Answers
  <2>1. [s \in Sessions |-> Null] \in [Sessions -> Summaries]
    BY NothingPending
  <2> QED BY <2>1 DEF NoAnswer, Answers
<1>2. NoFetch \in Fetches /\ NoFetch.step = "idle" /\ NoFetch.again = FALSE
  BY <1>1 DEF NoFetch, Fetches
<1>3. FetchFits(fetch)
  BY DEF FetchFits, IInv, AnswersTruthful
<1>4. FetchFits(Refreshed(fetch))
  BY <1>3 DEF FetchFits, Refreshed, Fetches
<1>5. FetchFits([NoFetch EXCEPT !.step = "asked"]) /\ FetchFits(NoFetch)
  BY <1>2 DEF FetchFits, Fetches
<1> QED BY <1>2, <1>3, <1>4, <1>5 DEF Refreshed, Finished

LEMMA StreamCursorBounded ==
    ASSUME IInv
    PROVE  StreamCursor \in -1 .. EndOf(daemon, page.epoch)
<1> DEFINE last == {page.last[s] : s \in Sessions}
<1>1. EndOf(daemon, page.epoch) \in Int /\ EndOf(daemon, page.epoch) >= -1
  BY EndBounds DEF IInv, Fit, Behind
<1>2. last \cup {-1} \subseteq -1 .. EndOf(daemon, page.epoch)
  BY <1>1 DEF IInv, Fit, Behind
<1>3. IsFiniteSet(last \cup {-1})
  <2>1. IsFiniteSet(-1 .. EndOf(daemon, page.epoch))
    BY <1>1, FS_Interval
  <2> QED BY <1>2, <2>1, FS_Subset
<1>4. last \cup {-1} \in SUBSET Int /\ last \cup {-1} # {}
  BY <1>2
<1> HIDE DEF last
<1>5. Max(last \cup {-1}) \in last \cup {-1}
  BY <1>3, <1>4, HasMax
<1> QED BY <1>2, <1>5 DEF StreamCursor, last

\* What a log says is a summary.
LEMMA SaidTyped ==
    ASSUME NEW log \in Seq(Events), NEW n \in 0 .. Len(log), NEW s \in Sessions
    PROVE  Said(log, n, s) \in Summaries
<1>1. CASE About(log, n, s) = {}
  BY <1>1, NothingPending DEF Said
<1>2. CASE About(log, n, s) # {}
  <2>1. Max(About(log, n, s)) \in 1 .. Len(log)
    <3>1. Len(log) \in Nat /\ n \in Nat
      OBVIOUS
    <3>2. Max(About(log, n, s)) \in About(log, n, s)
      BY <1>2, <3>1, MaxOfAbout
    <3> QED BY <3>1, <3>2 DEF About
  <2>2. \A i \in 1 .. Len(log) : log[i] \in Events
    OBVIOUS
  <2>3. log[Max(About(log, n, s))] \in Events
    BY <2>1, <2>2
  <2> QED BY <1>2, <2>3 DEF Said, Events
<1> QED BY <1>1, <1>2

\* A snapshot is a sample that says what the log does where the stream is.
LEMMA SnapshotSays ==
    ASSUME IInv, NEW s \in Sessions, Snapshot(s)
    PROVE  /\ page.epoch = daemon.epoch /\ page.epoch \in 1 .. daemon.epoch
           /\ page.at \in 0 .. EndOf(daemon, page.epoch)
           /\ EndOf(daemon, page.epoch) = Len(Log) /\ daemon.log[page.epoch] = Log
           /\ AsOf(page.epoch, page.at, s) = Said(Log, page.at, s)
           /\ \A t \in Sessions : Said(Log, page.at, t) \in Summaries
<1>1. /\ page.epoch = daemon.epoch /\ page.at >= 0 /\ page.at \in -1 .. EndOf(daemon, page.epoch)
      /\ page.epoch \in 0 .. daemon.epoch
  BY DEF Snapshot, IInv, Fit, Behind
<1>2. daemon \in Daemons /\ daemon.epoch \in Epochs /\ page.epoch \in 1 .. daemon.epoch
  BY <1>1, InputAssumption DEF IInv, Daemons, Epochs
<1>3. EndOf(daemon, page.epoch) = Len(Log) /\ daemon.log[page.epoch] = Log
  BY <1>1, <1>2, EndBounds DEF Log
<1>4. Log \in Seq(Events) /\ Len(Log) \in Nat
  BY <1>2 DEF Daemons, Log
<1>5. page.at \in 0 .. Len(Log)
  BY <1>1, <1>3, <1>4
<1> QED BY <1>1, <1>2, <1>3, <1>4, <1>5, SaidTyped DEF AsOf, Said, About

LEMMA SnapshotKeeps ==
    ASSUME IInv, NEW s \in Sessions, Snapshot(s)
    PROVE  IInv'
<1> DEFINE value == AsOf(page.epoch, page.at, s)
           h == Sampled(page, s, page.at, value)
<1>1. value \in Summaries /\ value = Said(daemon.log[page.epoch], page.at, s)
  BY SnapshotSays
<1> HIDE DEF value
<1>2. Fit(h, daemon)
  BY <1>1, SnapshotSays, SampledFits DEF IInv
<1>3. page' = Reconciled(h) /\ UNCHANGED <<daemon, fetch, list, detail>>
  BY DEF Snapshot, Becomes, OtherThanPage, value
<1> HIDE DEF h
<1> QED BY <1>2, <1>3, ReconciledFits, FetchesFit, PageMoves

LEMMA OpenKeeps ==
    ASSUME IInv, Open
    PROVE  IInv'
<1>1. /\ daemon \in Daemons /\ daemon.epoch \in Nat \ {0} /\ page \in Pages
      /\ page.epoch = 0 /\ page' = [page EXCEPT !.epoch = daemon.epoch]
  BY DEF IInv, Fit, Open, Daemons, Epochs
<1>2. /\ page' \in Pages /\ page'.epoch = daemon.epoch /\ page'.attached = page.attached
      /\ page'.at = page.at /\ page'.rows = page.rows /\ page'.marker = page.marker
      /\ page'.last = page.last
  BY <1>1 DEF Pages
<1>3. /\ ~page.attached /\ page.at = -1
      /\ \A s \in Sessions : page.marker[s] = -1 /\ page.last[s] = -1 /\ ~Known(page.rows[s])
  BY <1>1 DEF IInv, Fit, Behind, EndOf, RowsAreAsOf
<1>4. EndOf(daemon, daemon.epoch) \in Nat
  BY <1>1, EndBounds
<1>5. Fit(page', daemon)
  BY <1>1, <1>2, <1>3, <1>4 DEF Fit, Behind, RowsAreAsOf
<1> QED BY <1>5, FetchesFit, PageMoves DEF Open

LEMMA AttachKeeps ==
    ASSUME IInv, NEW store \in BOOLEAN, NEW retained \in BOOLEAN, Attach(store, retained)
    PROVE  IInv'
<1> DEFINE changed == page.epoch # daemon.epoch
           cursor == IF store \/ page.at = -1 THEN StreamCursor ELSE page.at
           resync == changed \/ ~retained \/ cursor = -1
           at == IF resync THEN LogHead ELSE cursor
           signals == store \/ page.signals
           c == [page EXCEPT !.attached = TRUE, !.at = at, !.signals = signals /\ ~resync]
<1>1. /\ Becomes(IF changed THEN ResetForEpoch(c, daemon.epoch) ELSE c)
      /\ fetch' \in {fetch, Refreshed(fetch), Refreshed(NoFetch)}
      /\ UNCHANGED <<daemon, list, detail>>
      /\ page.epoch # 0
  BY DEF Attach
<1>2. /\ daemon \in Daemons /\ page \in Pages /\ page.epoch \in 0 .. daemon.epoch
      /\ daemon.epoch \in Nat \ {0} /\ Len(Log) \in Nat
  BY InputAssumption DEF IInv, Fit, Behind, Daemons, Epochs, Log
<1>3. changed => at = Len(Log)
  BY DEF LogHead
<1>4. ~changed => cursor \in -1 .. Len(Log)
  <2>1. ~changed => EndOf(daemon, page.epoch) = Len(Log)
    BY <1>2 DEF EndOf, Log
  <2> QED BY <2>1, StreamCursorBounded DEF IInv, Fit, Behind
<1>5. at \in 0 .. Len(Log)
  BY <1>2, <1>3, <1>4 DEF LogHead
<1>6. /\ c \in Pages /\ c.epoch = page.epoch /\ c.at = at /\ c.attached = TRUE
      /\ c.rows = page.rows /\ c.marker = page.marker /\ c.last = page.last
  <2>1. (signals /\ ~resync) \in BOOLEAN /\ at \in Int
    BY <1>2, <1>5
  <2> HIDE DEF signals, resync, at
  <2> QED BY <1>2, <2>1 DEF Pages
<1> HIDE DEF c, at, cursor, resync
<1>7. CASE changed
  <2>1. Fit(ResetForEpoch(c, daemon.epoch), daemon)
    BY <1>2, <1>5, <1>6, ResetFits
  <2>2. page' = Reconciled(ResetForEpoch(c, daemon.epoch))
    BY <1>1, <1>7 DEF Becomes
  <2> QED BY <1>1, <2>1, <2>2, ReconciledFits, FetchesFit, PageMoves
<1>8. CASE ~changed
  <2>1. EndOf(daemon, page.epoch) = Len(Log)
    BY <1>2, <1>8 DEF EndOf, Log
  <2>2. Fit(c, daemon)
    BY <1>2, <1>5, <1>6, <1>8, <2>1 DEF IInv, Fit, Behind, RowsAreAsOf
  <2>3. page' = Reconciled(c)
    BY <1>1, <1>8 DEF Becomes
  <2> QED BY <1>1, <2>2, <2>3, ReconciledFits, FetchesFit, PageMoves
<1> QED BY <1>7, <1>8

\* An event is applied at its own sequence, or not at all.
LEMMA ReceiveKeeps ==
    ASSUME IInv, Receive
    PROVE  IInv'
<1> DEFINE n == page.at + 1
           e == Log[n]
           s == e.session
           c == [page EXCEPT !.at = n]
           d == [c EXCEPT !.last[s] = n]
<1>1. /\ page.attached /\ page.at < Len(Log)
      /\ UNCHANGED <<daemon, fetch, list, detail>>
      /\ \/ Becomes(c)
         \/ Becomes(CommitDeletion(d, s))
         \/ \E alert \in BOOLEAN : Becomes(ApplyInput(d, s, n, e.pending, alert))
  BY DEF Receive, LogHead, OtherThanPage
<1>2. /\ daemon \in Daemons /\ page \in Pages /\ daemon.epoch \in Nat \ {0}
      /\ page.epoch = daemon.epoch /\ Log \in Seq(Events) /\ Len(Log) \in Nat
      /\ page.at \in Nat
  BY <1>1, InputAssumption DEF IInv, Fit, Behind, Pages, Daemons, Epochs, Log
<1>3. EndOf(daemon, page.epoch) = Len(Log) /\ n \in 1 .. Len(Log)
  BY <1>1, <1>2 DEF EndOf, Log
<1>4. e \in Events /\ s \in Sessions
  <2>1. \A log \in Seq(Events) : \A i \in 1 .. Len(log) : log[i] \in Events
    OBVIOUS
  <2>2. e \in Events
    BY <1>2, <1>3, <2>1
  <2> QED BY <2>2 DEF Events
<1> HIDE DEF n, e, s
<1>5. /\ c \in Pages /\ c.epoch = page.epoch /\ c.at = n /\ c.attached = page.attached
      /\ c.rows = page.rows /\ c.marker = page.marker /\ c.last = page.last
  <2>1. n \in Int
    BY <1>2, <1>3
  <2> QED BY <1>2, <2>1 DEF Pages
<1> HIDE DEF c
<1>6. /\ d \in Pages /\ d.epoch = page.epoch /\ d.at = n /\ d.attached = page.attached
      /\ d.rows = page.rows /\ d.marker = page.marker
      /\ \A t \in Sessions : d.last[t] \in {n, page.last[t]}
  <2>1. [c.last EXCEPT ![s] = n] \in [Sessions -> Int]
    BY <1>3, <1>5 DEF Pages
  <2> QED BY <1>2, <1>3, <1>4, <1>5, <2>1 DEF Pages
<1> HIDE DEF d
<1>7. Fit(c, daemon) /\ Fit(d, daemon)
  BY <1>2, <1>3, <1>5, <1>6 DEF IInv, Fit, Behind, RowsAreAsOf
<1>8. Fit(page', daemon)
  <2>1. CASE Becomes(c)
    BY <1>7, <2>1, ReconciledFits DEF Becomes
  <2>2. CASE Becomes(CommitDeletion(d, s))
    <3>1. EndOf(daemon, d.epoch) >= -1
      BY <1>2, <1>3, <1>6
    <3>2. Fit(CommitDeletion(d, s), daemon)
      BY <1>4, <1>7, <3>1, DeletionFits
    <3> QED BY <2>2, <3>2, ReconciledFits DEF Becomes
  <2>3. ASSUME NEW alert \in BOOLEAN, Becomes(ApplyInput(d, s, n, e.pending, alert))
        PROVE  Fit(page', daemon)
    <3>1. /\ d.epoch # 0 /\ daemon.log[d.epoch] = Log
          /\ n \in 1 .. Len(daemon.log[d.epoch])
          /\ daemon.log[d.epoch][n] = e /\ e.session = s
      BY <1>2, <1>3, <1>6 DEF Log, e, s
    <3>2. Fit(ApplyInput(d, s, n, e.pending, alert), daemon)
      BY <1>2, <1>4, <1>7, <3>1, InputFits
    <3> QED BY <2>3, <3>2, ReconciledFits DEF Becomes
  <2> QED BY <1>1, <2>1, <2>2, <2>3
<1> QED BY <1>1, <1>8, FetchesFit, PageMoves

\* What only the page decides: to lose its stream, an alert, or a session.
LEMMA PageKeeps ==
    ASSUME IInv,
           Disconnect \/ \E s \in Sessions : DismissAlert(s) \/ NoticeGone(s)
    PROVE  IInv'
<1>1. UNCHANGED <<daemon, fetch, list, detail>>
  BY DEF Disconnect, DismissAlert, NoticeGone, OtherThanPage
<1>2. Fit(page', daemon)
  <2>1. CASE Disconnect
    BY <2>1 DEF Disconnect, IInv, Fit, Pages, Behind, RowsAreAsOf
  <2>2. ASSUME NEW s \in Sessions, DismissAlert(s)
        PROVE  Fit(page', daemon)
    BY <2>2 DEF DismissAlert, IInv, Fit, Pages, Behind, RowsAreAsOf
  <2>3. ASSUME NEW s \in Sessions, NoticeGone(s)
        PROVE  Fit(page', daemon)
    <3>1. EndOf(daemon, page.epoch) >= -1
      BY EndBounds DEF IInv, Fit, Behind
    <3>2. Fit(CommitDeletion(page, s), daemon)
      BY <3>1, DeletionFits DEF IInv
    <3> QED BY <2>3, <3>2, ReconciledFits DEF NoticeGone, Becomes
  <2> QED BY <2>1, <2>2, <2>3
<1> QED BY <1>1, <1>2, FetchesFit, PageMoves

-----------------------------------------------------------------------------
(* The reads of the page. *)

LEMMA FetchKeeps ==
    ASSUME IInv, AnswerFetch \/ CommitFetch \/ FailFetch
    PROVE  IInv'
<1>1. UNCHANGED <<daemon, list, detail>>
  BY DEF AnswerFetch, CommitFetch, FailFetch
<1>2. CASE AnswerFetch
  <2>1. FetchFits(fetch')
    <3>1. fetch' = [fetch EXCEPT !.step = "answered", !.answer = Answer] /\ fetch \in Fetches
      BY <1>2 DEF AnswerFetch, IInv
    <3>2. fetch' \in Fetches /\ fetch'.answer = Answer
      BY <3>1, AnswerTruthful DEF Fetches
    <3> QED BY <3>2, AnswerTruthful DEF FetchFits
  <2>2. page' = page
    BY <1>2 DEF AnswerFetch
  <2> QED BY <1>1, <2>1, <2>2, PageMoves DEF IInv
<1>3. CASE CommitFetch
  <2>1. Truthful(fetch.answer, daemon)
    BY <1>3 DEF CommitFetch, IInv, AnswersTruthful
  <2>2. CASE fetch.answer.epoch = page.epoch
    <3>1. Fit(ApplyPendingList(page, fetch.answer), daemon)
      BY <2>1, <2>2, PendingListFits DEF IInv
    <3>2. page' = Reconciled(ApplyPendingList(page, fetch.answer)) /\ fetch' = Finished(fetch)
      BY <1>3, <2>2 DEF CommitFetch, Becomes
    <3> QED BY <1>1, <3>1, <3>2, ReconciledFits, FetchesFit, PageMoves
  <2>3. CASE fetch.answer.epoch # page.epoch
    BY <1>1, <1>3, <2>3, FetchesFit, PageMoves DEF CommitFetch, IInv
  <2> QED BY <2>2, <2>3
<1>4. CASE FailFetch
  BY <1>1, <1>4, FetchesFit, PageMoves DEF FailFetch, IInv
<1> QED BY <1>2, <1>3, <1>4

LEMMA AskKeeps ==
    ASSUME IInv, AskList \/ \E s \in Sessions : AskDetail(s)
    PROVE  IInv'
<1>1. UNCHANGED <<daemon, page, fetch>>
  BY DEF AskList, AskDetail
<1>2. AnswersTruthful(daemon)'
  <2>1. CASE AskList
    BY <2>1, AnswerTruthful DEF IInv, AnswersTruthful, AskList
  <2>2. ASSUME NEW s \in Sessions, AskDetail(s)
        PROVE  AnswersTruthful(daemon)'
    BY <2>2, AnswerTruthful DEF IInv, AnswersTruthful, AskDetail
  <2> QED BY <2>1, <2>2
<1>3. /\ (daemon \in Daemons)' /\ IndexIsLogged(daemon)' /\ Fit(page, daemon)'
      /\ (fetch \in Fetches)'
  BY <1>1 DEF IInv, Fetches, Answers, Summaries, Pending
<1> QED BY <1>2, <1>3 DEF IInv

\* The answer is let go once the page has taken what it says.
LEMMA AnswerLetGo ==
    ASSUME IInv, UNCHANGED <<daemon, fetch>>, Fit(page', daemon),
           list' \in {list, NoList}, detail' \in {detail, NoDetail}
    PROVE  IInv'
<1>1. AnswersTruthful(daemon)'
  <2>1. list'.answer # NoAnswer => list' = list
    BY DEF NoList
  <2>2. detail'.answer # NoAnswer => detail' = detail
    BY DEF NoDetail
  <2> QED BY <2>1, <2>2 DEF IInv, AnswersTruthful
<1>2. (fetch \in Fetches)'
  BY DEF IInv, Fetches, Answers, Summaries, Pending
<1> QED BY <1>1, <1>2 DEF IInv

LEMMA CommitListKeeps ==
    ASSUME IInv, CommitList
    PROVE  IInv'
<1> DEFINE answer == list.answer
           c(adopting) == IF answer.epoch = page.epoch
                          THEN ApplyList(page, answer, list.baseline, adopting) ELSE page
<1>1. PICK adopting \in BOOLEAN :
         page' = Reconciled(c(adopting)) /\ UNCHANGED <<daemon, fetch, detail>> /\ list' = NoList
  BY DEF CommitList, Becomes
<1>2. Truthful(answer, daemon)
  BY DEF CommitList, IInv, AnswersTruthful
<1>3. Fit(c(adopting), daemon)
  BY <1>2, ListFits DEF IInv
<1> HIDE DEF c
<1> QED BY <1>1, <1>3, ReconciledFits, AnswerLetGo

LEMMA CommitDetailKeeps ==
    ASSUME IInv, CommitDetail
    PROVE  IInv'
<1> DEFINE answer == detail.answer
           s == detail.session
           c == IF s \in page.tombstones \/ answer.epoch # page.epoch
                THEN page ELSE ApplyDetail(page, s, answer)
<1>1. page' = Reconciled(c) /\ UNCHANGED <<daemon, fetch, list>> /\ detail' = NoDetail
  BY DEF CommitDetail, Becomes
<1>2. Truthful(answer, daemon) /\ s \in Sessions
  BY DEF CommitDetail, IInv, AnswersTruthful
<1>3. Fit(c, daemon)
  BY <1>2, DetailFits DEF IInv
<1> HIDE DEF c
<1> QED BY <1>1, <1>3, ReconciledFits, AnswerLetGo

-----------------------------------------------------------------------------
LEMMA InitHolds == Init => IInv
<1> SUFFICES ASSUME Init PROVE IInv
  OBVIOUS
<1>1. 1 \in Epochs /\ MaxRequests \in Int
  BY InputAssumption DEF Epochs
<1>2. /\ daemon \in Daemons /\ daemon.epoch = 1
      /\ \A k \in Epochs : daemon.log[k] = <<>>
      /\ \A s \in Sessions : daemon.open[s] = {}
  BY <1>1 DEF Init, Daemons
<1>3. IndexIsLogged(daemon)
  <2>1. Len(<<>>) = 0
    OBVIOUS
  <2> QED BY <1>1, <1>2, <2>1, NothingPending, SaidNothing DEF IndexIsLogged
<1>4. Fit(page, daemon)
  <2>1. page \in Pages
    <3>1. [s \in Sessions |-> NoRow] \in [Sessions -> Rows]
      BY KnownRows
    <3>2. [s \in Sessions |-> -1] \in [Sessions -> Int]
      OBVIOUS
    <3> QED BY <3>1, <3>2 DEF Init, Pages
  <2>2. Behind(page, daemon)
    BY <1>2 DEF Init, Behind, EndOf
  <2>3. RowsAreAsOf(page, daemon)
    BY KnownRows DEF Init, RowsAreAsOf
  <2> QED BY <2>1, <2>2, <2>3 DEF Fit
<1>5. fetch \in Fetches /\ fetch.step = "idle"
  <2>1. [s \in Sessions |-> Null] \in [Sessions -> Summaries]
    BY NothingPending
  <2> QED BY <2>1 DEF Init, NoFetch, NoAnswer, Fetches, Answers
<1>6. AnswersTruthful(daemon)
  BY <1>5 DEF Init, NoList, NoDetail, AnswersTruthful
<1> QED BY <1>2, <1>3, <1>4, <1>5, <1>6 DEF IInv

LEMMA StepKeeps == IInv /\ [Next]_vars => IInv'
<1> SUFFICES ASSUME IInv, [Next]_vars PROVE IInv'
  OBVIOUS
<1>1. ASSUME NEW s \in Sessions,
             OpenRequest(s) \/ Settle(s) \/ Reload(s) \/ BeginClose(s) \/ EndClose(s)
      PROVE  IInv'
  BY <1>1, DaemonKeeps
<1>2. CASE Restart
  BY <1>2, RestartKeeps
<1>3. CASE Connect
  BY <1>3, OpenKeeps, AttachKeeps DEF Connect
<1>4. CASE Receive
  BY <1>4, ReceiveKeeps
<1>5. CASE Disconnect \/ \E s \in Sessions : DismissAlert(s) \/ NoticeGone(s)
  BY <1>5, PageKeeps
<1>6. CASE AnswerFetch \/ CommitFetch \/ FailFetch
  BY <1>6, FetchKeeps
<1>7. CASE AskList \/ \E s \in Sessions : AskDetail(s)
  BY <1>7, AskKeeps
<1>8. CASE CommitList
  BY <1>8, CommitListKeeps
<1>9. CASE CommitDetail
  BY <1>9, CommitDetailKeeps
<1>10. ASSUME NEW s \in Sessions, Snapshot(s) PROVE IInv'
  BY <1>10, SnapshotKeeps
<1>11. CASE UNCHANGED vars
  BY <1>11, FetchesFit, PageMoves DEF vars, IInv
<1> QED BY <1>1, <1>2, <1>3, <1>4, <1>5, <1>6, <1>7, <1>8, <1>9, <1>10, <1>11 DEF Next

\* The index is what the log ends with, no answer on its way says anything else than
\* the log said at its sequence, and neither does the page (_pending-input-index.js_
\* and the store's catalog): in every state, for every value of the constants.
THEOREM LogTellsTheIndex == Spec => []IInv
BY InitHolds, StepKeeps, PTL DEF Spec

\* RowIsAsOf: whichever of the five sources a row's badge came from, and whatever
\* overtook it, the badge is what the index held at the sequence of its marker.
THEOREM RowsSayWhatTheIndexSaid == Spec => []RowIsAsOf
<1>1. IInv => RowIsAsOf
  BY DEF IInv, Fit, RowsAreAsOf, RowIsAsOf, AsOf, Said, About
<1> QED BY <1>1, LogTellsTheIndex, PTL
-----------------------------------------------------------------------------
(* What a page that is caught up shows.                                    *)
(*                                                                         *)
(* BadgesTrue is about one moment, so a row has to be judged before the    *)
(* page is caught up: it shows what the index held at some sequence from   *)
(* the page's cursor onwards, or its session's deletion is still to come.  *)
(* What makes that inductive is that every event after the last miss has   *)
(* been applied, or is older than the marker that kept it out.             *)

Shows(value) == IF Needing(value) THEN value ELSE Null

\* The deletion of s is an event that a page at this sequence has still to receive.
Ends(log, at, s) == at >= 0 /\ \E i \in at + 1 .. Len(log) : log[i] = Deleted(s)

\* Nothing about s that page c received after the miss is newer than its marker.
Followed(log, c, m, s) == \A i \in m + 1 .. c.at : log[i].session = s => i <= c.marker[s]

\* What a marked row that says nothing stands for.
MarkedEmpty(log, gone, c, s) ==
    c.marker[s] >= 0 /\ ~Known(c.rows[s]) => s \in gone \/ Said(log, c.marker[s], s) = Null

Tracks(log, gone, c, m, s) ==
    /\ c.last[s] > c.at => c.marker[s] >= c.last[s]
    /\ MarkedEmpty(log, gone, c, s)
    /\ Ends(log, c.at, s) \/ Followed(log, c, m, s)

\* Value is what a badge of s shows at some sequence from floor onwards.
Timely(log, value, floor, s) ==
    \E n \in 0 .. Len(log) : n >= floor /\ Shows(value) = Shows(Said(log, n, s))

\* Before it has a stream, a page has what the list that it read said.
FloorOf(c, r) == IF c.at = -1 THEN r ELSE c.at

RightRow(log, c, r, s) == Ends(log, c.at, s) \/ Timely(log, c.rows[s], FloorOf(c, r), s)

\* The daemon has deleted what its log says it has, and asks nothing for it.
Quiet(d) ==
    /\ \A s \in Sessions : d.phase[s] = "gone" => d.open[s] = {}
    /\ \A i \in 1 .. Len(d.log[d.epoch]) :
          d.log[d.epoch][i].kind = "deleted" => d.phase[d.log[d.epoch][i].session] = "gone"

\* An alert is for a session that is not forgotten and whose row needs input, unless
\* its row went from under it (u).
Alerted(c, u) ==
    /\ c.tombstones \subseteq Gone
    /\ c.raised \cap c.tombstones \subseteq u
    /\ \A s \in c.raised \ u : Needing(c.rows[s])

\* Of a page at this lifetime: an answer on its way covers the miss, another will
\* be asked for, or the miss lapsed.
Owed(c, f, m, r, l) ==
    /\ m <= LogHead /\ r <= LogHead
    /\ c.at = -1 => m = 0
    /\ f.step = "answered" =>
          /\ f.answer.epoch = c.epoch /\ r <= f.answer.sequence
          /\ l \/ f.again \/ f.answer.sequence >= m
    /\ r < m => l \/ f.step # "idle"

Fetching(c, f, m, r, l) ==
    /\ m \in Nat /\ r \in Int /\ l \in BOOLEAN
    /\ c.epoch = 0 => f = NoFetch /\ r = -1 /\ m = 0
    /\ f.step = "idle" => f = NoFetch
    /\ c.epoch = daemon.epoch => Owed(c, f, m, r, l)

Tracked(c, m) ==
    c.epoch = daemon.epoch =>
        \A s \in Sessions \ c.tombstones : Tracks(Log, Gone, c, m, s)

Righted(c, m, r) ==
    c.epoch = daemon.epoch /\ r >= m =>
        \A s \in Sessions \ c.tombstones : RightRow(Log, c, r, s)

KInv ==
    /\ IInv
    /\ Quiet(daemon)
    /\ Alerted(page, unseated)
    /\ list.answer.gone \subseteq Gone
    /\ Fetching(page, fetch, missed, read, lapsed)
    /\ Tracked(page, missed)
    /\ Righted(page, missed, read)

\* A summary is that of nothing or needs input, and the rows that are no summaries
\* show nothing.
LEMMA SummaryShows ==
    /\ \A v \in Summaries : Known(v) /\ Shows(v) = v /\ (Needing(v) \/ v = Null)
    /\ ~Needing(Null) /\ ~Needing(NoRow) /\ ~Needing(Unknown)
    /\ Null # NoRow /\ Null # Unknown
    /\ Shows(Null) = Null /\ Shows(NoRow) = Null /\ Shows(Unknown) = Null
<1>1. ASSUME NEW q \in SUBSET Requests
      PROVE  /\ Pending(q).count \in Nat
             /\ Pending(q).count > 0 \/ Pending(q) = Null
  <2>1. IsFiniteSet(Requests)
    BY InputAssumption, FS_Interval DEF Requests
  <2>2. IsFiniteSet(q)
    BY <2>1, FS_Subset
  <2>3. Cardinality(q) \in Nat /\ (Cardinality(q) = 0 => q = {})
    BY <2>2, FS_CardinalityType, FS_EmptySet
  <2>4. Pending(q).count = Cardinality(q)
    BY DEF Pending
  <2>5. q = {} => Pending(q) = Null
    BY NothingPending
  <2> QED BY <2>3, <2>4, <2>5
<1>2. \A v \in Summaries : v.count \in Nat /\ (v.count > 0 \/ v = Null)
  BY <1>1 DEF Summaries
<1>3. Null.count = 0 /\ NoRow.count = -2 /\ Unknown.count = -1
  BY DEF Null, NoRow, Unknown
<1>4. ~Needing(Null) /\ ~Needing(NoRow) /\ ~Needing(Unknown)
  BY <1>3 DEF Needing
<1> QED BY <1>2, <1>3, <1>4 DEF Known, Shows, Needing

LEMMA PageNow ==
    ASSUME IInv, NEW c, Fit(c, daemon), c.epoch = daemon.epoch
    PROVE  /\ c \in Pages /\ c.epoch # 0 /\ c.at \in -1 .. LogHead
           /\ \A s \in Sessions : c.marker[s] \in -1 .. LogHead /\ c.last[s] \in -1 .. LogHead
           /\ LogHead \in Nat /\ Log \in Seq(Events) /\ daemon.log[c.epoch] = Log
<1>1. daemon \in Daemons /\ daemon.epoch \in Nat \ {0} /\ daemon.epoch \in 0 .. daemon.epoch
  BY InputAssumption DEF IInv, Daemons, Epochs
<1>2. EndOf(daemon, c.epoch) = LogHead /\ EndOf(daemon, c.epoch) \in Nat
  BY <1>1, EndBounds DEF LogHead, Log
<1>3. Log \in Seq(Events)
  BY <1>1 DEF Daemons, Log
<1> QED BY <1>1, <1>2, <1>3 DEF Fit, Behind, Log

\* The index of a deleted session is empty, and the log ends with it.
LEMMA GoneSaysNothing ==
    ASSUME IInv, Quiet(daemon), NEW s \in Gone
    PROVE  Said(Log, LogHead, s) = Null
<1>1. s \in Sessions /\ daemon.open[s] = {}
  BY DEF Quiet, Gone
<1> QED BY <1>1, NothingPending DEF IInv, IndexIsLogged, Log, LogHead

\* What the log says of s does not change while no event is about s.
LEMMA SaidSince ==
    ASSUME NEW log, NEW c, NEW m \in Nat, NEW s, Followed(log, c, m, s),
           c.at \in Nat, NEW a \in Nat, c.marker[s] \in Int,
           a >= m, a >= c.marker[s], a <= c.at
    PROVE  Said(log, c.at, s) = Said(log, a, s)
<1>1. \A i \in a + 1 .. c.at : log[i].session # s
  BY DEF Followed
<1> QED BY <1>1, SaidSkips

\* A row that is marked from the floor on, or from the miss on, is right.
LEMMA MarkedIsRight ==
    ASSUME IInv, Quiet(daemon), NEW c, Fit(c, daemon), c.epoch = daemon.epoch,
           NEW s \in Sessions, NEW m \in Nat, NEW r \in Int, r <= LogHead,
           Tracks(Log, Gone, c, m, s), c.marker[s] >= 0,
           c.marker[s] >= FloorOf(c, r) \/ (c.at # -1 /\ c.marker[s] >= m)
    PROVE  RightRow(Log, c, r, s)
<1>1. /\ c.at \in -1 .. LogHead /\ c.marker[s] \in 0 .. LogHead /\ LogHead \in Nat
      /\ LogHead = Len(Log) /\ daemon.log[c.epoch] = Log /\ c \in Pages
  BY PageNow DEF LogHead
<1> DEFINE k == c.marker[s]
<1>2. CASE s \in Gone /\ ~Known(c.rows[s])
  <2>1. Said(Log, LogHead, s) = Null
    BY <1>2, GoneSaysNothing
  <2>2. Shows(c.rows[s]) = Null
    <3>1. c.rows[s] \in Rows
      BY <1>1 DEF Pages
    <3> QED BY <1>2, <3>1, SummaryShows DEF Rows
  <2>3. LogHead \in 0 .. Len(Log) /\ LogHead >= FloorOf(c, r)
    BY <1>1 DEF FloorOf
  <2> QED BY <2>1, <2>2, <2>3, SummaryShows DEF RightRow, Timely
<1>3. CASE ~(s \in Gone /\ ~Known(c.rows[s]))
  <2>1. Shows(c.rows[s]) = Shows(Said(Log, k, s))
    <3>1. CASE Known(c.rows[s])
      BY <1>1, <3>1 DEF Fit, RowsAreAsOf
    <3>2. CASE ~Known(c.rows[s])
      <4>1. Said(Log, k, s) = Null
        BY <1>1, <1>3, <3>2 DEF Tracks, MarkedEmpty
      <4>2. c.rows[s] \in Rows
        BY <1>1 DEF Pages
      <4> QED BY <3>2, <4>1, <4>2, SummaryShows DEF Rows
    <3> QED BY <3>1, <3>2
  <2>2. CASE k >= FloorOf(c, r)
    BY <1>1, <2>1, <2>2 DEF RightRow, Timely
  <2>3. CASE k < FloorOf(c, r)
    <3>1. c.at \in Nat /\ k >= m /\ k <= c.at /\ FloorOf(c, r) = c.at
      BY <1>1, <2>3 DEF FloorOf
    <3>2. CASE Followed(Log, c, m, s)
      <4>1. Said(Log, c.at, s) = Said(Log, k, s)
        BY <1>1, <3>1, <3>2, SaidSince
      <4>2. c.at \in 0 .. Len(Log)
        BY <1>1, <3>1
      <4> QED BY <2>1, <3>1, <4>1, <4>2 DEF RightRow, Timely
    <3>3. CASE Ends(Log, c.at, s)
      BY <3>3 DEF RightRow
    <3> QED BY <3>2, <3>3 DEF Tracks
  <2>4. k \in Int /\ FloorOf(c, r) \in Int
    BY <1>1 DEF FloorOf
  <2> QED BY <2>2, <2>3, <2>4
<1> QED BY <1>2, <1>3

-----------------------------------------------------------------------------
(* The daemon's steps.                                                     *)

\* A logged event is about a session.
LEMMA Logged ==
    ASSUME NEW log \in Seq(Events)
    PROVE  \A i \in 1 .. Len(log) : log[i] \in Events /\ log[i].session \in Sessions
<1>1. \A i \in 1 .. Len(log) : log[i] \in Events
  OBVIOUS
<1> QED BY <1>1 DEF Events

LEMMA PublishesQuietly ==
    ASSUME IInv, Quiet(daemon), NEW d \in Daemons, NEW events \in Seq(Events),
           d.epoch = daemon.epoch, d.log = daemon.log,
           \A t \in Gone : d.phase[t] = "gone",
           \A t \in Sessions : d.phase[t] = "gone" => d.open[t] = {},
           \A i \in 1 .. Len(events) :
              events[i].kind = "deleted" => d.phase[events[i].session] = "gone"
    PROVE  Quiet(Publish(d, events)) /\ \A t \in Gone : Publish(d, events).phase[t] = "gone"
<1> DEFINE e == Publish(d, events)
           log == daemon.log[daemon.epoch]
<1>1. daemon.epoch \in Epochs /\ log \in Seq(Events) /\ d.log \in [Epochs -> Seq(Events)]
  BY DEF IInv, Daemons
<1>2. /\ e.epoch = daemon.epoch /\ e.open = d.open /\ e.phase = d.phase
      /\ e.log[daemon.epoch] = log \o events
  BY <1>1 DEF Publish, Daemons
<1> DEFINE whole == log \o events
<1>3. \A i \in 1 .. Len(whole) :
         \/ i \in 1 .. Len(log) /\ whole[i] = log[i]
         \/ i - Len(log) \in 1 .. Len(events) /\ whole[i] = events[i - Len(log)]
  BY <1>1
<1>4. \A i \in 1 .. Len(log) : log[i].session \in Sessions
  BY <1>1, Logged
<1>5. e.log[e.epoch] = whole
  BY <1>2
<1> HIDE DEF e, whole
<1>6. ASSUME NEW i \in 1 .. Len(whole), whole[i].kind = "deleted"
      PROVE  e.phase[whole[i].session] = "gone"
  <2>1. CASE i \in 1 .. Len(log) /\ whole[i] = log[i]
    <3>1. daemon.phase[log[i].session] = "gone"
      BY <1>6, <2>1 DEF Quiet
    <3> QED BY <1>2, <1>4, <2>1, <3>1 DEF Gone
  <2>2. CASE i - Len(log) \in 1 .. Len(events) /\ whole[i] = events[i - Len(log)]
    BY <1>2, <1>6, <2>2
  <2> QED BY <1>3, <2>1, <2>2
<1>7. Quiet(e)
  BY <1>2, <1>5, <1>6 DEF Quiet
<1> QED BY <1>2, <1>7 DEF e

LEMMA ChangesQuietly ==
    ASSUME IInv, Quiet(daemon), NEW s \in Sessions \ Gone, NEW q \in SUBSET Requests
    PROVE  Quiet(Change(s, q)) /\ \A t \in Gone : Change(s, q).phase[t] = "gone"
<1> DEFINE d == [daemon EXCEPT !.open[s] = q]
           event == Input(s, Pending(q))
<1>1. /\ d \in Daemons /\ d.epoch = daemon.epoch /\ d.log = daemon.log
      /\ d.phase = daemon.phase
      /\ \A t \in Sessions \ {s} : d.open[t] = daemon.open[t]
  BY DEF IInv, Daemons
<1>2. event \in Events /\ event.kind = "input"
  BY EventsTyped DEF Input
<1>3. Change(s, q) = IF Pending(q) = Index(s) THEN d ELSE Publish(d, <<event>>)
  BY DEF Change
<1> HIDE DEF d, event
<1>4. /\ \A t \in Gone : d.phase[t] = "gone"
      /\ \A t \in Sessions : d.phase[t] = "gone" => d.open[t] = {}
  BY <1>1 DEF Quiet, Gone
<1> DEFINE one == <<event>>
           none == <<>>
<1>5. /\ one \in Seq(Events) /\ \A i \in 1 .. Len(one) : one[i].kind # "deleted"
      /\ none \in Seq(Events) /\ \A i \in 1 .. Len(none) : none[i].kind # "deleted"
  BY <1>2
<1>6. none = <<>> /\ one = <<event>>
  OBVIOUS
<1> HIDE DEF one, none
<1>7. /\ Quiet(Publish(d, one)) /\ \A t \in Gone : Publish(d, one).phase[t] = "gone"
      /\ Quiet(Publish(d, none)) /\ \A t \in Gone : Publish(d, none).phase[t] = "gone"
  BY <1>1, <1>4, <1>5, PublishesQuietly
<1> QED BY <1>1, <1>3, <1>6, <1>7, PublishNothing

LEMMA CancelsQuietly ==
    ASSUME IInv, Quiet(daemon), NEW s \in Sessions
    PROVE  Quiet(Cancelled(s)) /\ Cancelled(s).phase = daemon.phase
<1> DEFINE open == daemon.open[s]
           After(i) == {r \in open : Cardinality({q \in open : q <= r}) > i}
           n == Cardinality(open)
           events == [i \in 1 .. n |-> Input(s, Pending(After(i)))]
           d == [daemon EXCEPT !.open[s] = {}]
<1>1. Cancelled(s) = Publish(d, events)
  BY DEF Cancelled
<1>2. /\ d \in Daemons /\ d.epoch = daemon.epoch /\ d.log = daemon.log
      /\ d.phase = daemon.phase /\ d.open[s] = {}
      /\ \A t \in Sessions \ {s} : d.open[t] = daemon.open[t]
  BY DEF IInv, Daemons
<1>3. open \in SUBSET Requests
  BY DEF IInv, Daemons
<1>4. n \in Nat
  <2>1. IsFiniteSet(Requests)
    BY InputAssumption, FS_Interval DEF Requests
  <2> QED BY <1>3, <2>1, FS_Subset, FS_CardinalityType
<1>5. \A i \in 1 .. n : After(i) \in SUBSET Requests
  BY <1>3
<1> HIDE DEF After, n
<1>6. \A i \in 1 .. n : Input(s, Pending(After(i))) \in Events
  BY <1>5, EventsTyped
<1>7. events \in Seq(Events) /\ Len(events) = n
  BY <1>4, <1>6
<1>8. \A i \in 1 .. n : events[i].kind # "deleted"
  BY DEF Input
<1> HIDE DEF events, d, open
<1>9. /\ \A t \in Gone : d.phase[t] = "gone"
      /\ \A t \in Sessions : d.phase[t] = "gone" => d.open[t] = {}
  BY <1>2 DEF Quiet, Gone
<1>10. Quiet(Publish(d, events))
  BY <1>2, <1>7, <1>8, <1>9, PublishesQuietly
<1> QED BY <1>1, <1>2, <1>10 DEF Publish, Daemons

\* A deleted session has no dialog, so only a live one publishes.
LEMMA DaemonIsQuiet ==
    ASSUME IInv, Quiet(daemon), NEW s \in Sessions,
           OpenRequest(s) \/ Settle(s) \/ Reload(s) \/ BeginClose(s) \/ EndClose(s)
    PROVE  Quiet(daemon') /\ Gone \subseteq Gone'
<1> SUFFICES Quiet(daemon') /\ \A t \in Gone : daemon'.phase[t] = "gone"
  BY DEF Gone
<1>0. daemon \in Daemons
  BY DEF IInv
<1>1. CASE OpenRequest(s)
  <2>1. PICK r \in Requests :
           daemon' = [Change(s, daemon.open[s] \cup {r}) EXCEPT !.left = @ - 1]
    BY <1>1 DEF OpenRequest
  <2> DEFINE q == daemon.open[s] \cup {r}
             e == Change(s, q)
  <2>2. q \in SUBSET Requests /\ s \in Sessions \ Gone
    BY <1>0, <1>1 DEF OpenRequest, Daemons
  <2>3. e \in Daemons
    BY <2>2, Changes DEF Follows
  <2>4. Quiet(e) /\ \A t \in Gone : e.phase[t] = "gone"
    BY <2>2, ChangesQuietly
  <2>5. daemon' = [e EXCEPT !.left = @ - 1]
    BY <2>1
  <2> HIDE DEF e
  <2>6. /\ daemon'.epoch = e.epoch /\ daemon'.log = e.log /\ daemon'.open = e.open
        /\ daemon'.phase = e.phase
    BY <2>3, <2>5 DEF Daemons
  <2> QED BY <2>4, <2>6 DEF Quiet
<1>2. CASE Settle(s)
  <2>1. PICK r \in daemon.open[s] : daemon' = Change(s, daemon.open[s] \ {r})
    BY <1>2 DEF Settle
  <2>2. daemon.open[s] \ {r} \in SUBSET Requests /\ s \in Sessions \ Gone
    BY <1>0, <2>1 DEF Quiet, Gone, Daemons
  <2> QED BY <2>1, <2>2, ChangesQuietly
<1>3. CASE Reload(s)
  BY <1>3, CancelsQuietly DEF Reload, Gone
<1>4. CASE BeginClose(s)
  <2> DEFINE e == Cancelled(s)
  <2>1. /\ e \in Daemons /\ Quiet(e) /\ e.phase = daemon.phase
        /\ daemon' = [e EXCEPT !.phase[s] = "closing"] /\ daemon.phase[s] = "live"
    BY <1>4, Cancels, CancelsQuietly DEF BeginClose, Follows
  <2> HIDE DEF e
  <2>2. /\ daemon'.epoch = e.epoch /\ daemon'.log = e.log /\ daemon'.open = e.open
        /\ daemon'.phase = [daemon.phase EXCEPT ![s] = "closing"]
    BY <2>1 DEF Daemons
  <2>3. \A t \in Sessions : daemon'.phase[t] = "gone" <=> e.phase[t] = "gone"
    BY <1>0, <2>1, <2>2 DEF Daemons
  <2>4. \A i \in 1 .. Len(e.log[e.epoch]) : e.log[e.epoch][i].session \in Sessions
    <3>1. e.log[e.epoch] \in Seq(Events)
      BY <2>1 DEF Daemons
    <3> QED BY <3>1, Logged
  <2>5. Quiet(daemon')
    BY <2>1, <2>2, <2>3, <2>4 DEF Quiet
  <2> QED BY <2>1, <2>3, <2>5 DEF Gone
<1>5. CASE EndClose(s)
  <2>1. CASE daemon' = [daemon EXCEPT !.phase[s] = "live"]
    <3>1. /\ daemon'.epoch = daemon.epoch /\ daemon'.log = daemon.log
          /\ daemon'.open = daemon.open
          /\ daemon'.phase = [daemon.phase EXCEPT ![s] = "live"] /\ daemon.phase[s] = "closing"
      BY <1>0, <1>5, <2>1 DEF EndClose, Daemons
    <3>2. \A t \in Sessions : daemon'.phase[t] = "gone" <=> daemon.phase[t] = "gone"
      BY <1>0, <3>1 DEF Daemons
    <3>3. \A i \in 1 .. Len(daemon.log[daemon.epoch]) :
             daemon.log[daemon.epoch][i].session \in Sessions
      <4>1. daemon.log[daemon.epoch] \in Seq(Events)
        BY <1>0 DEF Daemons
      <4> QED BY <4>1, Logged
    <3>4. Quiet(daemon')
      BY <3>1, <3>2, <3>3 DEF Quiet
    <3> QED BY <3>2, <3>4 DEF Gone
  <2>2. CASE daemon' = Publish([daemon EXCEPT !.phase[s] = "gone", !.open[s] = {}],
                               <<Deleted(s)>>)
    <3> DEFINE d == [daemon EXCEPT !.phase[s] = "gone", !.open[s] = {}]
               events == <<Deleted(s)>>
    <3>1. /\ d \in Daemons /\ d.epoch = daemon.epoch /\ d.log = daemon.log
          /\ d.open[s] = {} /\ d.phase[s] = "gone"
          /\ \A t \in Sessions \ {s} : d.open[t] = daemon.open[t] /\ d.phase[t] = daemon.phase[t]
      BY <1>0 DEF Daemons
    <3>2. events \in Seq(Events) /\ \A i \in 1 .. Len(events) : events[i].session = s
      BY EventsTyped DEF Deleted
    <3>3. daemon' = Publish(d, events)
      BY <2>2
    <3> HIDE DEF d, events
    <3>4. /\ \A t \in Gone : d.phase[t] = "gone"
          /\ \A t \in Sessions : d.phase[t] = "gone" => d.open[t] = {}
      BY <3>1 DEF Quiet, Gone
    <3> QED BY <3>1, <3>2, <3>3, <3>4, PublishesQuietly
  <2> QED BY <1>5, <2>1, <2>2 DEF EndClose
<1> QED BY <1>1, <1>2, <1>3, <1>4, <1>5

\* Every part of the invariant speaks of a prefix of the log.
LEMMA DaemonKeepsAll ==
    ASSUME KInv, NEW s \in Sessions,
           OpenRequest(s) \/ Settle(s) \/ Reload(s) \/ BeginClose(s) \/ EndClose(s)
    PROVE  KInv'
<1>1. UNCHANGED <<page, fetch, list, missed, read, lapsed, unseated>>
  BY DEF OpenRequest, Settle, Reload, BeginClose, EndClose, PageSide
<1>2. IInv' /\ Quiet(daemon') /\ Gone \subseteq Gone' /\ Follows(daemon')
  BY DaemonKeeps, DaemonIsQuiet, DaemonFollows DEF KInv
<1>3. /\ daemon'.epoch = daemon.epoch /\ LogHead \in Nat /\ LogHead' \in Nat
      /\ LogHead <= LogHead' /\ LogHead = Len(Log) /\ LogHead' = Len(Log')
      /\ \A i \in 1 .. LogHead : Log'[i] = Log[i]
  <2>1. daemon.epoch \in 1 .. daemon.epoch /\ daemon'.epoch = daemon.epoch
    BY <1>2, GrowsFacts DEF Follows, KInv, IInv, Daemons, Epochs
  <2>2. Log \in Seq(Events) /\ Log' \in Seq(Events)
    BY <1>2, <2>1, GrowsFacts DEF Follows, Log
  <2> QED BY <1>2, <2>1, <2>2 DEF Follows, Grows, Log, LogHead
<1>4. Alerted(page, unseated)' /\ (list.answer.gone \subseteq Gone)'
  BY <1>1, <1>2 DEF KInv, Alerted
<1>5. ASSUME page.epoch = daemon.epoch
      PROVE  /\ page \in Pages /\ page.at \in -1 .. LogHead
             /\ \A t \in Sessions : page.marker[t] \in -1 .. LogHead
  BY <1>5, PageNow DEF KInv, IInv
<1>6. Fetching(page, fetch, missed, read, lapsed)'
  <2>1. Fetching(page, fetch, missed, read, lapsed)
    BY DEF KInv
  <2>2. page.epoch = daemon.epoch => Owed(page, fetch, missed, read, lapsed)'
    BY <1>1, <1>3, <2>1 DEF Fetching, Owed
  <2>3. (NoFetch = NoFetch') /\ (page.epoch = daemon.epoch)' = (page.epoch = daemon.epoch)
    BY <1>1, <1>3 DEF NoFetch, NoAnswer, Null
  <2> QED BY <1>1, <2>1, <2>2, <2>3 DEF Fetching
<1>7. ASSUME page.epoch = daemon.epoch, NEW t \in Sessions, Ends(Log, page.at, t)
      PROVE  Ends(Log', page.at, t)
  BY <1>3, <1>5, <1>7 DEF Ends
<1>8. \A t \in Sessions, n \in 0 .. LogHead : Said(Log', n, t) = Said(Log, n, t)
  BY <1>3, SaidSame
<1>9. Tracked(page, missed)'
  <2> SUFFICES ASSUME page.epoch = daemon.epoch, NEW t \in Sessions \ page.tombstones
               PROVE  Tracks(Log', Gone', page, missed, t)
    BY <1>1, <1>3 DEF Tracked
  <2>1. Tracks(Log, Gone, page, missed, t) /\ missed \in Nat
    BY DEF KInv, Tracked, Fetching
  <2>2. MarkedEmpty(Log', Gone', page, t)
    BY <1>2, <1>5, <1>8, <2>1 DEF Tracks, MarkedEmpty
  <2>3. Followed(Log, page, missed, t) => Followed(Log', page, missed, t)
    BY <1>3, <1>5, <2>1 DEF Followed
  <2> QED BY <1>7, <2>1, <2>2, <2>3 DEF Tracks
<1>10. Righted(page, missed, read)'
  <2> SUFFICES ASSUME page.epoch = daemon.epoch, read >= missed,
                      NEW t \in Sessions \ page.tombstones
               PROVE  RightRow(Log', page, read, t)
    BY <1>1, <1>3 DEF Righted
  <2>1. RightRow(Log, page, read, t)
    BY DEF KInv, Righted
  <2>2. CASE Ends(Log, page.at, t)
    BY <1>7, <2>2 DEF RightRow
  <2>3. CASE Timely(Log, page.rows[t], FloorOf(page, read), t)
    <3>1. PICK n \in 0 .. LogHead :
             n >= FloorOf(page, read) /\ Shows(page.rows[t]) = Shows(Said(Log, n, t))
      BY <1>3, <2>3 DEF Timely
    <3>2. n \in 0 .. Len(Log') /\ Shows(page.rows[t]) = Shows(Said(Log', n, t))
      BY <1>3, <1>8, <3>1
    <3> QED BY <3>1, <3>2 DEF RightRow, Timely
  <2> QED BY <2>1, <2>2, <2>3 DEF RightRow
<1> QED BY <1>1, <1>2, <1>4, <1>6, <1>9, <1>10 DEF KInv

-----------------------------------------------------------------------------
(* The handlers of the page, by the fields that the invariant speaks of.   *)

SameRows(e, c) ==
    /\ e.epoch = c.epoch /\ e.at = c.at /\ e.rows = c.rows /\ e.marker = c.marker
    /\ e.last = c.last /\ e.tombstones = c.tombstones

LEMMA ReconciledIs ==
    ASSUME NEW c \in Pages
    PROVE  SameRows(Reconciled(c), c) /\ Reconciled(c).raised \subseteq c.raised
BY DEF Reconciled, SameRows, Pages

\* The badge of a raised session that went to nothing changed what needs input.
LEMMA ReconciledAlerts ==
    ASSUME NEW c \in Pages, NEW u, c.tombstones \subseteq Gone,
           c.raised \cap c.tombstones \subseteq u,
           \A s \in c.raised \ u :
              Needing(c.rows[s]) \/ (c.rows[s] = Null /\ Needing(page.rows[s]))
    PROVE  Alerted(Reconciled(c), u)
<1> DEFINE NeedingRows(rows) == {<<s, rows[s]>> : s \in {t \in Sessions : Needing(rows[t])}}
<1>1. SameRows(Reconciled(c), c) /\ Reconciled(c).raised \subseteq c.raised
  BY ReconciledIs
<1>2. Reconciled(c) = IF NeedingRows(c.rows) = NeedingRows(page.rows) THEN c
                      ELSE [c EXCEPT !.raised = {s \in @ : c.rows[s] # Null}]
  BY DEF Reconciled
<1>3. ASSUME NEW s \in Reconciled(c).raised \ u
      PROVE  Needing(c.rows[s])
  <2>1. s \in Sessions /\ s \in c.raised \ u
    BY <1>1 DEF Pages
  <2>2. CASE NeedingRows(c.rows) = NeedingRows(page.rows)
    <3>1. ASSUME c.rows[s] = Null, Needing(page.rows[s])
          PROVE  FALSE
      <4>1. <<s, page.rows[s]>> \in NeedingRows(c.rows)
        BY <2>1, <2>2, <3>1
      <4>2. PICK t \in Sessions : Needing(c.rows[t]) /\ <<s, page.rows[s]>> = <<t, c.rows[t]>>
        BY <4>1
      <4> QED BY <3>1, <4>2, SummaryShows
    <3> QED BY <2>1, <3>1
  <2>3. CASE NeedingRows(c.rows) # NeedingRows(page.rows)
    <3>1. Reconciled(c).raised = {t \in c.raised : c.rows[t] # Null}
      BY <1>2, <2>3 DEF Pages
    <3> QED BY <2>1, <3>1
  <2> QED BY <2>2, <2>3
<1> QED BY <1>1, <1>3 DEF Alerted, SameRows

\* A step of the page.
LEMMA PageMovesAll ==
    ASSUME KInv, IInv', UNCHANGED daemon, Alerted(page', unseated'), list'.answer.gone \subseteq Gone,
           Fetching(page', fetch', missed', read', lapsed'),
           Tracked(page', missed'), Righted(page', missed', read')
    PROVE  KInv'
<1>1. Gone' = Gone /\ Log' = Log /\ LogHead' = LogHead
  BY DEF Gone, Log, LogHead
<1>2. Quiet(daemon)' /\ (list.answer.gone \subseteq Gone)' /\ Alerted(page, unseated)'
  BY <1>1 DEF KInv, Alerted, Quiet
<1>3. Fetching(page, fetch, missed, read, lapsed)'
  <2>1. NoFetch' = NoFetch
    BY DEF NoFetch, NoAnswer, Null
  <2> QED BY <1>1, <2>1 DEF Fetching, Owed
<1>4. Tracked(page, missed)'
  BY <1>1 DEF Tracked
<1>5. Righted(page, missed, read)'
  BY <1>1 DEF Righted
<1> QED BY <1>2, <1>3, <1>4, <1>5 DEF KInv

\* An event is applied to the row of its session, or refused.
Applied(e, c, s, n, value) ==
    /\ e \in Pages /\ e.epoch = c.epoch /\ e.at = c.at /\ e.last = c.last
    /\ e.tombstones = c.tombstones
    /\ \A t \in Sessions \ {s} : e.rows[t] = c.rows[t] /\ e.marker[t] = c.marker[t]
    /\ \/ /\ e.marker[s] = n /\ n >= c.marker[s]
          /\ e.rows[s] = value \/ (e.rows[s] = NoRow /\ value = Null)
       \/ c.marker[s] > n /\ e.rows[s] = c.rows[s] /\ e.marker[s] = c.marker[s]
    /\ \A t \in e.raised :
          Needing(e.rows[t]) \/ (t \in c.raised /\ (~Needing(c.rows[t]) \/ e.rows[t] = c.rows[t]))
    /\ e.raised \subseteq c.raised \cup {s}

LEMMA InputIs ==
    ASSUME NEW c \in Pages, NEW s \in Sessions, NEW n \in Int, NEW value \in Summaries,
           NEW alert \in BOOLEAN
    PROVE  Applied(ApplyInput(c, s, n, value, alert), c, s, n, value)
<1> DEFINE d == [c EXCEPT !.marker[s] = n, !.rows = Observe(c.rows, s, value)]
           e == ApplyInput(c, s, n, value, alert)
<1>1. CASE ~Accepts(c, s, n)
  <2>1. e = c
    BY <1>1 DEF ApplyInput
  <2>2. c.marker[s] > n
    BY <1>1 DEF Accepts, Pages
  <2> QED BY <2>1, <2>2 DEF Applied
<1>2. CASE Accepts(c, s, n)
  <2>1. /\ d \in Pages /\ d.epoch = c.epoch /\ d.at = c.at /\ d.last = c.last
        /\ d.tombstones = c.tombstones /\ d.raised = c.raised /\ d.opened = c.opened
        /\ d.marker = [c.marker EXCEPT ![s] = n] /\ d.rows = Observe(c.rows, s, value)
    <3>1. Observe(c.rows, s, value) \in [Sessions -> Rows]
      BY DEF Pages, Observe, Rows
    <3>2. [c.marker EXCEPT ![s] = n] \in [Sessions -> Int]
      BY DEF Pages
    <3> QED BY <3>1, <3>2 DEF Pages
  <2>2. /\ \A t \in Sessions \ {s} : d.rows[t] = c.rows[t] /\ d.marker[t] = c.marker[t]
        /\ d.marker[s] = n /\ n >= c.marker[s]
        /\ d.rows[s] = value \/ (d.rows[s] = NoRow /\ value = Null)
    BY <1>2, <2>1 DEF Observe, Pages, Accepts
  <2>3. e = IF Needing(value) /\ ~Needing(c.rows[s]) THEN Opened(d, s, alert)
            ELSE IF value = Null /\ (Needing(c.rows[s]) \/ c.rows[s] = NoRow)
                 THEN Cleared(d, {s})
            ELSE d
    BY <1>2 DEF ApplyInput
  <2> HIDE DEF d, e
  <2>4. /\ e \in Pages /\ SameRows(e, d)
        /\ \/ Needing(value) /\ e.raised \subseteq c.raised \cup {s}
           \/ ~Needing(value) /\ Needing(c.rows[s]) /\ e.raised \subseteq c.raised \ {s}
           \/ ~Needing(c.rows[s]) /\ e.raised \subseteq c.raised
    <3>1. CASE e = Opened(d, s, alert) /\ Needing(value)
      BY <2>1, <3>1 DEF Opened, SameRows, Pages
    <3>2. CASE e = Cleared(d, {s}) /\ value = Null
      BY <2>1, <3>2, SummaryShows DEF Cleared, SameRows, Pages
    <3>3. CASE e = d /\ (Needing(value) \/ ~Needing(c.rows[s]))
      BY <2>1, <3>3 DEF SameRows
    <3> QED BY <2>3, <3>1, <3>2, <3>3, SummaryShows
  <2>5. Needing(value) => d.rows[s] = value
    BY <2>2, SummaryShows
  <2>6. ASSUME NEW t \in e.raised
        PROVE  \/ Needing(e.rows[t])
               \/ t \in c.raised /\ (~Needing(c.rows[t]) \/ e.rows[t] = c.rows[t])
    <3>1. t \in Sessions
      BY <2>4 DEF Pages
    <3> QED BY <2>2, <2>4, <2>5, <3>1 DEF SameRows
  <2> QED BY <2>1, <2>2, <2>4, <2>6 DEF Applied, SameRows, e
<1> QED BY <1>1, <1>2

\* A session is forgotten for good.
Removed(e, c, s) ==
    /\ e \in Pages /\ e.epoch = c.epoch /\ e.at = c.at /\ e.last = c.last
    /\ e.tombstones = c.tombstones \cup {s} /\ e.raised \subseteq c.raised
    /\ s \in e.raised => ~Needing(c.rows[s])
    /\ \A t \in Sessions \ {s} : e.rows[t] = c.rows[t] /\ e.marker[t] = c.marker[t]

LEMMA DeletionIs ==
    ASSUME NEW c \in Pages, NEW s \in Sessions
    PROVE  Removed(CommitDeletion(c, s), c, s)
<1> DEFINE d == [c EXCEPT !.tombstones = @ \cup {s}, !.rows[s] = NoRow, !.marker[s] = -1]
<1>1. /\ d \in Pages /\ d.epoch = c.epoch /\ d.at = c.at /\ d.last = c.last
      /\ d.tombstones = c.tombstones \cup {s} /\ d.raised = c.raised
      /\ d.rows = [c.rows EXCEPT ![s] = NoRow] /\ d.marker = [c.marker EXCEPT ![s] = -1]
  <2>1. [c.rows EXCEPT ![s] = NoRow] \in [Sessions -> Rows]
    BY KnownRows DEF Pages
  <2>2. [c.marker EXCEPT ![s] = -1] \in [Sessions -> Int]
    BY DEF Pages
  <2> QED BY <2>1, <2>2 DEF Pages
<1>2. CommitDeletion(c, s) = IF Needing(c.rows[s]) THEN Cleared(d, {s}) ELSE d
  BY DEF CommitDeletion
<1> HIDE DEF d
<1>3. ~Needing(c.rows[s]) => Removed(d, c, s)
  BY <1>1 DEF Removed, Pages
<1>4. Removed(Cleared(d, {s}), c, s)
  BY <1>1 DEF Cleared, Removed, Pages
<1> QED BY <1>2, <1>3, <1>4

-----------------------------------------------------------------------------
(* The page's steps.                                                       *)

\* An event about another session.
LEMMA PassesOver ==
    ASSUME NEW log \in Seq(Events), NEW gone, NEW c \in Pages, NEW e \in Pages,
           NEW m \in Nat, NEW r \in Int,
           c.at \in Nat, c.at < Len(log), e.at = c.at + 1,
           NEW t \in Sessions, log[c.at + 1].session # t,
           e.rows[t] = c.rows[t], e.marker[t] = c.marker[t], e.last[t] = c.last[t]
    PROVE  /\ Tracks(log, gone, c, m, t) => Tracks(log, gone, e, m, t)
           /\ RightRow(log, c, r, t) => RightRow(log, e, r, t)
<1> DEFINE n == c.at + 1
<1>1. c.last[t] \in Int /\ c.marker[t] \in Int /\ n \in Nat /\ Len(log) \in Nat
  BY DEF Pages
<1>2. Ends(log, c.at, t) => Ends(log, n, t)
  <2>1. Deleted(t).session = t
    BY DEF Deleted
  <2>2. ASSUME NEW i \in n .. Len(log), log[i] = Deleted(t)
        PROVE  i \in n + 1 .. Len(log)
    BY <1>1, <2>1, <2>2
  <2> QED BY <1>1, <2>2 DEF Ends
<1>3. Followed(log, c, m, t) => Followed(log, e, m, t)
  BY <1>1 DEF Followed
<1>4. Tracks(log, gone, c, m, t) => Tracks(log, gone, e, m, t)
  BY <1>1, <1>2, <1>3 DEF Tracks, MarkedEmpty
<1>5. ASSUME Timely(log, c.rows[t], c.at, t)
      PROVE  Timely(log, e.rows[t], n, t)
  <2>1. PICK k \in 0 .. Len(log) : k >= c.at /\ Shows(c.rows[t]) = Shows(Said(log, k, t))
    BY <1>5 DEF Timely
  <2>2. CASE k >= n
    BY <2>1, <2>2 DEF Timely
  <2>3. CASE k < n
    <3>1. k = c.at /\ \A i \in k + 1 .. n : log[i].session # t
      BY <1>1, <2>1, <2>3
    <3>2. Said(log, n, t) = Said(log, k, t)
      BY <1>1, <3>1, SaidSkips
    <3>3. n \in 0 .. Len(log) /\ n >= n
      BY <1>1
    <3> QED BY <2>1, <3>2, <3>3 DEF Timely
  <2> QED BY <1>1, <2>1, <2>2, <2>3
<1> QED BY <1>1, <1>2, <1>4, <1>5 DEF RightRow, FloorOf

LEMMA ReceiveKeepsAll ==
    ASSUME KInv, Receive
    PROVE  KInv'
<1> DEFINE n == page.at + 1
           e == Log[n]
           s == e.session
           c == [page EXCEPT !.at = n]
           d == [c EXCEPT !.last[s] = n]
           \* What becomes of the session that the event is about.
           Settled == \/ s \in page'.tombstones
                      \/ /\ Tracks(Log, Gone, page', missed, s)
                         /\ page'.marker[s] >= n \/ Ends(Log, n, s)
           Carried == /\ page'.epoch = page.epoch /\ page'.at = n
                      /\ page.tombstones \subseteq page'.tombstones
                      /\ \A t \in Sessions \ {s} :
                            /\ page'.rows[t] = page.rows[t] /\ page'.marker[t] = page.marker[t]
                            /\ page'.last[t] = page.last[t]
<1>1. IInv' /\ IInv /\ Quiet(daemon)
  BY ReceiveKeeps DEF KInv
<1>2. /\ page.attached /\ page.at < LogHead
      /\ UNCHANGED <<daemon, fetch, list, missed, read, lapsed, unseated>>
      /\ IF s \in page.tombstones \/ n <= page.last[s] THEN Becomes(c)
         ELSE IF e.kind = "deleted" THEN Becomes(CommitDeletion(d, s))
         ELSE \/ \E alert \in BOOLEAN : Becomes(ApplyInput(d, s, n, e.pending, alert))
              \/ (\E i \in n + 1 .. LogHead : Log[i] = Deleted(s)) /\ Becomes(c)
  BY DEF Receive, OtherThanPage
<1>3. Fit(page', daemon) /\ page' \in Pages
  BY <1>1, <1>2 DEF IInv, Fit
<1>4. /\ page \in Pages /\ page.epoch = daemon.epoch /\ page.at \in Nat
      /\ LogHead \in Nat /\ LogHead = Len(Log) /\ Log \in Seq(Events)
      /\ \A t \in Sessions : page.marker[t] \in Int /\ page.last[t] \in Int
  <2>1. page.epoch = daemon.epoch /\ page.at >= 0 /\ Fit(page, daemon)
    BY <1>1, <1>2 DEF IInv, Fit, Behind
  <2> QED BY <1>1, <2>1, PageNow DEF LogHead
<1>5. n \in 1 .. Len(Log) /\ n \in Nat \ {0} /\ e \in Events /\ s \in Sessions /\ e.pending \in Summaries
  <2>1. n \in 1 .. Len(Log) /\ n \in Nat \ {0}
    BY <1>2, <1>4
  <2>2. e \in Events
    BY <1>4, <2>1, Logged
  <2> QED BY <2>1, <2>2 DEF Events
<1>6. /\ missed \in Nat /\ read \in Int /\ read <= LogHead
      /\ Fetching(page, fetch, missed, read, lapsed) /\ Owed(page, fetch, missed, read, lapsed)
  BY <1>4 DEF KInv, Fetching, Owed
<1>7. e = Log[n] /\ s = e.session /\ n = page.at + 1
  OBVIOUS
<1>8. /\ c \in Pages /\ c.epoch = page.epoch /\ c.at = n /\ c.attached = page.attached
      /\ c.rows = page.rows /\ c.marker = page.marker /\ c.last = page.last
      /\ c.tombstones = page.tombstones /\ c.raised = page.raised
  <2>1. n \in Int
    BY <1>5
  <2> QED BY <1>4, <2>1 DEF Pages
<1> HIDE DEF e, s, c
<1>9. /\ d \in Pages /\ d.epoch = page.epoch /\ d.at = n
      /\ d.rows = page.rows /\ d.marker = page.marker /\ d.last = [page.last EXCEPT ![s] = n]
      /\ d.tombstones = page.tombstones /\ d.raised = page.raised
  <2>1. [c.last EXCEPT ![s] = n] \in [Sessions -> Int]
    BY <1>5, <1>8 DEF Pages
  <2> HIDE DEF n
  <2> QED BY <1>4, <1>8, <2>1 DEF Pages
<1> HIDE DEF d, n
<1>10. /\ page.tombstones \subseteq Gone /\ page.raised \cap page.tombstones \subseteq unseated
       /\ \A t \in page.raised \ unseated : Needing(page.rows[t])
       /\ unseated' = unseated
  BY <1>2 DEF KInv, Alerted
<1>11. s \notin page.tombstones => Tracks(Log, Gone, page, missed, s)
  BY <1>4, <1>5 DEF KInv, Tracked
<1>12. ASSUME page' = Reconciled(c),
              \/ s \in page.tombstones
              \/ n <= page.last[s]
              \/ \E i \in n + 1 .. LogHead : Log[i] = Deleted(s)
       PROVE  Carried /\ Settled /\ Alerted(page', unseated')
  <2>1. SameRows(page', c)
    BY <1>8, <1>12, ReconciledIs
  <2>2. Carried
    BY <1>8, <2>1 DEF SameRows
  <2>3. Alerted(page', unseated')
    <3>1. \A t \in c.raised \ unseated : Needing(c.rows[t])
      BY <1>8, <1>10
    <3> QED BY <1>8, <1>10, <1>12, <3>1, ReconciledAlerts
  <2>4. Settled
    <3>1. CASE s \notin page.tombstones /\ n <= page.last[s]
      <4>1. page.marker[s] >= page.last[s] /\ page.marker[s] >= n
        BY <1>4, <1>5, <1>7, <1>11, <3>1 DEF Tracks
      <4>2. MarkedEmpty(Log, Gone, page', s)
        BY <1>8, <1>11, <2>1, <3>1 DEF Tracks, MarkedEmpty, SameRows
      <4>3. Followed(Log, page', missed, s)
        BY <1>4, <1>5, <1>6, <1>8, <2>1, <4>1 DEF Followed, SameRows
      <4> QED BY <1>8, <2>1, <4>1, <4>2, <4>3 DEF Tracks, SameRows
    <3>2. CASE s \notin page.tombstones /\ \E i \in n + 1 .. LogHead : Log[i] = Deleted(s)
      <4>1. Ends(Log, n, s) /\ Ends(Log, page'.at, s)
        BY <1>4, <1>5, <1>8, <2>1, <3>2 DEF Ends, SameRows
      <4>2. page.last[s] > page'.at => page.marker[s] >= page.last[s]
        BY <1>4, <1>5, <1>7, <1>8, <1>11, <2>1, <3>2 DEF Tracks, SameRows
      <4>3. MarkedEmpty(Log, Gone, page', s)
        BY <1>8, <1>11, <2>1, <3>2 DEF Tracks, MarkedEmpty, SameRows
      <4> QED BY <1>8, <2>1, <4>1, <4>2, <4>3 DEF Tracks, SameRows
    <3> QED BY <1>12, <2>2, <3>1, <3>2
  <2> QED BY <2>2, <2>3, <2>4
<1>13. ASSUME page' = Reconciled(CommitDeletion(d, s)), e.kind = "deleted"
       PROVE  Carried /\ Settled /\ Alerted(page', unseated')
  <2> DEFINE h == CommitDeletion(d, s)
  <2>1. Removed(h, d, s)
    BY <1>5, <1>9, DeletionIs
  <2> HIDE DEF h
  <2>2. SameRows(page', h) /\ h \in Pages
    BY <1>13, <2>1, ReconciledIs DEF Removed, h
  <2>3. s \in Gone
    BY <1>1, <1>5, <1>7, <1>13 DEF Quiet, Log, Gone
  <2>4. Carried /\ Settled
    BY <1>4, <1>9, <2>1, <2>2 DEF Removed, SameRows, Pages
  <2>5. Alerted(page', unseated')
    <3>1. \A t \in h.raised \ unseated : Needing(h.rows[t])
      BY <1>9, <1>10, <2>1 DEF Removed, Pages
    <3>2. h.tombstones \subseteq Gone /\ h.raised \cap h.tombstones \subseteq unseated
      BY <1>9, <1>10, <2>1, <2>3 DEF Removed
    <3> QED BY <1>10, <1>13, <2>2, <3>1, <3>2, ReconciledAlerts DEF h
  <2> QED BY <2>4, <2>5
<1>14. ASSUME NEW alert \in BOOLEAN, page' = Reconciled(ApplyInput(d, s, n, e.pending, alert)),
              s \notin page.tombstones
       PROVE  Carried /\ Settled /\ Alerted(page', unseated')
  <2> DEFINE h == ApplyInput(d, s, n, e.pending, alert)
  <2>1. Applied(h, d, s, n, e.pending)
    <3>1. n \in Int
      BY <1>5
    <3> QED BY <1>5, <1>9, <3>1, InputIs
  <2> HIDE DEF h
  <2>2. SameRows(page', h) /\ h \in Pages
    BY <1>14, <2>1, ReconciledIs DEF Applied, h
  <2>3. Carried
    BY <1>4, <1>9, <2>1, <2>2 DEF Applied, SameRows, Pages
  <2>4. page'.last[s] = n /\ page'.at = n
    BY <1>4, <1>5, <1>9, <2>1, <2>2 DEF Applied, SameRows, Pages
  <2>5. page'.marker[s] \in Int /\ page'.marker[s] >= n
    BY <1>3, <1>4, <1>5, <1>9, <2>1, <2>2 DEF Applied, SameRows, Pages
  <2>6. MarkedEmpty(Log, Gone, page', s)
    <3>1. CASE h.marker[s] = n /\ (h.rows[s] = e.pending \/ (h.rows[s] = NoRow /\ e.pending = Null))
      <4>1. Said(Log, n, s) = e.pending
        BY <1>5, <1>7, SaidLast
      <4> QED BY <1>5, <2>2, <3>1, <4>1, SummaryShows DEF MarkedEmpty, SameRows
    <3>2. CASE h.rows[s] = page.rows[s] /\ h.marker[s] = page.marker[s]
      BY <1>11, <1>14, <2>2, <3>2 DEF MarkedEmpty, Tracks, SameRows
    <3> QED BY <1>9, <2>1, <3>1, <3>2 DEF Applied
  <2>7. Followed(Log, page', missed, s)
    BY <1>5, <1>6, <2>4, <2>5 DEF Followed
  <2>8. Settled
    BY <1>5, <2>4, <2>5, <2>6, <2>7 DEF Tracks
  <2>9. Alerted(page', unseated')
    <3>1. \A t \in h.raised \ unseated : Needing(h.rows[t])
      BY <1>9, <1>10, <2>1 DEF Applied
    <3>2. h.tombstones \subseteq Gone /\ h.raised \cap h.tombstones \subseteq unseated
      BY <1>9, <1>10, <1>14, <2>1 DEF Applied
    <3> QED BY <1>10, <1>14, <2>2, <3>1, <3>2, ReconciledAlerts DEF h
  <2> QED BY <2>3, <2>8, <2>9
<1>15. Carried /\ Settled /\ Alerted(page', unseated')
  BY <1>2, <1>12, <1>13, <1>14 DEF Becomes
<1>16. Fetching(page', fetch', missed', read', lapsed')
  BY <1>2, <1>4, <1>5, <1>6, <1>15 DEF Fetching, Owed
<1>17. \A t \in Sessions \ page'.tombstones : Tracks(Log, Gone, page', missed, t)
  <2> SUFFICES ASSUME NEW t \in Sessions \ page'.tombstones, t # s
               PROVE  Tracks(Log, Gone, page', missed, t)
    BY <1>15
  <2>1. Tracks(Log, Gone, page, missed, t)
    BY <1>4, <1>15 DEF KInv, Tracked
  <2> QED BY <1>2, <1>3, <1>4, <1>6, <1>7, <1>15, <2>1, PassesOver
<1>18. ASSUME read >= missed, NEW t \in Sessions \ page'.tombstones
       PROVE  RightRow(Log, page', read, t)
  <2>1. CASE t # s
    <3>1. RightRow(Log, page, read, t)
      BY <1>4, <1>15, <1>18 DEF KInv, Righted
    <3> QED BY <1>2, <1>3, <1>4, <1>6, <1>7, <1>15, <2>1, <3>1, PassesOver
  <2>2. CASE t = s /\ Ends(Log, n, s)
    BY <1>15, <2>2 DEF RightRow
  <2>3. CASE t = s /\ page'.marker[s] >= n
    <3>1. page'.marker[s] >= 0 /\ page'.marker[s] >= FloorOf(page', read)
      BY <1>3, <1>5, <1>15, <2>3 DEF FloorOf, Pages
    <3> QED BY <1>1, <1>3, <1>4, <1>5, <1>6, <1>15, <1>17, <2>3, <3>1, MarkedIsRight
  <2> QED BY <1>15, <2>1, <2>2, <2>3
<1> QED BY <1>1, <1>2, <1>15, <1>16, <1>17, <1>18, PageMovesAll DEF Tracked, Righted, KInv

\* A page that has just heard of its daemon has everything to read.
LEMMA OpenKeepsAll ==
    ASSUME KInv, Open
    PROVE  KInv'
<1>1. /\ IInv' /\ IInv /\ page \in Pages /\ page.epoch = 0
      /\ page' = [page EXCEPT !.epoch = daemon.epoch] /\ fetch' = Refreshed(fetch)
      /\ UNCHANGED <<daemon, list, missed, read, lapsed, unseated>>
  BY OpenKeeps DEF KInv, Open, IInv, Fit
<1>2. /\ page'.epoch = daemon.epoch /\ page'.at = page.at /\ page'.rows = page.rows
      /\ page'.marker = page.marker /\ page'.last = page.last
      /\ page'.tombstones = page.tombstones /\ page'.raised = page.raised
  BY <1>1 DEF Pages
<1>3. page.at = -1 /\ \A s \in Sessions : page.marker[s] = -1 /\ page.last[s] = -1
  BY <1>1 DEF IInv, Fit, Behind, EndOf
<1>4. fetch = NoFetch /\ read = -1 /\ missed = 0 /\ lapsed \in BOOLEAN
  BY <1>1 DEF KInv, Fetching
<1>5. Alerted(page', unseated')
  BY <1>1, <1>2 DEF KInv, Alerted
<1>6. fetch'.step = "asked"
  BY <1>1, <1>4 DEF Refreshed, NoFetch
<1>7. daemon.epoch # 0 /\ LogHead \in Nat
  <2>1. Fit(page', daemon)
    BY <1>1 DEF IInv
  <2> QED BY <1>1, <1>2, <2>1, PageNow
<1>8. Fetching(page', fetch', missed', read', lapsed')
  BY <1>1, <1>2, <1>3, <1>4, <1>6, <1>7 DEF Fetching, Owed
<1>9. Tracked(page', missed')
  BY <1>1, <1>2, <1>3, <1>4 DEF Tracked, Tracks, MarkedEmpty, Followed
<1>10. Righted(page', missed', read')
  BY <1>1, <1>4 DEF Righted
<1> QED BY <1>1, <1>5, <1>8, <1>9, <1>10, PageMovesAll DEF KInv

\* The cursor that reconnect() resumes from is not behind any session's.
LEMMA StreamCursorLeads ==
    ASSUME IInv, NEW s \in Sessions
    PROVE  page.last[s] <= StreamCursor
<1> DEFINE last == {page.last[t] : t \in Sessions}
<1>1. EndOf(daemon, page.epoch) \in Int
  BY EndBounds DEF IInv, Fit, Behind
<1>2. last \cup {-1} \subseteq -1 .. EndOf(daemon, page.epoch)
  BY <1>1 DEF IInv, Fit, Behind
<1>3. IsFiniteSet(last \cup {-1})
  <2>1. IsFiniteSet(-1 .. EndOf(daemon, page.epoch))
    BY <1>1, FS_Interval
  <2> QED BY <1>2, <2>1, FS_Subset
<1>4. last \cup {-1} \in SUBSET Int /\ last \cup {-1} # {} /\ page.last[s] \in last \cup {-1}
  BY <1>1, <1>2
<1> HIDE DEF last
<1>5. page.last[s] <= Max(last \cup {-1})
  BY <1>3, <1>4, HasMax
<1> QED BY <1>5 DEF StreamCursor, last

\* What a page keeps of a retired daemon: that some sessions exist.
LEMMA ResetIs ==
    ASSUME NEW c \in Pages, NEW epoch \in Nat
    PROVE  LET e == ResetForEpoch(c, epoch)
           IN  /\ e \in Pages /\ e.epoch = epoch /\ e.at = c.at /\ e.tombstones = c.tombstones
               /\ \A s \in Sessions : e.marker[s] = -1 /\ e.last[s] = -1
               /\ \A s \in e.raised : s \in c.raised /\ ~Needing(c.rows[s])
<1> DEFINE gone == {s \in Sessions : Needing(c.rows[s])} \cup {s \in c.opened : c.rows[s] = NoRow}
           b == Cleared(c, gone)
           rows == [s \in Sessions |-> IF b.rows[s] = NoRow THEN NoRow ELSE Unknown]
           e == [b EXCEPT !.epoch = epoch, !.rows = rows,
                          !.marker = [s \in Sessions |-> -1],
                          !.last = [s \in Sessions |-> -1]]
<1>1. /\ b \in Pages /\ b.at = c.at /\ b.tombstones = c.tombstones
      /\ b.raised = c.raised \ gone
  BY DEF Cleared, Pages
<1>2. ResetForEpoch(c, epoch) = e
  BY DEF ResetForEpoch
<1> HIDE DEF b
<1>3. rows \in [Sessions -> Rows] /\ [s \in Sessions |-> -1] \in [Sessions -> Int]
  BY KnownRows
<1> HIDE DEF rows
<1>4. /\ e \in Pages /\ e.epoch = epoch /\ e.at = c.at /\ e.tombstones = c.tombstones
      /\ e.raised = c.raised \ gone
      /\ \A s \in Sessions : e.marker[s] = -1 /\ e.last[s] = -1
  BY <1>1, <1>3 DEF Pages
<1> HIDE DEF e
<1>5. \A s \in e.raised : s \in c.raised /\ ~Needing(c.rows[s])
  BY <1>4 DEF Pages
<1> QED BY <1>2, <1>4, <1>5

\* Every refresh leaves a fetch in flight, and one that was in flight is followed
\* by another.
LEMMA RefreshedIs ==
    ASSUME NEW f, f \in Fetches
    PROVE  /\ Refreshed(f).step # "idle"
           /\ Refreshed(f).step = "answered" =>
                 f.step = "answered" /\ Refreshed(f).again /\ Refreshed(f).answer = f.answer
BY DEF Refreshed, Fetches

LEMMA RestartKeepsAll ==
    ASSUME KInv, Restart
    PROVE  KInv'
<1>1. /\ IInv' /\ IInv /\ daemon \in Daemons /\ page \in Pages
      /\ UNCHANGED <<fetch, list, missed, read, lapsed, unseated>>
  BY RestartKeeps DEF KInv, Restart, IInv, Fit
<1>2. /\ daemon'.epoch = daemon.epoch + 1 /\ daemon'.log = daemon.log
      /\ daemon'.open = [s \in Sessions |-> {}]
      /\ \A s \in Sessions : daemon'.phase[s] = "gone" <=> daemon.phase[s] = "gone"
  BY <1>1 DEF Restart, Daemons
<1>3. /\ page'.epoch = page.epoch /\ page'.tombstones = page.tombstones
      /\ page'.raised = page.raised /\ page'.rows = page.rows
  BY <1>1 DEF Restart, Pages
<1>4. daemon.epoch \in Nat \ {0} /\ daemon'.epoch \in Epochs /\ page.epoch \in 0 .. daemon.epoch
  BY <1>1 DEF IInv, Fit, Behind, Daemons, Epochs
<1>5. daemon'.log[daemon'.epoch] = <<>>
  BY <1>1, <1>2, <1>4 DEF IInv, IndexIsLogged
<1>6. Quiet(daemon)'
  <2>1. Len(<<>>) = 0
    OBVIOUS
  <2> QED BY <1>2, <1>5, <2>1 DEF Quiet
<1>7. Gone' = Gone
  BY <1>2 DEF Gone
<1>8. page'.epoch # daemon'.epoch
  BY <1>2, <1>3, <1>4
<1>9. Alerted(page, unseated)' /\ (list.answer.gone \subseteq Gone)'
  BY <1>1, <1>3, <1>7 DEF KInv, Alerted
<1>10. Fetching(page, fetch, missed, read, lapsed)'
  <2>1. NoFetch' = NoFetch
    BY DEF NoFetch, NoAnswer, Null
  <2> QED BY <1>1, <1>3, <1>8, <2>1 DEF KInv, Fetching
<1> QED BY <1>1, <1>6, <1>8, <1>9, <1>10 DEF KInv, Tracked, Righted

\* What only the page decides leaves its rows, or forgets a session that is gone.
LEMMA PageKeepsAll ==
    ASSUME KInv,
           Disconnect \/ \E s \in Sessions : DismissAlert(s) \/ NoticeGone(s)
    PROVE  KInv'
<1>1. /\ IInv' /\ IInv /\ page \in Pages
      /\ UNCHANGED <<daemon, fetch, list, missed, read, lapsed, unseated>>
  BY PageKeeps DEF KInv, Disconnect, DismissAlert, NoticeGone, OtherThanPage, IInv, Fit
<1>2. /\ page.tombstones \subseteq Gone /\ page.raised \cap page.tombstones \subseteq unseated
      /\ \A s \in page.raised \ unseated : Needing(page.rows[s])
      /\ unseated' = unseated
  BY <1>1 DEF KInv, Alerted
<1>3. /\ page'.epoch = page.epoch /\ page'.at = page.at
      /\ page'.last = page.last /\ page.tombstones \subseteq page'.tombstones
      /\ \A s \in Sessions \ page'.tombstones :
            page'.rows[s] = page.rows[s] /\ page'.marker[s] = page.marker[s]
      /\ Alerted(page', unseated')
  <2>1. CASE Disconnect
    BY <1>1, <1>2, <2>1 DEF Disconnect, Pages, Alerted
  <2>2. ASSUME NEW s \in Sessions, DismissAlert(s)
        PROVE  /\ SameRows(page', page) /\ Alerted(page', unseated')
    BY <1>1, <1>2, <2>2 DEF DismissAlert, Pages, Alerted, SameRows
  <2>3. ASSUME NEW s \in Sessions, NoticeGone(s)
        PROVE  /\ page'.epoch = page.epoch /\ page'.at = page.at
               /\ page'.last = page.last /\ page.tombstones \subseteq page'.tombstones
               /\ \A t \in Sessions \ page'.tombstones :
                     page'.rows[t] = page.rows[t] /\ page'.marker[t] = page.marker[t]
               /\ Alerted(page', unseated')
    <3> DEFINE h == CommitDeletion(page, s)
    <3>1. Removed(h, page, s) /\ s \in Gone /\ page' = Reconciled(h)
      BY <1>1, <2>3, DeletionIs DEF NoticeGone, Becomes
    <3> HIDE DEF h
    <3>2. SameRows(page', h) /\ h \in Pages
      BY <3>1, ReconciledIs DEF Removed
    <3>3. /\ h.tombstones \subseteq Gone /\ h.raised \cap h.tombstones \subseteq unseated
          /\ \A t \in h.raised \ unseated : Needing(h.rows[t])
      BY <1>1, <1>2, <3>1 DEF Removed, Pages
    <3>4. Alerted(page', unseated')
      BY <1>2, <3>1, <3>2, <3>3, ReconciledAlerts
    <3> QED BY <3>1, <3>2, <3>4 DEF Removed, SameRows
  <2> QED BY <2>1, <2>2, <2>3 DEF SameRows
<1>4. Fetching(page', fetch', missed', read', lapsed')
  BY <1>1, <1>3 DEF KInv, Fetching, Owed
<1>5. Tracked(page', missed')
  BY <1>1, <1>3 DEF KInv, Tracked, Tracks, MarkedEmpty, Followed
<1>6. Righted(page', missed', read')
  BY <1>1, <1>3 DEF KInv, Righted, RightRow, FloorOf
<1> QED BY <1>1, <1>3, <1>4, <1>5, <1>6, PageMovesAll DEF KInv

\* A page that attaches has missed nothing, or owes itself a list of what it missed.
LEMMA AttachKeepsAll ==
    ASSUME KInv, NEW store \in BOOLEAN, NEW retained \in BOOLEAN, Attach(store, retained)
    PROVE  KInv'
<1> DEFINE changed == page.epoch # daemon.epoch
           cursor == IF store \/ page.at = -1 THEN StreamCursor ELSE page.at
           resync == changed \/ ~retained \/ cursor = -1
           at == IF resync THEN LogHead ELSE cursor
           signals == store \/ page.signals
           c == [page EXCEPT !.attached = TRUE, !.at = at,
                             !.signals = signals /\ ~resync]
           skips == changed \/ at > page.at
           kept == IF changed \/ (skips /\ page.at # -1) THEN -1 ELSE read
           heard == changed \/ store \/ (resync /\ signals)
<1>1. /\ page.epoch # 0
      /\ page' = Reconciled(IF changed THEN ResetForEpoch(c, daemon.epoch) ELSE c)
      /\ fetch' = IF changed THEN Refreshed(NoFetch)
                  ELSE IF heard THEN Refreshed(fetch)
                  ELSE fetch
      /\ missed' = IF skips THEN at ELSE missed
      /\ read' = kept
      /\ lapsed' = (~heard /\ (lapsed \/ (skips /\ kept < at /\ ~Covered(at))))
      /\ UNCHANGED <<daemon, list, unseated>>
      /\ store => page.at # -1
  BY DEF Attach, Becomes
<1>2. IInv' /\ IInv /\ page \in Pages /\ page.signals \in BOOLEAN /\ daemon.epoch \in Nat \ {0}
  BY AttachKeeps DEF KInv, IInv, Fit, Pages, Daemons, Epochs
<1>3. LogHead \in Nat /\ LogHead = Len(Log)
  <2>1. daemon \in Daemons
    BY <1>2 DEF IInv
  <2>2. Log \in Seq(Events)
    BY <2>1 DEF Daemons, Log
  <2> QED BY <2>2 DEF LogHead
<1>4. ~changed => /\ page.at \in -1 .. LogHead /\ cursor \in -1 .. LogHead
                  /\ \A s \in Sessions : page.last[s] \in Int /\ page.marker[s] \in Int
  <2>1. ~changed => page.at \in -1 .. LogHead
    BY <1>2, PageNow DEF IInv
  <2>2. ~changed => StreamCursor \in -1 .. LogHead
    <3>1. ~changed => EndOf(daemon, page.epoch) = LogHead
      BY <1>1 DEF EndOf, Log, LogHead
    <3> QED BY <1>2, <3>1, StreamCursorBounded
  <2> QED BY <1>2, <2>1, <2>2 DEF Pages
<1>5. at \in 0 .. LogHead
  BY <1>3, <1>4
<1>6. /\ c \in Pages /\ c.epoch = page.epoch /\ c.at = at
      /\ c.rows = page.rows /\ c.marker = page.marker /\ c.last = page.last
      /\ c.tombstones = page.tombstones /\ c.raised = page.raised
  <2>1. (signals /\ ~resync) \in BOOLEAN /\ at \in Int
    BY <1>2, <1>3, <1>5
  <2> HIDE DEF signals, resync, at
  <2> QED BY <1>2, <2>1 DEF Pages
<1>7. /\ page.tombstones \subseteq Gone /\ page.raised \cap page.tombstones \subseteq unseated
      /\ unseated' = unseated
      /\ \A s \in page.raised \ unseated : Needing(page.rows[s])
      /\ list'.answer.gone \subseteq Gone
  BY <1>1 DEF KInv, Alerted
<1>8. /\ missed \in Nat /\ read \in Int /\ lapsed \in BOOLEAN
      /\ fetch.step = "idle" => fetch = NoFetch
      /\ ~changed => Owed(page, fetch, missed, read, lapsed)
      /\ fetch \in Fetches
  BY <1>2 DEF KInv, Fetching, IInv
<1>9. NoFetch.step = "idle" /\ NoFetch.answer.sequence = 0
  BY DEF NoFetch, NoAnswer
<1> HIDE DEF c
<1>10. CASE changed
  <2> DEFINE h == ResetForEpoch(c, daemon.epoch)
  <2>1. /\ h \in Pages /\ h.epoch = daemon.epoch /\ h.at = at /\ h.tombstones = page.tombstones
        /\ \A s \in Sessions : h.marker[s] = -1 /\ h.last[s] = -1
        /\ \A s \in h.raised : s \in page.raised /\ ~Needing(page.rows[s])
    BY <1>2, <1>6, ResetIs
  <2>2. page' = Reconciled(h)
    BY <1>1, <1>10
  <2> HIDE DEF h
  <2>3. SameRows(page', h)
    BY <2>1, <2>2, ReconciledIs
  <2>4. Alerted(page', unseated')
    BY <1>7, <2>1, <2>2, ReconciledAlerts
  <2>5. missed' = at /\ read' = -1 /\ lapsed' \in BOOLEAN /\ fetch'.step = "asked"
    BY <1>1, <1>8, <1>9, <1>10 DEF Refreshed, NoFetch
  <2> HIDE DEF at, kept, skips, heard, resync, cursor
  <2>6. Fetching(page', fetch', missed', read', lapsed')
    BY <1>1, <1>2, <1>3, <1>5, <1>10, <2>1, <2>3, <2>5 DEF Fetching, Owed, SameRows
  <2>7. Tracked(page', missed')
    BY <1>5, <2>1, <2>3, <2>5 DEF Tracked, Tracks, MarkedEmpty, Followed, SameRows
  <2>8. Righted(page', missed', read')
    BY <1>5, <2>5 DEF Righted
  <2> QED BY <1>1, <1>2, <1>7, <2>4, <2>6, <2>7, <2>8, PageMovesAll
<1>11. CASE ~changed
  <2>1. page' = Reconciled(c) /\ fetch' = (IF heard THEN Refreshed(fetch) ELSE fetch)
    BY <1>1, <1>11
  <2>2. SameRows(page', c)
    BY <1>6, <2>1, ReconciledIs
  <2>3. Alerted(page', unseated')
    BY <1>6, <1>7, <2>1, ReconciledAlerts
  <2>4. lapsed' \in BOOLEAN /\ missed' \in Nat /\ read' \in Int
    BY <1>1, <1>3, <1>5, <1>8
  <2>5. \* A cursor that moves back is that of a page that is not ahead of it anyway.
        at <= page.at => \A s \in Sessions : page.last[s] > at => page.last[s] > page.at
    <3>1. ASSUME at <= page.at, NEW s \in Sessions, page.last[s] > at
          PROVE  page.last[s] > page.at
      <4>1. page.last[s] <= StreamCursor
        BY <1>2, StreamCursorLeads
      <4>2. resync => at = LogHead
        OBVIOUS
      <4>3. page.last[s] \in Int /\ page.at \in Int /\ at \in Int /\ StreamCursor \in Int
        <5>1. StreamCursor \in Int
          <6>1. EndOf(daemon, page.epoch) = LogHead
            BY <1>1, <1>11 DEF EndOf, Log, LogHead
          <6> QED BY <1>2, <1>3, <6>1, StreamCursorBounded
        <5> QED BY <1>3, <1>4, <1>5, <1>11, <5>1
      <4>4. CASE resync
        BY <1>3, <1>4, <1>5, <1>11, <3>1, <4>2, <4>3, <4>4
      <4>5. CASE ~resync /\ (store \/ page.at = -1)
        BY <3>1, <4>1, <4>3, <4>5
      <4>6. CASE ~resync /\ ~(store \/ page.at = -1)
        BY <3>1, <4>6
      <4> QED BY <4>4, <4>5, <4>6
    <3> QED BY <3>1
  <2>6. \* A miss is signalled, covered by the fetch in flight, or it lapses.
        Owed(page', fetch', missed', read', lapsed')
    <3>1. Owed(page, fetch, missed, read, lapsed)
      BY <1>8, <1>11
    <3>2. missed' <= LogHead /\ read' <= LogHead /\ page'.at # -1
      BY <1>1, <1>3, <1>5, <1>6, <2>2, <3>1 DEF Owed, SameRows
    <3>3. CASE heard
      <4>1. /\ fetch'.step # "idle"
            /\ fetch'.step = "answered" =>
                  fetch.step = "answered" /\ fetch'.again /\ fetch'.answer = fetch.answer
        BY <1>8, <2>1, <3>3, RefreshedIs
      <4>2. fetch'.step = "answered" =>
               fetch'.answer.epoch = page'.epoch /\ read' <= fetch'.answer.sequence
        <5>1. fetch.step = "answered" => fetch.answer.sequence \in Nat
          BY <1>8 DEF Fetches, Answers
        <5>2. read' \in {-1, read}
          BY <1>1
        <5> QED BY <1>6, <1>8, <2>2, <3>1, <4>1, <5>1, <5>2 DEF Owed, SameRows
      <4> QED BY <3>2, <4>1, <4>2 DEF Owed
    <3>4. CASE ~heard
      <4>1. /\ fetch' = fetch /\ read' = kept /\ missed' = (IF skips THEN at ELSE missed)
            /\ lapsed' = (lapsed \/ (skips /\ kept < at /\ ~Covered(at)))
        BY <1>1, <2>1, <3>4
      <4>2. fetch.answer.sequence \in Nat /\ fetch.again \in BOOLEAN
        BY <1>8 DEF Fetches, Answers
      <4>3. fetch.step = "answered" =>
               /\ fetch.answer.epoch = page'.epoch /\ kept <= fetch.answer.sequence
        BY <1>6, <1>8, <2>2, <3>1, <4>2 DEF Owed, SameRows
      <4>4. CASE ~skips
        <5>1. kept = read
          BY <1>11, <4>4
        <5> QED BY <3>1, <3>2, <4>1, <4>3, <4>4, <5>1 DEF Owed
      <4>5. CASE skips /\ (kept >= at \/ Covered(at))
        <5>1. missed' = at /\ lapsed' = lapsed
          BY <1>5, <1>8, <4>1, <4>5
        <5>2. fetch.step = "answered" => fetch.answer.sequence >= at
          BY <1>5, <1>8, <4>2, <4>3, <4>5 DEF Covered
        <5>3. kept < at => lapsed \/ fetch.step # "idle"
          <6>1. ASSUME kept < at, fetch.step = "idle"
                PROVE  lapsed
            <7>1. at = 0
              BY <1>5, <1>8, <1>9, <4>5, <6>1 DEF Covered
            <7>2. page.at = -1 /\ kept = read /\ missed = 0
              BY <1>4, <1>11, <3>1, <4>5, <7>1 DEF Owed
            <7> QED BY <3>1, <6>1, <7>1, <7>2 DEF Owed
          <6> QED BY <6>1
        <5> QED BY <3>2, <4>1, <4>3, <5>1, <5>2, <5>3 DEF Owed
      <4>6. CASE skips /\ kept < at /\ ~Covered(at)
        BY <3>2, <4>1, <4>3, <4>6 DEF Owed
      <4>7. kept >= at \/ kept < at
        BY <1>5, <1>8
      <4> QED BY <4>4, <4>5, <4>6, <4>7
    <3> QED BY <3>3, <3>4
  <2>7. Fetching(page', fetch', missed', read', lapsed')
    <3>1. fetch'.step = "idle" => fetch' = NoFetch
      BY <1>8, <2>1, RefreshedIs
    <3> QED BY <1>1, <1>6, <2>2, <2>4, <2>6, <3>1 DEF Fetching, SameRows
  <2>8. \A s \in Sessions \ page.tombstones : Tracks(Log, Gone, page, missed, s)
    BY <1>11 DEF KInv, Tracked
  <2>9. CASE at <= page.at
    <3>1. missed' = missed /\ read' = read /\ page.at \in Nat
      BY <1>1, <1>4, <1>5, <1>11, <2>9
    <3>2. ASSUME NEW s \in Sessions, Ends(Log, page.at, s)
          PROVE  Ends(Log, at, s)
      BY <1>3, <1>4, <1>5, <1>11, <2>9, <3>2 DEF Ends
    <3>3. Tracked(page', missed')
      <4>1. ASSUME NEW s \in Sessions \ page.tombstones
            PROVE  Tracks(Log, Gone, page', missed, s)
        <5>1. Tracks(Log, Gone, page, missed, s)
          BY <2>8
        <5>2. page.last[s] > at => page.marker[s] >= page.last[s]
          BY <2>5, <2>9, <5>1 DEF Tracks
        <5>3. Followed(Log, page, missed, s) => Followed(Log, page', missed, s)
          BY <1>3, <1>4, <1>5, <1>6, <1>8, <1>11, <2>2, <2>9 DEF Followed, SameRows
        <5>4. MarkedEmpty(Log, Gone, page', s)
          BY <1>6, <2>2, <5>1 DEF Tracks, MarkedEmpty, SameRows
        <5> QED BY <1>6, <2>2, <3>2, <5>1, <5>2, <5>3, <5>4 DEF Tracks, SameRows
      <4> QED BY <1>6, <2>2, <3>1, <4>1 DEF Tracked, SameRows
    <3>4. Righted(page', missed', read')
      <4>1. ASSUME read >= missed, NEW s \in Sessions \ page.tombstones
            PROVE  RightRow(Log, page', read, s)
        <5>1. RightRow(Log, page, read, s)
          BY <1>11, <4>1 DEF KInv, Righted
        <5>2. Timely(Log, page.rows[s], page.at, s) => Timely(Log, page.rows[s], at, s)
          BY <1>3, <1>4, <1>5, <1>11, <2>9 DEF Timely
        <5>3. page.at # -1 /\ at # -1 /\ page'.at = at /\ page'.rows = page.rows
          BY <1>5, <1>6, <2>2, <3>1 DEF SameRows
        <5> QED BY <3>2, <5>1, <5>2, <5>3 DEF RightRow, FloorOf
      <4> QED BY <1>6, <2>2, <3>1, <4>1 DEF Righted, SameRows
    <3> QED BY <1>1, <1>2, <1>7, <2>3, <2>7, <3>3, <3>4, PageMovesAll
  <2>10. CASE at > page.at
    <3>1. missed' = at /\ read' = IF page.at # -1 THEN -1 ELSE read
      BY <1>1, <1>11, <2>10
    <3>2. Tracked(page', missed')
      <4>1. ASSUME NEW s \in Sessions \ page.tombstones
            PROVE  Tracks(Log, Gone, page', at, s)
        <5>1. Tracks(Log, Gone, page, missed, s)
          BY <2>8
        <5>2. page.last[s] > at => page.marker[s] >= page.last[s]
          BY <1>4, <1>5, <1>11, <2>10, <5>1 DEF Tracks
        <5>3. Followed(Log, page', at, s)
          BY <1>5, <1>6, <2>2 DEF Followed, SameRows
        <5>4. MarkedEmpty(Log, Gone, page', s)
          BY <1>6, <2>2, <5>1 DEF Tracks, MarkedEmpty, SameRows
        <5> QED BY <1>6, <2>2, <5>2, <5>3, <5>4 DEF Tracks, SameRows
      <4> QED BY <1>6, <2>2, <3>1, <4>1 DEF Tracked, SameRows
    <3>3. Righted(page', missed', read')
      <4>1. ASSUME read' >= at, NEW s \in Sessions \ page.tombstones
            PROVE  RightRow(Log, page', read', s)
        <5>1. page.at = -1 /\ read' = read /\ missed = 0
          <6>1. page.at = -1 /\ read' = read
            BY <1>5, <3>1, <4>1
          <6> QED BY <1>8, <1>11, <6>1 DEF Owed
        <5>2. RightRow(Log, page, read, s)
          BY <1>5, <1>8, <1>11, <4>1, <5>1 DEF KInv, Righted
        <5>3. Timely(Log, page.rows[s], read, s)
          BY <5>1, <5>2 DEF RightRow, Ends, FloorOf
        <5>4. Timely(Log, page.rows[s], at, s)
          BY <1>3, <1>5, <1>8, <4>1, <5>1, <5>3 DEF Timely
        <5>5. page'.at = at /\ at # -1 /\ page'.rows = page.rows
          BY <1>5, <1>6, <2>2 DEF SameRows
        <5> QED BY <5>4, <5>5 DEF RightRow, FloorOf
      <4> QED BY <1>6, <2>2, <3>1, <4>1 DEF Righted, SameRows
    <3> QED BY <1>1, <1>2, <1>7, <2>3, <2>7, <3>2, <3>3, PageMovesAll
  <2> QED BY <1>4, <1>5, <1>11, <2>9, <2>10
<1> QED BY <1>10, <1>11

-----------------------------------------------------------------------------
(* Its reads.                                                              *)

\* The global list names s, or refuses to for its marker, or both show nothing.
ListTaken(e, c, answer) ==
    /\ e \in Pages /\ e.epoch = c.epoch /\ e.at = c.at /\ e.last = c.last
    /\ e.tombstones = c.tombstones /\ e.raised = c.raised
    /\ \A s \in Sessions :
          \/ /\ e.rows[s] = answer.pending[s] /\ e.marker[s] = answer.sequence
             /\ answer.sequence >= c.marker[s]
          \/ /\ e.rows[s] = c.rows[s] /\ e.marker[s] = c.marker[s]
             /\ \/ c.marker[s] >= answer.sequence
                \/ ~Needing(c.rows[s]) /\ ~Needing(answer.pending[s])

LEMMA PendingListIs ==
    ASSUME NEW c \in Pages, NEW answer, answer.pending \in [Sessions -> Summaries],
           answer.sequence \in Int
    PROVE  ListTaken(ApplyPendingList(c, answer), c, answer)
<1> DEFINE Named(s) == Needing(answer.pending[s])
           adopted == {s \in Sessions : /\ Named(s) \/ Needing(c.rows[s])
                                        /\ Accepts(c, s, answer.sequence)}
           rows == [s \in Sessions |-> IF s \in adopted THEN answer.pending[s] ELSE c.rows[s]]
           marker == [s \in Sessions |-> IF s \in adopted THEN answer.sequence ELSE c.marker[s]]
           e == [c EXCEPT !.rows = rows, !.marker = marker]
<1>1. ApplyPendingList(c, answer) = e
  BY DEF ApplyPendingList, Pages
<1>2. \A s \in Sessions :
         \/ /\ rows[s] = answer.pending[s] /\ marker[s] = answer.sequence
            /\ answer.sequence >= c.marker[s]
         \/ /\ rows[s] = c.rows[s] /\ marker[s] = c.marker[s]
            /\ \/ c.marker[s] >= answer.sequence
               \/ ~Needing(c.rows[s]) /\ ~Needing(answer.pending[s])
  BY DEF Accepts, Pages
<1> HIDE DEF adopted
<1>3. rows \in [Sessions -> Rows] /\ marker \in [Sessions -> Int]
  BY KnownRows DEF Pages
<1> HIDE DEF rows, marker
<1>4. /\ e \in Pages /\ e.epoch = c.epoch /\ e.at = c.at /\ e.last = c.last
      /\ e.tombstones = c.tombstones /\ e.raised = c.raised
      /\ e.rows = rows /\ e.marker = marker
  BY <1>3 DEF Pages
<1> HIDE DEF e
<1> QED BY <1>1, <1>2, <1>4 DEF ListTaken

\* A row is right once a list has been read that is not older than the miss.
LEMMA ReadIsRight ==
    ASSUME IInv, Quiet(daemon), NEW c, Fit(c, daemon), c.epoch = daemon.epoch,
           NEW s \in Sessions, NEW m \in Nat, NEW a \in Nat, a <= LogHead, m <= a,
           Tracks(Log, Gone, c, m, s),
           c.marker[s] >= a \/ (~Needing(c.rows[s]) /\ ~Needing(Said(Log, a, s)))
    PROVE  RightRow(Log, c, a, s)
<1>1. /\ c.at \in -1 .. LogHead /\ c.marker[s] \in -1 .. LogHead /\ LogHead \in Nat
      /\ LogHead = Len(Log)
  BY PageNow DEF LogHead
<1>2. CASE c.marker[s] >= a
  <2>1. c.marker[s] >= 0 /\ (c.at = -1 => FloorOf(c, a) = a)
    BY <1>1, <1>2 DEF FloorOf
  <2>2. c.marker[s] >= FloorOf(c, a) \/ (c.at # -1 /\ c.marker[s] >= m)
    BY <1>1, <1>2, <2>1
  <2> QED BY <2>1, <2>2, MarkedIsRight
<1>3. CASE c.marker[s] < a /\ ~Needing(c.rows[s]) /\ ~Needing(Said(Log, a, s))
  <2>1. Shows(c.rows[s]) = Shows(Said(Log, a, s))
    BY <1>3 DEF Shows
  <2>2. CASE a >= FloorOf(c, a)
    BY <1>1, <2>1, <2>2 DEF RightRow, Timely
  <2>3. CASE a < FloorOf(c, a) /\ Followed(Log, c, m, s)
    <3>1. FloorOf(c, a) = c.at /\ c.at \in Nat /\ a <= c.at
      BY <1>1, <2>3 DEF FloorOf
    <3>2. Said(Log, c.at, s) = Said(Log, a, s)
      BY <1>1, <1>3, <2>3, <3>1, SaidSince
    <3> QED BY <1>1, <2>1, <3>1, <3>2 DEF RightRow, Timely
  <2>4. CASE Ends(Log, c.at, s)
    BY <2>4 DEF RightRow
  <2>5. FloorOf(c, a) \in Int
    BY <1>1 DEF FloorOf
  <2> QED BY <2>2, <2>3, <2>4, <2>5 DEF Tracks
<1> QED BY <1>1, <1>2, <1>3

LEMMA AnswerFetchKeepsAll ==
    ASSUME KInv, AnswerFetch
    PROVE  KInv'
<1>1. /\ IInv' /\ IInv /\ fetch.step = "asked" /\ fetch \in Fetches
      /\ fetch' = [fetch EXCEPT !.step = "answered", !.answer = Answer]
      /\ UNCHANGED <<daemon, page, list, missed, read, lapsed, unseated>>
  BY FetchKeeps DEF KInv, AnswerFetch, IInv
<1>2. /\ fetch'.step = "answered" /\ fetch'.answer = Answer
      /\ Answer.epoch = daemon.epoch /\ Answer.sequence = LogHead
  BY <1>1 DEF Fetches, Answer
<1>3. fetch.step # "idle" /\ NoFetch.step = "idle"
  BY <1>1 DEF NoFetch
<1>4. Fetching(page, fetch', missed, read, lapsed)
  BY <1>1, <1>2, <1>3 DEF KInv, Fetching, Owed
<1>5. Alerted(page', unseated') /\ Tracked(page', missed') /\ Righted(page', missed', read')
  BY <1>1 DEF KInv
<1> QED BY <1>1, <1>4, <1>5, PageMovesAll DEF KInv

\* A fetch that has settled is idle, or asks for what was triggered meanwhile.
LEMMA FinishedIs ==
    ASSUME NEW f
    PROVE  /\ Finished(f).step \in {"idle", "asked"}
           /\ Finished(f).step = "idle" => Finished(f) = NoFetch /\ ~f.again
BY DEF Finished, NoFetch

LEMMA FailFetchKeepsAll ==
    ASSUME KInv, FailFetch
    PROVE  KInv'
<1>1. /\ IInv' /\ IInv /\ fetch.step # "idle" /\ fetch \in Fetches
      /\ fetch' = Finished(fetch) /\ lapsed' = (lapsed \/ ~fetch.again)
      /\ UNCHANGED <<daemon, page, list, missed, read, unseated>>
  BY FetchKeeps DEF KInv, FailFetch, IInv
<1>2. NoFetch.step = "idle" /\ lapsed' \in BOOLEAN
  BY <1>1 DEF NoFetch
<1>3. Fetching(page, fetch', missed, read, lapsed')
  BY <1>1, <1>2, FinishedIs DEF KInv, Fetching, Owed
<1>4. Alerted(page', unseated') /\ Tracked(page', missed') /\ Righted(page', missed', read')
  BY <1>1 DEF KInv
<1> QED BY <1>1, <1>3, <1>4, PageMovesAll DEF KInv

LEMMA AskKeepsAll ==
    ASSUME KInv, AskList \/ \E s \in Sessions : AskDetail(s)
    PROVE  KInv'
<1>1. IInv' /\ UNCHANGED <<daemon, page, fetch, missed, read, lapsed, unseated>>
  BY AskKeeps DEF KInv, AskList, AskDetail
<1>2. list'.answer.gone \subseteq Gone
  BY DEF KInv, AskList, AskDetail, Answer
<1>3. Alerted(page', unseated') /\ Tracked(page', missed') /\ Righted(page', missed', read')
  BY <1>1 DEF KInv
<1>4. Fetching(page', fetch', missed', read', lapsed')
  BY <1>1 DEF KInv
<1> QED BY <1>1, <1>2, <1>3, <1>4, PageMovesAll

LEMMA CommitFetchKeepsAll ==
    ASSUME KInv, CommitFetch
    PROVE  KInv'
<1> DEFINE answer == fetch.answer
           a == answer.sequence
<1>1. /\ IInv' /\ IInv /\ Quiet(daemon) /\ page \in Pages
      /\ fetch.step = "answered" /\ fetch' = Finished(fetch) /\ fetch \in Fetches
      /\ UNCHANGED <<daemon, list, missed, lapsed, unseated>>
      /\ Truthful(answer, daemon)
  BY FetchKeeps DEF KInv, CommitFetch, IInv, Fit, AnswersTruthful
<1>2. a \in Nat /\ answer.pending \in [Sessions -> Summaries]
  BY <1>1 DEF Fetches, Answers
<1>3. /\ missed \in Nat /\ read \in Int /\ lapsed \in BOOLEAN /\ page.epoch # 0
      /\ page.epoch = daemon.epoch => Owed(page, fetch, missed, read, lapsed)
  <2>1. NoFetch.step = "idle"
    BY DEF NoFetch
  <2> QED BY <1>1, <2>1 DEF KInv, Fetching
<1>4. CASE answer.epoch # page.epoch
  <2>1. page' = page /\ read' = read
    BY <1>4 DEF CommitFetch
  <2>2. page.epoch # daemon.epoch
    BY <1>1, <1>3, <1>4 DEF Owed
  <2>3. Fetching(page', fetch', missed', read', lapsed')
    BY <1>1, <1>3, <2>1, <2>2, FinishedIs DEF Fetching
  <2>4. Alerted(page', unseated') /\ Tracked(page', missed') /\ Righted(page', missed', read')
    BY <1>1, <2>1 DEF KInv
  <2> QED BY <1>1, <2>3, <2>4, PageMovesAll DEF KInv
<1>5. CASE answer.epoch = page.epoch
  <2> DEFINE h == ApplyPendingList(page, answer)
  <2>1. page' = Reconciled(h) /\ read' = a
    BY <1>5 DEF CommitFetch, Becomes
  <2>2. ListTaken(h, page, answer)
    BY <1>1, <1>2, PendingListIs
  <2> HIDE DEF h
  <2>3. SameRows(page', h) /\ h \in Pages
    BY <2>1, <2>2, ReconciledIs DEF ListTaken
  <2>4. Alerted(page', unseated')
    <3>1. \A s \in h.raised \ unseated :
             Needing(h.rows[s]) \/ (h.rows[s] = Null /\ Needing(page.rows[s]))
      <4>1. \A s \in page.raised \ unseated : Needing(page.rows[s]) /\ s \in Sessions
        BY <1>1 DEF KInv, Alerted, Pages
      <4> QED BY <1>2, <2>2, <4>1, SummaryShows DEF ListTaken
    <3>2. h.tombstones \subseteq Gone /\ h.raised \cap h.tombstones \subseteq unseated
      BY <2>2 DEF KInv, Alerted, ListTaken
    <3> QED BY <1>1, <2>1, <2>3, <3>1, <3>2, ReconciledAlerts
  <2>5. \A s \in Sessions :
           /\ page'.last[s] = page.last[s] /\ page'.marker[s] >= page.marker[s]
           /\ page.marker[s] \in Int /\ page.last[s] \in Int /\ page'.marker[s] \in Int
           /\ \/ page'.rows[s] = answer.pending[s] /\ page'.marker[s] = a
              \/ /\ page'.rows[s] = page.rows[s] /\ page'.marker[s] = page.marker[s]
                 /\ \/ page.marker[s] >= a
                    \/ ~Needing(page.rows[s]) /\ ~Needing(answer.pending[s])
    BY <1>1, <1>2, <2>2, <2>3 DEF ListTaken, SameRows, Pages
  <2>6. /\ page'.epoch = page.epoch /\ page'.at = page.at /\ page'.tombstones = page.tombstones
        /\ page.at \in Int
    BY <1>1, <2>2, <2>3 DEF ListTaken, SameRows, Pages
  <2>7. ASSUME page.epoch = daemon.epoch
        PROVE  a <= LogHead /\ \A s \in Sessions : answer.pending[s] = Said(Log, a, s)
    BY <1>1, <1>5, <2>7 DEF Truthful, Log, LogHead
  <2>8. Fetching(page', fetch', missed', read', lapsed')
    <3>1. page.epoch = daemon.epoch => Owed(page', fetch', missed', read', lapsed')
      BY <1>1, <1>2, <1>3, <2>1, <2>6, <2>7, FinishedIs DEF Owed
    <3> QED BY <1>1, <1>2, <1>3, <2>1, <2>6, <3>1, FinishedIs DEF Fetching
  <2>9. ASSUME page.epoch = daemon.epoch, NEW s \in Sessions \ page.tombstones
        PROVE  Tracks(Log, Gone, page', missed, s)
    <3>1. Tracks(Log, Gone, page, missed, s)
      BY <2>9 DEF KInv, Tracked
    <3>2. MarkedEmpty(Log, Gone, page', s)
      <4>1. Known(answer.pending[s])
        BY <1>2, SummaryShows
      <4> QED BY <2>5, <3>1, <4>1 DEF Tracks, MarkedEmpty
    <3>3. Followed(Log, page, missed, s) => Followed(Log, page', missed, s)
      BY <1>3, <2>5, <2>6 DEF Followed
    <3> QED BY <2>5, <2>6, <3>1, <3>2, <3>3 DEF Tracks
  <2>10. ASSUME page.epoch = daemon.epoch, a >= missed, NEW s \in Sessions \ page.tombstones
         PROVE  RightRow(Log, page', a, s)
    <3>1. Fit(page', daemon) /\ page'.epoch = daemon.epoch /\ Tracks(Log, Gone, page', missed, s)
      BY <1>1, <2>6, <2>9, <2>10 DEF IInv
    <3>2. page'.marker[s] >= a \/ (~Needing(page'.rows[s]) /\ ~Needing(Said(Log, a, s)))
      BY <1>2, <2>5, <2>7, <2>10
    <3>3. a <= LogHead
      BY <2>7, <2>10
    <3> QED BY <1>1, <1>2, <1>3, <2>10, <3>1, <3>2, <3>3, ReadIsRight
  <2>11. Tracked(page', missed')
    BY <1>1, <2>6, <2>9 DEF Tracked
  <2>12. Righted(page', missed', read')
    BY <1>1, <2>1, <2>6, <2>10 DEF Righted
  <2> QED BY <1>1, <2>4, <2>8, <2>11, <2>12, PageMovesAll DEF KInv
<1> QED BY <1>4, <1>5

\* A listing or a detail is taken by the row of s, or leaves what it says alone.
RowTaken(e, c, answer, s) ==
    /\ \/ /\ answer.epoch = c.epoch /\ answer.sequence >= c.marker[s]
          /\ e.marker[s] = answer.sequence
          /\ \/ e.rows[s] = answer.pending[s]
             \/ e.rows[s] \in {NoRow, Unknown} /\ answer.pending[s] = Null
       \/ /\ e.marker[s] = c.marker[s]
          /\ \/ e.rows[s] = c.rows[s]
             \/ e.rows[s] = Unknown /\ c.rows[s] = NoRow
             \/ e.rows[s] = NoRow /\ s \in Gone
    /\ \/ e.last[s] = c.last[s]
       \/ e.last[s] = answer.sequence /\ e.marker[s] >= answer.sequence

Taken(e, c, answer) ==
    /\ e \in Pages /\ e.epoch = c.epoch /\ e.at = c.at
    /\ e.tombstones = c.tombstones /\ e.raised = c.raised
    /\ \A s \in Sessions : RowTaken(e, c, answer, s)
    /\ \A s \in Sessions : Needing(c.rows[s]) => Needing(e.rows[s]) \/ e.rows[s] \in {Null, NoRow}

LEMMA ListIs ==
    ASSUME NEW c \in Pages, NEW baseline, NEW adopting, NEW answer,
           answer.pending \in [Sessions -> Summaries], answer.sequence \in Int,
           answer.epoch = c.epoch, answer.gone \subseteq Gone
    PROVE  Taken(ApplyList(c, answer, baseline, adopting), c, answer)
<1> DEFINE removed == {s \in Sessions : s \in c.tombstones
                                        \/ (c.rows[s] = NoRow /\ baseline[s] # NoRow)}
           listed == Sessions \ (answer.gone \cup removed)
           dropped == {s \in answer.gone : c.rows[s] = baseline[s]}
           adopted == {s \in listed : adopting /\ Accepts(c, s, answer.sequence)}
           rows == [s \in Sessions |-> IF s \in adopted THEN answer.pending[s]
                                       ELSE IF s \in dropped THEN NoRow
                                       ELSE IF s \in listed /\ c.rows[s] = NoRow THEN Unknown
                                       ELSE c.rows[s]]
           marker == [s \in Sessions |-> IF s \in adopted THEN answer.sequence ELSE c.marker[s]]
           e == [c EXCEPT !.rows = rows, !.marker = marker]
<1>1. ApplyList(c, answer, baseline, adopting) = e
  BY DEF ApplyList, Pages
<1>2. /\ dropped \subseteq Gone
      /\ \A s \in adopted : answer.sequence >= c.marker[s]
  BY DEF Accepts
<1> HIDE DEF adopted, dropped, listed
<1>3. rows \in [Sessions -> Rows] /\ marker \in [Sessions -> Int]
  BY KnownRows DEF Pages
<1>4. \A s \in Sessions :
         \/ /\ answer.sequence >= c.marker[s] /\ marker[s] = answer.sequence
            /\ rows[s] = answer.pending[s]
         \/ /\ marker[s] = c.marker[s]
            /\ \/ rows[s] = c.rows[s]
               \/ rows[s] = Unknown /\ c.rows[s] = NoRow
               \/ rows[s] = NoRow /\ s \in Gone
  BY <1>2
<1> HIDE DEF rows, marker
<1>5. /\ e \in Pages /\ e.epoch = c.epoch /\ e.at = c.at /\ e.last = c.last
      /\ e.tombstones = c.tombstones /\ e.raised = c.raised
      /\ e.rows = rows /\ e.marker = marker
  BY <1>3 DEF Pages
<1> HIDE DEF e
<1>6. \A s \in Sessions : RowTaken(e, c, answer, s)
  BY <1>4, <1>5 DEF RowTaken
<1>7. \A s \in Sessions : Needing(c.rows[s]) => Needing(e.rows[s]) \/ e.rows[s] \in {Null, NoRow}
  BY <1>4, <1>5, SummaryShows
<1> QED BY <1>1, <1>5, <1>6, <1>7 DEF Taken

\* No row that there was goes.
Remains(e, c) == \A s \in Sessions : e.rows[s] = NoRow => c.rows[s] = NoRow

LEMMA SampledIs ==
    ASSUME NEW c \in Pages, NEW s \in Sessions, NEW answer,
           answer.pending \in [Sessions -> Summaries], answer.sequence \in Int,
           answer.epoch = c.epoch
    PROVE  LET e == Sampled(c, s, answer.sequence, answer.pending[s])
           IN  Taken(e, c, answer) /\ Remains(e, c)
<1> DEFINE n == answer.sequence
           d == IF Accepts(c, s, n)
                THEN [c EXCEPT !.marker[s] = n, !.rows = Observe(@, s, answer.pending[s])]
                ELSE c
           last == Max({c.last[s], n})
           e == [d EXCEPT !.last[s] = last]
<1>1. c.last[s] \in Int /\ c.marker[s] \in Int /\ n \in Int
  BY DEF Pages
<1>2. last \in {c.last[s], n}
  <2>1. IsFiniteSet({c.last[s]})
    BY FS_Singleton
  <2>2. IsFiniteSet({c.last[s]} \cup {n})
    BY <2>1, FS_AddElement
  <2>3. {c.last[s]} \cup {n} = {c.last[s], n} /\ {c.last[s], n} \in SUBSET Int
    BY <1>1
  <2> QED BY <2>2, <2>3, HasMax
<1> HIDE DEF last, n
<1>3. answer.pending[s] \in Summaries /\ answer.pending[s] \in Rows
  BY KnownRows
<1>4. /\ d \in Pages /\ d.epoch = c.epoch /\ d.at = c.at /\ d.last = c.last
      /\ d.tombstones = c.tombstones /\ d.raised = c.raised
      /\ \A t \in Sessions \ {s} : d.rows[t] = c.rows[t] /\ d.marker[t] = c.marker[t]
      /\ \/ c.marker[s] > n /\ d.rows[s] = c.rows[s] /\ d.marker[s] = c.marker[s]
         \/ /\ n >= c.marker[s] /\ d.marker[s] = n
            /\ \/ d.rows[s] = answer.pending[s]
               \/ d.rows[s] = NoRow /\ c.rows[s] = NoRow /\ answer.pending[s] = Null
  <2>1. CASE Accepts(c, s, n)
    <3>1. Observe(c.rows, s, answer.pending[s]) \in [Sessions -> Rows]
      BY <1>3 DEF Pages, Observe
    <3>2. [c.marker EXCEPT ![s] = n] \in [Sessions -> Int]
      BY <1>1 DEF Pages
    <3>3. d = [c EXCEPT !.marker = [c.marker EXCEPT ![s] = n],
                        !.rows = Observe(c.rows, s, answer.pending[s])]
      BY <2>1 DEF Pages
    <3>4. /\ d \in Pages /\ d.epoch = c.epoch /\ d.at = c.at /\ d.last = c.last
          /\ d.tombstones = c.tombstones /\ d.raised = c.raised
          /\ d.marker = [c.marker EXCEPT ![s] = n]
          /\ d.rows = Observe(c.rows, s, answer.pending[s])
      BY <3>1, <3>2, <3>3 DEF Pages
    <3> HIDE DEF d
    <3> QED BY <2>1, <3>4 DEF Observe, Pages, Accepts
  <2>2. CASE ~Accepts(c, s, n)
    <3>1. c.marker[s] > n
      BY <1>1, <2>2 DEF Accepts
    <3> QED BY <2>2, <3>1
  <2> QED BY <2>1, <2>2
<1>5. Sampled(c, s, n, answer.pending[s]) = e
  BY <1>4 DEF Sampled, last
<1> HIDE DEF d
<1>6. /\ e \in Pages /\ e.epoch = c.epoch /\ e.at = c.at
      /\ e.tombstones = c.tombstones /\ e.raised = c.raised
      /\ e.marker = d.marker /\ e.last = [c.last EXCEPT ![s] = last] /\ e.rows = d.rows
  <2>1. [c.last EXCEPT ![s] = last] \in [Sessions -> Int]
    BY <1>1, <1>2 DEF Pages
  <2> QED BY <1>4, <2>1 DEF Pages
<1> HIDE DEF e
<1>7. /\ e.rows[s] = d.rows[s] /\ e.marker[s] = d.marker[s] /\ e.last[s] = last
      /\ \A t \in Sessions \ {s} :
            e.rows[t] = c.rows[t] /\ e.marker[t] = c.marker[t] /\ e.last[t] = c.last[t]
  BY <1>4, <1>6 DEF Pages
<1>8. RowTaken(e, c, answer, s)
  <2>1. d.marker[s] >= n
    BY <1>1, <1>4
  <2>2. CASE c.marker[s] > n /\ d.rows[s] = c.rows[s] /\ d.marker[s] = c.marker[s]
    BY <1>1, <1>2, <1>7, <2>1, <2>2 DEF RowTaken, n
  <2>3. CASE /\ n >= c.marker[s] /\ d.marker[s] = n
             /\ \/ d.rows[s] = answer.pending[s]
                \/ d.rows[s] = NoRow /\ answer.pending[s] = Null
    BY <1>1, <1>2, <1>7, <2>1, <2>3 DEF RowTaken, n
  <2> QED BY <1>4, <2>2, <2>3
<1>9. \A t \in Sessions : RowTaken(e, c, answer, t)
  BY <1>7, <1>8 DEF RowTaken
<1>10. \A t \in Sessions : Needing(c.rows[t]) => Needing(e.rows[t]) \/ e.rows[t] \in {Null, NoRow}
  <2>1. Needing(c.rows[s]) => Needing(d.rows[s]) \/ d.rows[s] \in {Null, NoRow}
    BY <1>3, <1>4, SummaryShows
  <2> QED BY <1>7, <2>1
<1>11. Remains(e, c)
  <2>1. answer.pending[s] # NoRow
    BY <1>3, KnownRows, SummaryShows
  <2> QED BY <1>4, <1>7, <2>1 DEF Remains
<1> QED BY <1>5, <1>6, <1>9, <1>10, <1>11 DEF Taken, n

LEMMA DetailIs ==
    ASSUME NEW c \in Pages, NEW s \in Sessions, NEW answer,
           answer.pending \in [Sessions -> Summaries], answer.sequence \in Int,
           answer.epoch = c.epoch
    PROVE  /\ Taken(ApplyDetail(c, s, answer), c, answer)
           /\ Remains(ApplyDetail(c, s, answer), c)
<1> DEFINE h == Sampled(c, s, answer.sequence, answer.pending[s])
           rows == [h.rows EXCEPT ![s] = IF h.rows[s] = NoRow THEN Unknown ELSE h.rows[s]]
           e == [h EXCEPT !.rows = rows]
<1>1. Taken(h, c, answer) /\ Remains(h, c)
  BY SampledIs
<1>2. h \in Pages
  BY <1>1 DEF Taken
<1>3. ApplyDetail(c, s, answer) = e
  BY <1>2 DEF ApplyDetail, Pages
<1> HIDE DEF h
<1>4. rows \in [Sessions -> Rows]
  BY <1>2, KnownRows DEF Pages
<1>5. \A t \in Sessions : rows[t] = h.rows[t] \/ (rows[t] = Unknown /\ h.rows[t] = NoRow)
  BY <1>2 DEF Pages
<1> HIDE DEF rows
<1>6. /\ e \in Pages /\ e.epoch = h.epoch /\ e.at = h.at /\ e.last = h.last
      /\ e.tombstones = h.tombstones /\ e.raised = h.raised
      /\ e.marker = h.marker /\ e.rows = rows
  BY <1>2, <1>4 DEF Pages
<1> HIDE DEF e
<1>7. ASSUME NEW t \in Sessions
      PROVE  RowTaken(e, c, answer, t)
  <2>1. RowTaken(h, c, answer, t) /\ (h.rows[t] = NoRow => c.rows[t] = NoRow)
    BY <1>1 DEF Taken, Remains
  <2>2. CASE rows[t] = h.rows[t]
    BY <1>6, <2>1, <2>2 DEF RowTaken
  <2>3. CASE rows[t] = Unknown /\ h.rows[t] = NoRow
    <3>1. answer.pending[t] # NoRow
      BY KnownRows, SummaryShows
    <3> QED BY <1>6, <2>1, <2>3, <3>1 DEF RowTaken
  <2> QED BY <1>5, <2>2, <2>3
<1>8. \A t \in Sessions : Needing(c.rows[t]) => Needing(e.rows[t]) \/ e.rows[t] \in {Null, NoRow}
  BY <1>1, <1>5, <1>6, SummaryShows DEF Taken, Remains
<1>9. Remains(e, c)
  BY <1>1, <1>5, <1>6 DEF Remains
<1> QED BY <1>1, <1>3, <1>6, <1>7, <1>8, <1>9 DEF Taken

\* A listing, a detail or a snapshot that changes a row opens what the page missed, or
\* is not older than it, or not older than the page's cursor.
Reopened(stale, answer, h) ==
    /\ stale \in BOOLEAN
    /\ read' = (IF stale THEN -1 ELSE read) /\ lapsed' = (lapsed \/ stale)
    /\ missed' = missed
    /\ stale => h.rows # page.rows
    /\ \/ stale \/ h.rows = page.rows
       \/ ~(answer.sequence < missed \/ (page.at = -1 /\ answer.sequence < read))
       \/ page.at # -1 /\ answer.sequence >= page.at

LEMMA ReopensIs ==
    ASSUME NEW answer, NEW h, Reopens(answer, h)
    PROVE  \E stale \in BOOLEAN : Reopened(stale, answer, h)
<1> DEFINE stale == /\ h.rows # page.rows
                    /\ answer.sequence < missed \/ (page.at = -1 /\ answer.sequence < read)
<1>1. stale \in BOOLEAN
  OBVIOUS
<1>2. Reopened(stale, answer, h)
  BY DEF Reopens, Reopened
<1> QED BY <1>1, <1>2

LEMMA TakenKeepsAll ==
    ASSUME KInv, IInv', UNCHANGED <<daemon, fetch>>, NEW answer, NEW h, NEW stale,
           Taken(h, page, answer), page' = Reconciled(h), Reopened(stale, answer, h),
           unseated \cup Unseats(h) \subseteq unseated',
           Truthful(answer, daemon), list'.answer.gone \subseteq Gone,
           answer.epoch # page.epoch => h = page
    PROVE  KInv'
<1> DEFINE a == answer.sequence
<1>1. /\ IInv /\ Quiet(daemon) /\ page \in Pages /\ daemon.epoch \in Nat \ {0}
      /\ read' = (IF stale THEN -1 ELSE read) /\ lapsed' = (lapsed \/ stale)
      /\ missed' = missed
  BY DEF KInv, IInv, Fit, Reopened, Daemons, Epochs
<1>2. /\ missed \in Nat /\ read \in Int /\ lapsed \in BOOLEAN
      /\ page.epoch = 0 => fetch = NoFetch /\ read = -1 /\ missed = 0
      /\ fetch.step = "idle" => fetch = NoFetch
      /\ page.epoch = daemon.epoch => Owed(page, fetch, missed, read, lapsed)
  BY DEF KInv, Fetching
<1>3. SameRows(page', h) /\ h \in Pages
  BY ReconciledIs DEF Taken
<1>4. /\ page'.epoch = page.epoch /\ page'.at = page.at /\ page'.tombstones = page.tombstones
      /\ page'.rows = h.rows /\ page'.marker = h.marker /\ page'.last = h.last
      /\ page.at \in Int
      /\ \A s \in Sessions : RowTaken(page', page, answer, s)
      /\ \A s \in Sessions : page.marker[s] \in Int /\ page.last[s] \in Int
  BY <1>1, <1>3 DEF Taken, SameRows, RowTaken, Pages
<1>5. Alerted(page', unseated')
  <2>1. /\ page.tombstones \subseteq Gone /\ page.raised \cap page.tombstones \subseteq unseated
        /\ \A s \in page.raised \ unseated : s \in Sessions /\ Needing(page.rows[s])
    BY <1>1 DEF KInv, Alerted, Pages
  <2>2. ASSUME NEW s \in h.raised \ unseated'
        PROVE  Needing(h.rows[s]) \/ (h.rows[s] = Null /\ Needing(page.rows[s]))
    <3>1. s \in page.raised \ unseated
      BY DEF Taken
    <3>2. Needing(page.rows[s]) /\ page.rows[s] # NoRow
      BY <2>1, <3>1, SummaryShows
    <3>3. h.rows[s] # NoRow
      BY <3>1, <3>2 DEF Unseats
    <3> QED BY <2>1, <3>1, <3>2, <3>3 DEF Taken
  <2>3. h.tombstones \subseteq Gone /\ h.raised \cap h.tombstones \subseteq unseated'
    BY <2>1 DEF Taken
  <2> QED BY <1>3, <2>2, <2>3, ReconciledAlerts
<1>6. page.epoch = 0 => ~stale
  BY DEF Truthful, Reopened
<1>7. fetch.step = "answered" => fetch.answer.sequence \in Nat
  BY <1>1 DEF IInv, Fetches, Answers
<1>8. stale \in BOOLEAN
  BY DEF Reopened
<1>9. answer.epoch = daemon.epoch =>
         /\ a \in 0 .. LogHead /\ LogHead \in Nat
         /\ \A s \in Sessions : answer.pending[s] = Said(Log, a, s)
  <2>1. Log \in Seq(Events)
    BY <1>1 DEF IInv, Daemons, Log, Epochs
  <2> QED BY <2>1 DEF Truthful, Log, LogHead
<1>10. ~stale => \/ h.rows = page.rows
                 \/ ~(a < missed \/ (page.at = -1 /\ a < read))
                 \/ page.at # -1 /\ a >= page.at
  BY DEF Reopened
<1>12. Fetching(page', fetch', missed', read', lapsed')
  <2>1. read' \in Int /\ lapsed' \in BOOLEAN
    BY <1>1, <1>2, <1>8
  <2>2. page.epoch = daemon.epoch => Owed(page', fetch', missed', read', lapsed')
    <3>1. CASE stale /\ page.epoch = daemon.epoch
      <4>1. Owed(page, fetch, missed, read, lapsed) /\ read' = -1 /\ lapsed' = TRUE
        BY <1>1, <1>2, <3>1
      <4>2. LogHead \in Nat
        BY <1>1, <3>1, PageNow DEF IInv
      <4> QED BY <1>1, <1>4, <1>7, <4>1, <4>2 DEF Owed
    <3>2. CASE ~stale /\ page.epoch = daemon.epoch
      <4>1. Owed(page, fetch, missed, read, lapsed) /\ read' = read /\ lapsed' = lapsed
        BY <1>1, <1>2, <3>2
      <4> QED BY <1>1, <1>4, <4>1 DEF Owed
    <3> QED BY <1>8, <3>1, <3>2
  <2> QED BY <1>1, <1>2, <1>4, <1>6, <2>1, <2>2 DEF Fetching
<1>13. ASSUME page.epoch = daemon.epoch, NEW s \in Sessions \ page.tombstones
       PROVE  Tracks(Log, Gone, page', missed, s)
  <2>1. Tracks(Log, Gone, page, missed, s) /\ RowTaken(page', page, answer, s)
    BY <1>4, <1>13 DEF KInv, Tracked
  <2>2. page'.marker[s] >= page.marker[s] /\ page'.marker[s] \in Int
    BY <1>4, <1>9, <1>13, <2>1 DEF RowTaken
  <2>3. page'.last[s] > page'.at => page'.marker[s] >= page'.last[s]
    BY <1>4, <2>1, <2>2 DEF RowTaken, Tracks
  <2>4. MarkedEmpty(Log, Gone, page', s)
    <3>1. CASE answer.epoch = page.epoch /\ page'.marker[s] = a /\ page'.rows[s] = answer.pending[s]
      <4>1. answer.pending[s] \in Summaries
        BY <1>13 DEF Truthful
      <4> QED BY <3>1, <4>1, SummaryShows DEF MarkedEmpty
    <3>2. CASE answer.epoch = page.epoch /\ page'.marker[s] = a /\ answer.pending[s] = Null
      BY <1>9, <1>13, <3>2 DEF MarkedEmpty
    <3>3. CASE page'.marker[s] = page.marker[s] /\ page'.rows[s] = page.rows[s]
      BY <2>1, <3>3 DEF MarkedEmpty, Tracks
    <3>4. CASE page'.marker[s] = page.marker[s] /\ page.rows[s] = NoRow
      BY <2>1, <3>4, KnownRows DEF MarkedEmpty, Tracks
    <3>5. CASE s \in Gone
      BY <3>5 DEF MarkedEmpty
    <3> QED BY <2>1, <3>1, <3>2, <3>3, <3>4, <3>5 DEF RowTaken
  <2>5. Followed(Log, page, missed, s) => Followed(Log, page', missed, s)
    BY <1>2, <1>4, <1>13, <2>2 DEF Followed
  <2> QED BY <1>4, <2>1, <2>3, <2>4, <2>5 DEF Tracks
<1>14. ASSUME page.epoch = daemon.epoch, read' >= missed, NEW s \in Sessions \ page.tombstones
       PROVE  RightRow(Log, page', read, s)
  <2>1. ~stale /\ read >= missed
    BY <1>1, <1>2, <1>8, <1>14
  <2>2. RightRow(Log, page, read, s)
    BY <1>14, <2>1 DEF KInv, Righted
  <2>3. /\ page.at \in -1 .. LogHead /\ LogHead \in Nat /\ LogHead = Len(Log)
        /\ read <= LogHead
    BY <1>1, <1>2, <1>14, PageNow DEF IInv, LogHead, Owed
  <2>4. Fit(page', daemon) /\ Tracks(Log, Gone, page', missed, s)
    BY <1>13, <1>14 DEF IInv
  <2>5. CASE Shows(page'.rows[s]) = Shows(page.rows[s])
    BY <1>4, <2>2, <2>5 DEF RightRow, Timely, FloorOf
  <2>6. CASE h.rows # page.rows /\ answer.epoch = page.epoch /\ page'.marker[s] = a
    <3>1. /\ a \in Nat
          /\ (a >= missed /\ (page.at = -1 => a >= read)) \/ (page.at # -1 /\ a >= page.at)
      BY <1>2, <1>4, <1>9, <1>10, <1>14, <2>1, <2>6
    <3>2. /\ page'.marker[s] >= 0
          /\ page'.marker[s] >= FloorOf(page', read) \/ (page'.at # -1 /\ page'.marker[s] >= missed)
      BY <1>4, <2>6, <3>1 DEF FloorOf
    <3> QED BY <1>1, <1>2, <1>4, <1>14, <2>3, <2>4, <3>2, MarkedIsRight
  <2>7. CASE page'.rows[s] = NoRow /\ s \in Gone
    <3>1. Shows(page'.rows[s]) = Shows(Said(Log, LogHead, s))
      BY <1>1, <2>7, GoneSaysNothing, SummaryShows
    <3>2. LogHead >= FloorOf(page', read) /\ LogHead \in 0 .. Len(Log)
      BY <1>4, <2>3 DEF FloorOf
    <3> QED BY <3>1, <3>2 DEF RightRow, Timely
  <2>8. \/ answer.epoch = page.epoch /\ page'.marker[s] = a
        \/ page'.rows[s] = page.rows[s] \/ (page'.rows[s] = Unknown /\ page.rows[s] = NoRow)
        \/ page'.rows[s] = NoRow /\ s \in Gone
    BY <1>4 DEF RowTaken
  <2> QED BY <1>4, <2>5, <2>6, <2>7, <2>8, SummaryShows
<1>15. Tracked(page', missed')
  BY <1>1, <1>4, <1>13 DEF Tracked
<1>16. Righted(page', missed', read')
  <2>1. read' >= missed => read' = read
    BY <1>1, <1>2, <1>8
  <2> QED BY <1>1, <1>4, <1>14, <2>1 DEF Righted
<1> QED BY <1>5, <1>12, <1>15, <1>16, PageMovesAll

LEMMA NothingTaken ==
    ASSUME NEW c \in Pages, NEW answer
    PROVE  Taken(c, c, answer)
BY DEF Taken, RowTaken

LEMMA CommitListKeepsAll ==
    ASSUME KInv, CommitList
    PROVE  KInv'
<1> DEFINE answer == list.answer
           H(adopting) == IF answer.epoch = page.epoch
                          THEN ApplyList(page, answer, list.baseline, adopting) ELSE page
<1>0. PICK adopting \in BOOLEAN :
         /\ page' = Reconciled(H(adopting)) /\ Reopens(answer, H(adopting))
         /\ unseated' = unseated \cup Unseats(H(adopting))
  BY DEF CommitList, Becomes
<1> DEFINE h == H(adopting)
<1>1. /\ IInv' /\ IInv /\ page \in Pages /\ Truthful(answer, daemon)
      /\ page' = Reconciled(h) /\ Reopens(answer, h) /\ list' = NoList
      /\ unseated \cup Unseats(h) \subseteq unseated'
      /\ UNCHANGED <<daemon, fetch>>
  BY <1>0, CommitListKeeps DEF KInv, CommitList, Becomes, IInv, Fit, AnswersTruthful
<1>2. answer.gone \subseteq Gone /\ list'.answer.gone \subseteq Gone
  BY <1>1 DEF KInv, NoList, NoAnswer
<1>3. answer.sequence \in Int /\ answer.pending \in [Sessions -> Summaries]
  <2>1. \A k \in 1 .. daemon.epoch : Len(daemon.log[k]) \in Nat
    <3>1. \A k \in 1 .. daemon.epoch : daemon.log[k] \in Seq(Events)
      BY <1>1, InputAssumption DEF IInv, Daemons, Epochs
    <3> QED BY <3>1
  <2> QED BY <1>1, <2>1 DEF Truthful
<1>4. Taken(h, page, answer)
  BY <1>1, <1>2, <1>3, ListIs, NothingTaken
<1>5. answer.epoch # page.epoch => h = page
  OBVIOUS
<1> HIDE DEF h, H, answer
<1>6. PICK stale \in BOOLEAN : Reopened(stale, answer, h)
  BY <1>1, ReopensIs
<1> QED BY <1>1, <1>2, <1>4, <1>5, <1>6, TakenKeepsAll

LEMMA CommitDetailKeepsAll ==
    ASSUME KInv, CommitDetail
    PROVE  KInv'
<1> DEFINE answer == detail.answer
           s == detail.session
           h == IF s \in page.tombstones \/ answer.epoch # page.epoch
                THEN page ELSE ApplyDetail(page, s, answer)
<1>1. /\ IInv' /\ IInv /\ page \in Pages /\ Truthful(answer, daemon) /\ s \in Sessions
      /\ page' = Reconciled(h) /\ Reopens(answer, h)
      /\ UNCHANGED <<daemon, fetch, list, unseated>>
  BY CommitDetailKeeps DEF KInv, CommitDetail, Becomes, IInv, Fit, AnswersTruthful
<1>2. list'.answer.gone \subseteq Gone
  BY <1>1 DEF KInv
<1>3. answer.sequence \in Int /\ answer.pending \in [Sessions -> Summaries]
  <2>1. \A k \in 1 .. daemon.epoch : Len(daemon.log[k]) \in Nat
    <3>1. \A k \in 1 .. daemon.epoch : daemon.log[k] \in Seq(Events)
      BY <1>1, InputAssumption DEF IInv, Daemons, Epochs
    <3> QED BY <3>1
  <2> QED BY <1>1, <2>1 DEF Truthful
<1>4. Taken(h, page, answer) /\ Remains(h, page)
  BY <1>1, <1>3, DetailIs, NothingTaken DEF Remains
<1>5. answer.epoch # page.epoch => h = page
  OBVIOUS
<1> HIDE DEF h, answer, s
<1>6. PICK stale \in BOOLEAN : Reopened(stale, answer, h)
  BY <1>1, ReopensIs
<1>7. unseated \cup Unseats(h) \subseteq unseated'
  BY <1>1, <1>4 DEF Unseats, Remains, Pages
<1> QED BY <1>1, <1>2, <1>4, <1>5, <1>6, <1>7, TakenKeepsAll

\* A snapshot says what the log does at the page's cursor: no row needs more.
LEMMA SnapshotKeepsAll ==
    ASSUME KInv, NEW s \in Sessions, Snapshot(s)
    PROVE  KInv'
<1> DEFINE answer == [epoch |-> page.epoch, sequence |-> page.at,
                      pending |-> [t \in Sessions |-> Said(Log, page.at, t)]]
           h == Sampled(page, s, page.at, AsOf(page.epoch, page.at, s))
<1>1. /\ IInv' /\ IInv /\ page \in Pages /\ page' = Reconciled(h)
      /\ UNCHANGED <<daemon, fetch, list, missed, read, lapsed, unseated>>
  BY SnapshotKeeps DEF KInv, Snapshot, Becomes, OtherThanPage, IInv, Fit
<1>2. /\ answer.epoch = page.epoch /\ answer.sequence = page.at /\ page.at >= 0
      /\ answer.sequence \in Int /\ answer.pending \in [Sessions -> Summaries]
      /\ answer.pending[s] = AsOf(page.epoch, page.at, s)
      /\ Truthful(answer, daemon)
  <2>1. answer.pending \in [Sessions -> Summaries]
    BY <1>1, SnapshotSays
  <2>2. \A t \in Sessions : answer.pending[t] = Said(Log, page.at, t)
    OBVIOUS
  <2>3. page.at \in Int /\ page.at >= 0
    BY <1>1 DEF Pages, Snapshot, IInv, Fit, Behind
  <2>4. answer.epoch = page.epoch /\ answer.sequence = page.at
    OBVIOUS
  <2> HIDE DEF answer
  <2> QED BY <1>1, <2>1, <2>2, <2>3, <2>4, SnapshotSays DEF Truthful
<1> HIDE DEF answer
<1>3. h = Sampled(page, s, answer.sequence, answer.pending[s])
  BY <1>2
<1> HIDE DEF h
<1>4. Taken(h, page, answer) /\ Remains(h, page)
  BY <1>1, <1>2, <1>3, SampledIs
<1>5. Reopened(FALSE, answer, h)
  <2>1. read' = (IF FALSE THEN -1 ELSE read) /\ lapsed' = (lapsed \/ FALSE)
    BY <1>1 DEF KInv, Fetching
  <2>2. page.at # -1 /\ answer.sequence >= page.at
    BY <1>2
  <2> QED BY <1>1, <2>1, <2>2 DEF Reopened
<1>6. unseated \cup Unseats(h) \subseteq unseated'
  BY <1>1, <1>4 DEF Unseats, Remains, Pages
<1>7. list'.answer.gone \subseteq Gone
  BY <1>1 DEF KInv
<1> QED BY <1>1, <1>2, <1>4, <1>5, <1>6, <1>7, TakenKeepsAll

-----------------------------------------------------------------------------
LEMMA InitHoldsAll == Init => KInv
<1> SUFFICES ASSUME Init PROVE KInv
  OBVIOUS
<1>1. IInv
  BY InitHolds
<1>2. /\ daemon.epoch = 1 /\ daemon.log[1] = <<>> /\ Len(<<>>) = 0
      /\ \A s \in Sessions : daemon.open[s] = {} /\ daemon.phase[s] = "live"
  BY InputAssumption DEF Init, Epochs
<1>3. Quiet(daemon)
  BY <1>2 DEF Quiet
<1>4. Alerted(page, unseated) /\ list.answer.gone \subseteq Gone
  BY DEF Init, Alerted, NoList, NoAnswer
<1>5. Fetching(page, fetch, missed, read, lapsed) /\ page.epoch # daemon.epoch
  <2>1. page.epoch = 0 /\ fetch = NoFetch /\ missed = 0 /\ read = -1
    BY DEF Init
  <2>2. lapsed \in BOOLEAN
    BY DEF Init
  <2>3. missed \in Nat /\ read \in Int /\ page.epoch # daemon.epoch
    BY <1>2, <2>1
  <2> QED BY <2>1, <2>2, <2>3 DEF Fetching
<1> QED BY <1>1, <1>3, <1>4, <1>5 DEF KInv, Tracked, Righted

LEMMA StepKeepsAll == KInv /\ [Next]_vars => KInv'
<1> SUFFICES ASSUME KInv, [Next]_vars PROVE KInv'
  OBVIOUS
<1>1. ASSUME NEW s \in Sessions,
             OpenRequest(s) \/ Settle(s) \/ Reload(s) \/ BeginClose(s) \/ EndClose(s)
      PROVE  KInv'
  BY <1>1, DaemonKeepsAll
<1>2. CASE Restart
  BY <1>2, RestartKeepsAll
<1>3. CASE Connect
  BY <1>3, OpenKeepsAll, AttachKeepsAll DEF Connect
<1>4. CASE Receive
  BY <1>4, ReceiveKeepsAll
<1>5. CASE Disconnect \/ \E s \in Sessions : DismissAlert(s) \/ NoticeGone(s)
  BY <1>5, PageKeepsAll
<1>6. CASE AnswerFetch \/ CommitFetch \/ FailFetch
  BY <1>6, AnswerFetchKeepsAll, CommitFetchKeepsAll, FailFetchKeepsAll
<1>7. CASE AskList \/ \E s \in Sessions : AskDetail(s)
  BY <1>7, AskKeepsAll
<1>8. CASE CommitList
  BY <1>8, CommitListKeepsAll
<1>9. CASE CommitDetail
  BY <1>9, CommitDetailKeepsAll
<1>10. ASSUME NEW s \in Sessions, Snapshot(s) PROVE KInv'
  BY <1>10, SnapshotKeepsAll
<1>11. CASE UNCHANGED vars
  <2>1. IInv' /\ UNCHANGED <<daemon, page, fetch, list, missed, read, lapsed, unseated>>
    BY <1>11, StepKeeps DEF KInv, vars
  <2>2. /\ Alerted(page', unseated') /\ list'.answer.gone \subseteq Gone
        /\ Fetching(page', fetch', missed', read', lapsed')
        /\ Tracked(page', missed') /\ Righted(page', missed', read')
    BY <2>1 DEF KInv
  <2> QED BY <2>1, <2>2, PageMovesAll
<1> QED BY <1>1, <1>2, <1>3, <1>4, <1>5, <1>6, <1>7, <1>8, <1>9, <1>10, <1>11 DEF Next

LEMMA AllHolds == Spec => []KInv
BY InitHoldsAll, StepKeepsAll, PTL DEF Spec

\* MissIsFetched: whatever a page missed when it attached, a list that covers it is in
\* flight, or will be asked for when the one in flight settles, unless nothing told the
\* page or the fetch failed (refreshPendingInputList coalesces its triggers).
THEOREM MissesAreFetched == Spec => []MissIsFetched
<1>1. KInv => MissIsFetched
  <2> SUFFICES ASSUME KInv, read < missed, page.attached
               PROVE  fetch.step # "idle" \/ lapsed
    BY DEF MissIsFetched
  <2>1. page.epoch = daemon.epoch
    BY DEF KInv, IInv, Fit, Behind
  <2> QED BY <2>1 DEF KInv, Fetching, Owed
<1> QED BY <1>1, AllHolds, PTL

LEMMA CaughtUpIsRight ==
    ASSUME KInv, CaughtUp, NEW s \in Sessions \ page.tombstones
    PROVE  Shown(s) = Index(s)
<1>1. page.epoch = daemon.epoch /\ page.at = LogHead /\ read >= missed
  BY DEF KInv, IInv, Fit, Behind, CaughtUp
<1>2. LogHead \in Nat /\ LogHead = Len(Log) /\ daemon \in Daemons
  BY <1>1, PageNow DEF KInv, IInv, LogHead
<1>3. RightRow(Log, page, read, s)
  BY <1>1 DEF KInv, Righted
<1>4. ~Ends(Log, page.at, s)
  BY <1>1, <1>2 DEF Ends
<1>5. PICK n \in 0 .. Len(Log) :
         n >= FloorOf(page, read) /\ Shows(page.rows[s]) = Shows(Said(Log, n, s))
  BY <1>3, <1>4 DEF RightRow, Timely
<1>6. n = LogHead
  BY <1>1, <1>2, <1>5 DEF FloorOf
<1>7. Said(Log, LogHead, s) = Index(s) /\ Index(s) \in Summaries
  BY <1>2 DEF KInv, IInv, IndexIsLogged, Index, Log, LogHead, Daemons, Summaries
<1> QED BY <1>5, <1>6, <1>7, SummaryShows DEF Shown, Shows

\* BadgesTrue: a page that has every event, or has read the list since it missed some,
\* shows exactly the sessions that wait for the user, although reads of its own are in
\* flight and others came late.
THEOREM BadgesAreTrue == Spec => []BadgesTrue
<1>1. KInv => BadgesTrue
  BY CaughtUpIsRight DEF BadgesTrue
<1> QED BY <1>1, AllHolds, PTL

\* AlertsEnd: on such a page no alert stands for a session that does not wait any more,
\* be it deleted, unless a listing without the session dropped its row under the alert
\* (NeedsInputAlerts looks only at rows, and commitDeletion clears only waiting ones).
THEOREM AlertsAreTakenDown == Spec => []AlertsEnd
<1>1. KInv => AlertsEnd
  <2> SUFFICES ASSUME KInv, CaughtUp, NEW s \in page.raised \ unseated
               PROVE  Needing(Index(s))
    BY DEF AlertsEnd
  <2>1. s \in Sessions \ page.tombstones /\ Needing(page.rows[s])
    BY DEF KInv, Alerted, IInv, Fit, Pages
  <2> QED BY <2>1, CaughtUpIsRight DEF Shown
<1> QED BY <1>1, AllHolds, PTL
=============================================================================
