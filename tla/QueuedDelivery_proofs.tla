------------------------ MODULE QueuedDelivery_proofs ------------------------
(***************************************************************************)
(* On a single page no queued message runs twice, none is dropped, and the *)
(* scanner's follow-ups run in the order of the queue, for any number of   *)
(* messages, daemon lifetimes, reloads and deaths of the page.             *)
(*                                                                         *)
(* None of the three is inductive.  They rest on what the mark of an entry *)
(* says of its requests: while the entry is queued, its mark names the one *)
(* request of it that Pi may have run or may still run.  Two pages of one  *)
(* origin mark their own copies of an entry, so there is OnePage to assume.*)
(***************************************************************************)
EXTENDS QueuedDelivery, TLAPS

OnePage == \E t \in Tabs : Tabs = {t}

Pages ==
    [queue : SUBSET Messages, entry : Entries, dirty : BOOLEAN, call : [Messages -> Calls],
     epoch : Epochs \cup {NoEpoch}, row : {"unknown", "idle", "busy"},
     pending : BOOLEAN, news : BOOLEAN]
Disks == [queue : SUBSET Messages, entry : Entries]
Histories ==
    [added : 0 .. MaxMessages, removed : SUBSET Messages, ran : Seq(Sends),
     interventions : Nat, lost : SUBSET Messages]
Outcomes == {"none", "sent", "executing", "accepted", "refused", "stale", "gone"}

Types ==
    /\ page \in [Tabs -> Pages]
    /\ disk \in Disks
    /\ daemon \in [epoch : Epochs, busy : BOOLEAN]
    /\ request \in [Sends -> Outcomes]
    /\ history \in Histories

\* The mark of a send.
Key(s) == [kind |-> s.kind, epoch |-> s.epoch]

\* Pi has run it, or may still.
HasRun(s) == \E i \in DOMAIN history.ran : history.ran[i] = s
Live(s) == request[s] \in {"sent", "executing"} \/ HasRun(s)

Excused == history.removed \cup history.lost

\* Storage: a queue of known messages, none both failed and marked.
Stores(q) ==
    /\ q.queue \subseteq 1 .. history.added
    /\ \A m \in Messages : q.entry[m].failed => q.entry[m].attempt = NoAttempt

\* A page that sends an entry has it queued and marked; one that has written all
\* it did is as its storage.
Works(p) ==
    /\ Stores(p)
    /\ \A m \in Messages :
          /\ p.call[m].step \in {"marked", "posted", "lookup"} =>
                m \in p.queue /\ p.entry[m].attempt = Key(p.call[m])
          /\ p.call[m].step = "claimed" =>
                m \in p.queue /\ p.entry[m].attempt = NoAttempt /\ p.epoch # NoEpoch
    /\ ~p.dirty => disk = Stored(p)

\* What ran was accepted, once each.
Receipts ==
    /\ \A i \in DOMAIN history.ran : request[history.ran[i]] \in {"accepted", "gone"}
    /\ \A i, j \in DOMAIN history.ran : history.ran[i] = history.ran[j] => i = j
    /\ \A s \in Sends : request[s] = "accepted" => HasRun(s)
    /\ \A s \in Sends : Live(s) => s.message <= history.added

\* The mark of a queued entry names the one send of it that is live.
Marked(p) ==
    \A s \in Sends :
        Live(s) /\ s.message \notin history.lost =>
            /\ s.message \in p.queue => p.entry[s.message].attempt = Key(s)
            /\ \A z \in Sends : Live(z) /\ z.message = s.message => z = s

\* The scanner has sent it, or is sending it.
Underway(p, m) ==
    \/ p.call[m].kind = "followUp"
    \/ \E s \in Sends : s.message = m /\ s.kind = "followUp" /\ Live(s)

\* No follow-up of it will run any more.
Passed(p, m) ==
    \/ m \in Excused \/ m \notin p.queue
    \/ p.entry[m].failed
    \/ p.entry[m].attempt.kind = "steer"

Ordered(p) ==
    \A m, n \in Messages : n < m /\ Underway(p, m) => m <= history.added /\ Passed(p, n)

Kept(p) ==
    \A m \in (1 .. history.added) \ Excused :
        m \in p.queue \/ \E s \in Sends : s.message = m /\ HasRun(s)

IInv ==
    /\ Types
    /\ Stores(disk)
    /\ Receipts
    /\ FollowUpsInOrder
    /\ \A t \in Tabs : Works(page[t]) /\ Marked(page[t]) /\ Ordered(page[t]) /\ Kept(page[t])

-----------------------------------------------------------------------------
(* Pages, and what the handlers make of them. *)

LEMMA PageTypes ==
    ASSUME NEW p \in Pages, NEW m \in Messages
    PROVE  /\ p.entry[m] \in [attempt : Attempts, failed : BOOLEAN]
           /\ p.entry[m].attempt \in Attempts /\ p.entry[m].failed \in BOOLEAN
           /\ p.call[m] \in Calls
           /\ p.call[m].step \in {"none", "claimed"} => p.call[m].kind = "none"
           /\ p.call[m].step \in {"none", "claimed", "marked", "posted", "lookup"}
           /\ p.call[m].step \in {"marked", "posted", "lookup"} =>
                 /\ p.call[m].kind \in Kinds /\ p.call[m].epoch \in Epochs
                 /\ Send(m, p.call[m]) \in Sends
           /\ p.call[m].step = "none" => p.call[m] = NoCall
<1>1. p.call[m] \in Calls /\ p.entry[m] \in [attempt : Attempts, failed : BOOLEAN]
  BY DEF Pages, Entries
<1>2. p.call[m].step \in {"marked", "posted", "lookup"} =>
         p.call[m].kind \in Kinds /\ p.call[m].epoch \in Epochs
  BY <1>1 DEF Calls, NoCall
<1> QED BY <1>1, <1>2 DEF Calls, NoCall, Sends, Send

LEMMA Literals ==
    /\ NoAttempt \in Attempts /\ NoAttempt.kind = "none"
    /\ Blank \in [attempt : Attempts, failed : BOOLEAN]
    /\ Blank.attempt = NoAttempt /\ Blank.failed = FALSE
    /\ NoCall \in Calls /\ NoCall.step = "none" /\ NoCall.kind = "none"
    /\ \A k \in Kinds, e \in Epochs :
          /\ [kind |-> k, epoch |-> e] \in Attempts /\ [kind |-> k, epoch |-> e] # NoAttempt
          /\ [step |-> "marked", kind |-> k, epoch |-> e] \in Calls
BY DEF NoAttempt, Attempts, Blank, NoCall, Calls, Kinds

\* Two pages with the same queue, marks and sends.
Same(p, q) == q.queue = p.queue /\ q.entry = p.entry /\ q.call = p.call

LEMMA SetsIs ==
    ASSUME NEW t, Tabs = {t}, page \in [Tabs -> Pages], NEW q \in Pages, Sets(t, q)
    PROVE  /\ page' \in [Tabs -> Pages] /\ Same(q, page'[t])
           /\ page'[t].dirty = TRUE /\ page'[t].epoch = q.epoch
BY DEF Sets, Pages, Same

LEMMA OnlyIs ==
    ASSUME NEW t, Tabs = {t}, page \in [Tabs -> Pages], NEW q \in Pages, Only(t, q)
    PROVE  page' \in [Tabs -> Pages] /\ page'[t] = q
BY DEF Only

\* q is p with m marked by an attempt of that kind.
MarkedFor(p, m, kind, q) ==
    /\ q \in Pages /\ q.queue = p.queue /\ q.epoch = p.epoch
    /\ q.entry[m].attempt = [kind |-> kind, epoch |-> p.epoch]
    /\ q.entry[m].failed = FALSE
    /\ q.call[m].kind = kind /\ q.call[m].step = "marked"
    /\ Key(q.call[m]) = q.entry[m].attempt
    /\ \A n \in Messages \ {m} : q.entry[n] = p.entry[n] /\ q.call[n] = p.call[n]

LEMMA AttemptedIs ==
    ASSUME NEW p \in Pages, NEW m \in Messages, NEW kind \in Kinds, p.epoch # NoEpoch
    PROVE  MarkedFor(p, m, kind, Attempted(p, m, kind))
<1> DEFINE mark == [kind |-> kind, epoch |-> p.epoch]
           entry == [p.entry EXCEPT ![m] = [attempt |-> mark, failed |-> FALSE]]
           call == [p.call EXCEPT ![m] = [step |-> "marked", kind |-> kind, epoch |-> p.epoch]]
           q == [p EXCEPT !.entry = entry, !.call = call]
<1>1. Attempted(p, m, kind) = q
  BY DEF Attempted, Pages
<1>2. p.epoch \in Epochs /\ p.entry \in Entries /\ p.call \in [Messages -> Calls]
  BY DEF Pages
<1>3. mark \in Attempts /\ [step |-> "marked", kind |-> kind, epoch |-> p.epoch] \in Calls
  BY <1>2, Literals
<1>4. entry \in Entries
  BY <1>2, <1>3 DEF Entries
<1>5. call \in [Messages -> Calls]
  BY <1>2, <1>3
<1>6. q \in Pages /\ q.queue = p.queue /\ q.epoch = p.epoch /\ q.entry = entry /\ q.call = call
  <2> HIDE DEF entry, call
  <2> QED BY <1>4, <1>5 DEF Pages
<1>7. /\ entry[m] = [attempt |-> mark, failed |-> FALSE]
      /\ call[m] = [step |-> "marked", kind |-> kind, epoch |-> p.epoch]
      /\ \A n \in Messages \ {m} : entry[n] = p.entry[n] /\ call[n] = p.call[n]
  BY <1>2 DEF Entries
<1> HIDE DEF q, entry, call
<1> QED BY <1>1, <1>6, <1>7 DEF Key, MarkedFor

\* The send of m is over: the entry leaves the queue, keeps its mark, or is failed.
LEMMA CompletedIs ==
    ASSUME NEW p \in Pages, NEW m \in Messages
    PROVE  LET q == Completed(p, m)
           IN  /\ q \in Pages /\ q.queue = p.queue \ {m} /\ q.epoch = p.epoch
               /\ q.entry[m] = Blank /\ q.call[m] = NoCall
               /\ \A n \in Messages \ {m} : q.entry[n] = p.entry[n] /\ q.call[n] = p.call[n]
<1> DEFINE entry == [p.entry EXCEPT ![m] = Blank]
           call == [p.call EXCEPT ![m] = NoCall]
           q == [p EXCEPT !.queue = p.queue \ {m}, !.entry = entry, !.call = call]
<1>1. Completed(p, m) = q
  BY DEF Completed, Pages
<1>2. p.entry \in Entries /\ p.call \in [Messages -> Calls] /\ p.queue \ {m} \in SUBSET Messages
  BY DEF Pages
<1>3. entry \in Entries /\ call \in [Messages -> Calls]
  BY <1>2, Literals DEF Entries
<1>4. /\ q \in Pages /\ q.queue = p.queue \ {m} /\ q.epoch = p.epoch
      /\ q.entry = entry /\ q.call = call
  <2> HIDE DEF entry, call
  <2> QED BY <1>2, <1>3 DEF Pages
<1>5. /\ entry[m] = Blank /\ call[m] = NoCall
      /\ \A n \in Messages \ {m} : entry[n] = p.entry[n] /\ call[n] = p.call[n]
  BY <1>2 DEF Entries
<1> HIDE DEF q, entry, call
<1> QED BY <1>1, <1>4, <1>5

LEMMA HeldIs ==
    ASSUME NEW p \in Pages, NEW m \in Messages
    PROVE  LET q == Held(p, m)
           IN  /\ q \in Pages /\ q.queue = p.queue /\ q.epoch = p.epoch
               /\ q.entry = p.entry /\ q.call[m] = NoCall
               /\ \A n \in Messages \ {m} : q.call[n] = p.call[n]
<1> DEFINE call == [p.call EXCEPT ![m] = NoCall]
           q == [p EXCEPT !.call = call, !.pending = FALSE]
<1>1. Held(p, m) = q
  BY DEF Held, Pages
<1>2. /\ call \in [Messages -> Calls] /\ call[m] = NoCall
      /\ \A n \in Messages \ {m} : call[n] = p.call[n]
  BY Literals DEF Pages
<1>3. /\ q \in Pages /\ q.queue = p.queue /\ q.epoch = p.epoch
      /\ q.entry = p.entry /\ q.call = call
  <2> HIDE DEF call
  <2> QED BY <1>2 DEF Pages
<1> HIDE DEF q, call
<1> QED BY <1>1, <1>2, <1>3

LEMMA RejectedIs ==
    ASSUME NEW p \in Pages, NEW m \in Messages
    PROVE  LET q == Rejected(p, m)
           IN  /\ q \in Pages /\ q.queue = p.queue /\ q.epoch = p.epoch
               /\ q.entry[m].attempt = NoAttempt /\ q.entry[m].failed = TRUE
               /\ q.call[m] = NoCall
               /\ \A n \in Messages \ {m} : q.entry[n] = p.entry[n] /\ q.call[n] = p.call[n]
<1> DEFINE entry == [p.entry EXCEPT ![m] = [attempt |-> NoAttempt, failed |-> TRUE]]
           call == [p.call EXCEPT ![m] = NoCall]
           q == [p EXCEPT !.call = call, !.pending = FALSE, !.entry = entry]
<1>1. Rejected(p, m) = q
  BY DEF Rejected, Pages
<1>2. p.entry \in Entries /\ p.call \in [Messages -> Calls]
  BY DEF Pages
<1>3. entry \in Entries /\ call \in [Messages -> Calls]
  BY <1>2, Literals DEF Entries
<1>4. /\ q \in Pages /\ q.queue = p.queue /\ q.epoch = p.epoch
      /\ q.entry = entry /\ q.call = call
  <2> HIDE DEF entry, call
  <2> QED BY <1>3 DEF Pages
<1>5. /\ entry[m] = [attempt |-> NoAttempt, failed |-> TRUE] /\ call[m] = NoCall
      /\ \A n \in Messages \ {m} : entry[n] = p.entry[n] /\ call[n] = p.call[n]
  BY <1>2 DEF Entries
<1> HIDE DEF q, entry, call
<1> QED BY <1>1, <1>4, <1>5

-----------------------------------------------------------------------------
(* What keeps the invariant. *)

\* Nothing new has run.  Whatever became live is a request for the mark of a
\* queued entry, sent by the scanner if it is a follow-up.
Requests(t) ==
    /\ request' \in [Sends -> Outcomes]
    /\ history'.ran = history.ran
    /\ \A s \in Sends :
          /\ Live(s)' => \/ Live(s)
                         \/ /\ s.message \in page[t].queue
                            /\ page[t].entry[s.message].attempt = Key(s)
                            /\ page[t].call[s.message].kind = s.kind
          /\ request[s] \in {"accepted", "gone"} => request'[s] \in {"accepted", "gone"}
          /\ request'[s] = "accepted" => request[s] = "accepted"

LEMMA RequestsSame ==
    ASSUME NEW t, Types, UNCHANGED request, history'.ran = history.ran
    PROVE  Requests(t)
BY DEF Requests, Types, Live, HasRun

\* A step of the page t.
LEMMA PageMoves ==
    ASSUME NEW t, Tabs = {t}, IInv,
           page' \in [Tabs -> Pages], disk' \in Disks, daemon' \in [epoch : Epochs, busy : BOOLEAN],
           history' \in Histories, Requests(t),
           history.added <= history'.added, history.lost \subseteq history'.lost,
           Excused \subseteq Excused',
           Stores(disk)', Works(page[t])',
           \A m \in Messages : m \in page'[t].queue /\ m \notin history'.lost =>
              \A s \in Sends : Live(s)' /\ s.message = m => page'[t].entry[m].attempt = Key(s),
           \A m \in 1 .. history.added : Passed(page[t], m) => Passed(page[t], m)',
           \A m \in Messages : page'[t].call[m].kind = "followUp" =>
              \/ page[t].call[m].kind = "followUp"
              \/ m <= history.added /\ \A n \in Messages : n < m => Passed(page[t], n)',
           \A m \in (1 .. history'.added) \ Excused' :
              \/ m \in page'[t].queue
              \/ m \in (1 .. history.added) \ page[t].queue
              \/ \E s \in Sends : s.message = m /\ HasRun(s)
    PROVE  IInv'
<1>1. /\ Types /\ Receipts /\ FollowUpsInOrder /\ Works(page[t]) /\ Marked(page[t])
      /\ Ordered(page[t]) /\ Kept(page[t])
      /\ page[t] \in Pages /\ history \in Histories
      /\ history.added \in Nat /\ history'.added \in Nat /\ history'.ran = history.ran
      /\ \A s \in Sends : s.message \in Messages /\ s.message \in Nat
  BY DEF IInv, Types, Requests, Histories, Sends, Messages
<1>2. \A s : HasRun(s)' <=> HasRun(s)
  BY <1>1 DEF HasRun
<1>3. ASSUME NEW s \in Sends, Live(s)'
      PROVE  \/ Live(s)
             \/ /\ s.message \in page[t].queue
                /\ page[t].entry[s.message].attempt = Key(s)
                /\ page[t].call[s.message].kind = s.kind
  BY <1>3 DEF Requests
<1>4. Types'
  BY DEF Types, Requests
<1>5. Receipts'
  <2>1. \A i \in DOMAIN history.ran : history.ran[i] \in Sends
    BY <1>1 DEF Histories
  <2>2. \A i \in DOMAIN history'.ran : request'[history'.ran[i]] \in {"accepted", "gone"}
    BY <1>1, <2>1 DEF Receipts, Requests
  <2>3. \A s \in Sends : request'[s] = "accepted" => HasRun(s)'
    BY <1>1, <1>2 DEF Receipts, Requests
  <2>4. ASSUME NEW s \in Sends, Live(s)'
        PROVE  s.message <= history'.added
    BY <1>1, <1>3, <2>4 DEF Receipts, Works, Stores
  <2> QED BY <1>1, <2>2, <2>3, <2>4 DEF Receipts
<1>6. FollowUpsInOrder'
  BY <1>1 DEF FollowUpsInOrder, Excused
<1>7. Marked(page[t])'
  <2>1. ASSUME NEW s \in Sends, NEW z \in Sends, Live(s)', Live(z)', z.message = s.message,
               s.message \notin history'.lost
        PROVE  z = s
    <3>1. s.message \notin history.lost
      BY <2>1
    <3>2. CASE Live(s) /\ Live(z)
      BY <1>1, <2>1, <3>1, <3>2 DEF Marked
    <3>3. CASE s.message \in page[t].queue
      <4>1. page[t].entry[s.message].attempt = Key(s) /\ page[t].entry[s.message].attempt = Key(z)
        BY <1>1, <1>3, <2>1, <3>1, <3>3 DEF Marked
      <4> QED BY <2>1, <4>1 DEF Key, Sends
    <3> QED BY <1>3, <2>1, <3>2, <3>3
  <2> QED BY <1>1, <2>1 DEF Marked
<1>8. Ordered(page[t])'
  <2> SUFFICES ASSUME NEW m \in Messages, NEW n \in Messages, n < m, Underway(page[t], m)'
               PROVE  m <= history'.added /\ Passed(page[t], n)'
    BY DEF Ordered
  <2>1. CASE Underway(page[t], m)
    <3>1. m <= history.added /\ Passed(page[t], n)
      BY <1>1, <2>1 DEF Ordered
    <3>2. n \in 1 .. history.added
      BY <1>1, <3>1 DEF Messages
    <3> QED BY <1>1, <3>1, <3>2 DEF Messages
  <2>2. CASE ~Underway(page[t], m)
    <3>1. page'[t].call[m].kind = "followUp"
      BY <1>3, <2>2 DEF Underway
    <3> QED BY <1>1, <2>2, <3>1 DEF Underway, Messages
  <2> QED BY <2>1, <2>2
<1>9. Kept(page[t])'
  <2> SUFFICES ASSUME NEW m \in (1 .. history'.added) \ Excused'
               PROVE  m \in page'[t].queue \/ \E s \in Sends : s.message = m /\ HasRun(s)'
    BY DEF Kept
  <2> QED BY <1>1, <1>2 DEF Kept
<1> QED BY <1>4, <1>5, <1>6, <1>7, <1>8, <1>9 DEF IInv

\* The history records nothing but what the user took back and how often he came
\* between.
LEMMA HistoryTypes ==
    ASSUME history \in Histories
    PROVE  /\ history.added \in 0 .. MaxMessages /\ history.added \in Nat
           /\ 1 .. history.added \subseteq Messages
           /\ history.removed \subseteq Messages /\ history.lost \subseteq Messages
           /\ history.ran \in Seq(Sends) /\ history.interventions \in Nat
BY QueueAssumption DEF Histories, Messages

LEMMA IntervenesIs ==
    ASSUME NEW loses \in SUBSET Messages, history \in Histories, Intervenes(loses)
    PROVE  /\ history' \in Histories /\ history'.added = history.added
           /\ history'.ran = history.ran /\ history'.removed = history.removed
           /\ history'.lost = history.lost \cup loses
<1> DEFINE n == history.interventions + 1
           l == history.lost \cup loses
<1>1. n \in Nat /\ l \in SUBSET Messages
  BY HistoryTypes
<1>2. history' = [history EXCEPT !.interventions = n, !.lost = l]
  BY DEF Intervenes
<1> HIDE DEF n, l
<1>3. history'.lost = l
  BY <1>2 DEF Histories
<1> QED BY <1>1, <1>2, <1>3 DEF Histories, l

\* A step that touches one entry of the page at most.
LEMMA EntryMoves ==
    ASSUME NEW t, Tabs = {t}, IInv, NEW m \in Messages,
           page' \in [Tabs -> Pages], UNCHANGED <<disk, daemon>>,
           history' \in Histories, Requests(t), history'.added = history.added,
           history'.lost = history.lost, history.removed \subseteq history'.removed,
           page'[t].epoch = page[t].epoch, page'[t].queue \subseteq page[t].queue,
           ~page'[t].dirty => disk = Stored(page'[t]),
           \A n \in Messages \ {m} :
              /\ n \in page'[t].queue <=> n \in page[t].queue
              /\ page'[t].entry[n] = page[t].entry[n] /\ page'[t].call[n] = page[t].call[n],
           page'[t].call[m].step \in {"marked", "posted", "lookup"} =>
              m \in page'[t].queue /\ page'[t].entry[m].attempt = Key(page'[t].call[m]),
           page'[t].call[m].step = "claimed" =>
              /\ m \in page'[t].queue /\ page'[t].entry[m].attempt = NoAttempt
              /\ page'[t].epoch # NoEpoch,
           page'[t].entry[m].failed => page'[t].entry[m].attempt = NoAttempt,
           \A s \in Sends : Live(s)' => Live(s) \/ s.message = m,
           m \in page'[t].queue /\ m \notin history.lost =>
              \A s \in Sends : Live(s)' /\ s.message = m => page'[t].entry[m].attempt = Key(s),
           Passed(page[t], m) => Passed(page[t], m)',
           page'[t].call[m].kind = "followUp" =>
              \/ page[t].call[m].kind = "followUp"
              \/ m <= history.added /\ \A n \in Messages : n < m => Passed(page[t], n),
           m \notin Excused' =>
              \/ m \in page'[t].queue \/ m \notin page[t].queue
              \/ \E s \in Sends : s.message = m /\ HasRun(s)
    PROVE  IInv'
<1>1. /\ Types /\ Stores(disk) /\ Works(page[t]) /\ Marked(page[t]) /\ page[t] \in Pages
      /\ history \in Histories /\ history.added \in Nat
      /\ Excused \subseteq Excused' /\ disk' = disk
  BY HistoryTypes DEF IInv, Types, Excused
<1>2. Stores(disk)'
  BY <1>1 DEF Stores
<1>3. Works(page[t])'
  <2>1. page'[t].queue \subseteq 1 .. history'.added
    BY <1>1 DEF Works, Stores
  <2>2. ASSUME NEW n \in Messages \ {m}
        PROVE  /\ page'[t].entry[n].failed => page'[t].entry[n].attempt = NoAttempt
               /\ page'[t].call[n].step \in {"marked", "posted", "lookup"} =>
                    n \in page'[t].queue /\ page'[t].entry[n].attempt = Key(page'[t].call[n])
               /\ page'[t].call[n].step = "claimed" =>
                    /\ n \in page'[t].queue /\ page'[t].entry[n].attempt = NoAttempt
                    /\ page'[t].epoch # NoEpoch
    BY <1>1, <2>2 DEF Works, Stores
  <2> QED BY <1>1, <2>1, <2>2 DEF Works, Stores, Stored
<1>4. ASSUME NEW n \in Messages, n \in page'[t].queue, n \notin history'.lost,
             NEW s \in Sends, Live(s)', s.message = n
      PROVE  page'[t].entry[n].attempt = Key(s)
  <2>1. CASE n = m
    BY <1>4, <2>1
  <2>2. CASE n # m
    BY <1>1, <1>4, <2>2 DEF Marked
  <2> QED BY <2>1, <2>2
<1>5. ASSUME NEW n \in Messages \ {m}, Passed(page[t], n)
      PROVE  Passed(page[t], n)'
  BY <1>1, <1>5 DEF Passed
<1>6. ASSUME NEW n \in 1 .. history.added, Passed(page[t], n)
      PROVE  Passed(page[t], n)'
  BY <1>1, <1>5, <1>6, HistoryTypes
<1>7. ASSUME NEW n \in Messages, page'[t].call[n].kind = "followUp"
      PROVE  \/ page[t].call[n].kind = "followUp"
             \/ n <= history.added /\ \A k \in Messages : k < n => Passed(page[t], k)'
  <2>1. CASE n = m
    BY <1>5, <1>7, <2>1 DEF Messages
  <2>2. CASE n # m
    BY <1>7, <2>2
  <2> QED BY <2>1, <2>2
<1>8. ASSUME NEW n \in (1 .. history'.added) \ Excused'
      PROVE  \/ n \in page'[t].queue
             \/ n \in (1 .. history.added) \ page[t].queue
             \/ \E s \in Sends : s.message = n /\ HasRun(s)
  <2>1. n \in Messages
    BY <1>1, <1>8, HistoryTypes
  <2> QED BY <1>8, <2>1
<1>9. /\ disk' \in Disks /\ daemon' \in [epoch : Epochs, busy : BOOLEAN]
      /\ history.added <= history'.added /\ history.lost \subseteq history'.lost
  BY <1>1 DEF Types
<1> QED BY <1>1, <1>2, <1>3, <1>4, <1>6, <1>7, <1>8, <1>9, PageMoves

\* A step that leaves the queue, its marks and its sends alone.
LEMMA QuietMoves ==
    ASSUME NEW t, Tabs = {t}, IInv,
           page' \in [Tabs -> Pages], Same(page[t], page'[t]),
           page[t].epoch # NoEpoch => page'[t].epoch # NoEpoch,
           disk' \in {disk, Stored(page[t])},
           ~page'[t].dirty => disk' = Stored(page[t]),
           daemon' \in [epoch : Epochs, busy : BOOLEAN], UNCHANGED history, Requests(t),
           \A s \in Sends : Live(s)' => Live(s)
    PROVE  IInv'
<1>1. /\ Types /\ Stores(disk) /\ Works(page[t]) /\ Marked(page[t]) /\ page[t] \in Pages
      /\ disk \in Disks /\ history \in Histories /\ history.added \in Nat
      /\ Kept(page[t]) /\ Excused' = Excused
  BY HistoryTypes DEF IInv, Types, Excused
<1>2. /\ page'[t].queue = page[t].queue /\ page'[t].entry = page[t].entry
      /\ page'[t].call = page[t].call /\ Stored(page'[t]) = Stored(page[t])
  BY DEF Same, Stored
<1>3. disk' \in Disks /\ Stores(disk)'
  BY <1>1 DEF Stored, Stores, Works, Disks, Pages
<1>4. Works(page[t])'
  BY <1>1, <1>2 DEF Works, Stores
<1>5. \A m \in Messages : m \in page'[t].queue /\ m \notin history'.lost =>
         \A s \in Sends : Live(s)' /\ s.message = m => page'[t].entry[m].attempt = Key(s)
  BY <1>1, <1>2 DEF Marked
<1>6. \A m : Passed(page[t], m) => Passed(page[t], m)'
  BY <1>1, <1>2 DEF Passed
<1> QED BY <1>1, <1>2, <1>3, <1>4, <1>5, <1>6, PageMoves

-----------------------------------------------------------------------------
(* The handlers, one by one. *)

\* What the invariant says of the only page, and of the message m.
LEMMA Known ==
    ASSUME NEW t, Tabs = {t}, IInv
    PROVE  /\ Types /\ Receipts /\ Stores(disk) /\ t \in Tabs
           /\ Works(page[t]) /\ Marked(page[t]) /\ Ordered(page[t]) /\ Kept(page[t])
           /\ page \in [Tabs -> Pages] /\ page[t] \in Pages /\ disk \in Disks
           /\ history \in Histories /\ request \in [Sends -> Outcomes]
           /\ daemon \in [epoch : Epochs, busy : BOOLEAN]
BY DEF IInv, Types

\* A step that changes neither the requests nor the history.
LEMMA NothingSent ==
    ASSUME NEW t, Tabs = {t}, IInv, UNCHANGED <<request, history>>
    PROVE  /\ Requests(t) /\ history' \in Histories /\ Excused' = Excused
           /\ \A s : Live(s)' <=> Live(s)
<1>1. Types /\ history \in Histories
  BY DEF IInv, Types
<1>2. Requests(t)
  BY <1>1, RequestsSame
<1> QED BY <1>1, <1>2 DEF Live, HasRun, Excused

LEMMA TakeBackKeeps ==
    ASSUME NEW t, Tabs = {t}, IInv, NEW m \in Messages, TakeBack(t, m)
    PROVE  IInv'
<1> DEFINE q == Completed(page[t], m)
<1>1. /\ Types /\ page[t] \in Pages /\ page \in [Tabs -> Pages] /\ history \in Histories
      /\ page[t].call[m] = NoCall
  BY Known DEF TakeBack
<1>2. /\ q \in Pages /\ q.queue = page[t].queue \ {m} /\ q.epoch = page[t].epoch
      /\ q.entry[m] = Blank /\ q.call[m] = NoCall
      /\ \A n \in Messages \ {m} : q.entry[n] = page[t].entry[n] /\ q.call[n] = page[t].call[n]
  BY <1>1, CompletedIs
<1>3. /\ page' \in [Tabs -> Pages] /\ Same(q, page'[t])
      /\ page'[t].dirty = TRUE /\ page'[t].epoch = q.epoch
  <2> HIDE DEF q
  <2>1. Sets(t, q)
    BY DEF TakeBack, q
  <2> QED BY <1>1, <1>2, <2>1, SetsIs
<1>4. /\ UNCHANGED <<disk, daemon, request>> /\ history' \in Histories
      /\ history'.added = history.added /\ history'.lost = history.lost
      /\ history'.ran = history.ran /\ history'.removed = history.removed \cup {m}
  BY <1>1 DEF TakeBack, Histories
<1>5. Requests(t) /\ \A s : Live(s)' <=> Live(s)
  BY <1>1, <1>4, RequestsSame DEF Live, HasRun
<1>6. page'[t].queue = q.queue /\ page'[t].entry = q.entry /\ page'[t].call = q.call
  BY <1>3 DEF Same
<1>7. Passed(page[t], m)' /\ m \in Excused'
  BY <1>4 DEF Passed, Excused
<1> HIDE DEF q
<1> QED BY <1>2, <1>3, <1>4, <1>5, <1>6, <1>7, Literals, EntryMoves

LEMMA AbandonKeeps ==
    ASSUME NEW t, Tabs = {t}, IInv, NEW m \in Messages, Abandon(t, m)
    PROVE  IInv'
<1> DEFINE call == [page[t].call EXCEPT ![m] = NoCall]
           q == [page[t] EXCEPT !.call = call]
<1>1. /\ Works(page[t]) /\ Marked(page[t]) /\ page[t] \in Pages /\ page \in [Tabs -> Pages]
  BY Known
<1>2. /\ call \in [Messages -> Calls] /\ call[m] = NoCall
      /\ \A n \in Messages \ {m} : call[n] = page[t].call[n]
  BY <1>1, Literals DEF Pages
<1>3. /\ q \in Pages /\ q.queue = page[t].queue /\ q.epoch = page[t].epoch
      /\ q.entry = page[t].entry /\ q.call = call
  <2> HIDE DEF call
  <2> QED BY <1>1, <1>2 DEF Pages
<1>4. /\ page' \in [Tabs -> Pages] /\ Same(q, page'[t])
      /\ page'[t].dirty = TRUE /\ page'[t].epoch = q.epoch
  <2>1. Sets(t, q)
    BY <1>1 DEF Abandon, Pages
  <2> HIDE DEF q
  <2> QED BY <1>1, <1>3, <2>1, SetsIs
<1>5. /\ UNCHANGED <<disk, daemon, history>> /\ Requests(t) /\ history' \in Histories
      /\ Excused' = Excused /\ \A s : Live(s)' <=> Live(s)
  BY NothingSent DEF Abandon
<1>6. /\ page'[t].queue = page[t].queue /\ page'[t].entry = page[t].entry
      /\ page'[t].call = call
  BY <1>3, <1>4 DEF Same
<1>7. Passed(page[t], m) => Passed(page[t], m)'
  BY <1>5, <1>6 DEF Passed
<1>8. /\ page[t].entry[m].failed => page[t].entry[m].attempt = NoAttempt
      /\ m \in page[t].queue /\ m \notin history.lost =>
           \A s \in Sends : Live(s) /\ s.message = m => page[t].entry[m].attempt = Key(s)
  BY <1>1 DEF Works, Stores, Marked
<1> HIDE DEF q, call
<1> QED BY <1>2, <1>3, <1>4, <1>5, <1>6, <1>7, <1>8, Literals, EntryMoves

LEMMA SendNowKeeps ==
    ASSUME NEW t, Tabs = {t}, IInv, NEW m \in Messages, SendNow(t, m)
    PROVE  IInv'
<1> DEFINE claim == [step |-> "claimed", kind |-> "none", epoch |-> NoEpoch]
           call == [page[t].call EXCEPT ![m] = claim]
           q == [page[t] EXCEPT !.call = call]
<1>1. /\ Types /\ Works(page[t]) /\ Marked(page[t]) /\ page[t] \in Pages
      /\ page \in [Tabs -> Pages] /\ history \in Histories
      /\ m \in page[t].queue /\ page[t].call[m] = NoCall
      /\ page[t].entry[m].attempt = NoAttempt /\ page[t].epoch # NoEpoch
  BY Known DEF SendNow, Unattempted
<1>2. /\ call \in [Messages -> Calls] /\ call[m] = claim
      /\ \A n \in Messages \ {m} : call[n] = page[t].call[n]
  BY <1>1 DEF Pages, Calls
<1>3. /\ q \in Pages /\ q.queue = page[t].queue /\ q.epoch = page[t].epoch
      /\ q.entry = page[t].entry /\ q.call = call
  <2> HIDE DEF call
  <2> QED BY <1>1, <1>2 DEF Pages
<1>4. /\ page' \in [Tabs -> Pages] /\ Same(q, page'[t])
      /\ page'[t].dirty = TRUE /\ page'[t].epoch = q.epoch
  <2>1. Sets(t, q)
    BY <1>1 DEF SendNow, Pages, NoCall
  <2> HIDE DEF q
  <2> QED BY <1>1, <1>3, <2>1, SetsIs
<1>5. /\ UNCHANGED <<disk, daemon, request>> /\ history' \in Histories
      /\ history'.added = history.added /\ history'.lost = history.lost
      /\ history'.ran = history.ran /\ history'.removed = history.removed
  <2>1. Intervenes({}) /\ history.lost \cup {} = history.lost
    BY DEF SendNow
  <2>2. {} \in SUBSET Messages
    OBVIOUS
  <2> QED BY <1>1, <2>1, <2>2, IntervenesIs DEF SendNow
<1>6. Requests(t) /\ Excused' = Excused /\ \A s : Live(s)' <=> Live(s)
  BY <1>1, <1>5, RequestsSame DEF Live, HasRun, Excused
<1>7. /\ page'[t].queue = page[t].queue /\ page'[t].entry = page[t].entry
      /\ page'[t].call = call
  BY <1>3, <1>4 DEF Same
<1>8. Passed(page[t], m) => Passed(page[t], m)'
  BY <1>6, <1>7 DEF Passed
<1>9. /\ m \notin history.lost =>
           \A s \in Sends : Live(s) /\ s.message = m => page[t].entry[m].attempt = Key(s)
  BY <1>1 DEF Marked
<1> HIDE DEF q, call
<1> QED BY <1>1, <1>2, <1>3, <1>4, <1>5, <1>6, <1>7, <1>8, <1>9, EntryMoves

\* A mark is set on an entry that nothing live can be sent for.
LEMMA AttemptMoves ==
    ASSUME NEW t, Tabs = {t}, IInv, NEW m \in Messages, NEW kind \in Kinds,
           m \in page[t].queue, page[t].entry[m].attempt = NoAttempt,
           page[t].epoch # NoEpoch, Sets(t, Attempted(page[t], m, kind)),
           UNCHANGED <<disk, daemon, request, history>>,
           kind = "followUp" =>
              /\ m <= history.added /\ ~page[t].entry[m].failed
              /\ \A n \in Messages : n < m => Passed(page[t], n)
    PROVE  IInv'
<1> DEFINE q == Attempted(page[t], m, kind)
<1>1. /\ Works(page[t]) /\ Marked(page[t]) /\ page[t] \in Pages /\ page \in [Tabs -> Pages]
  BY Known
<1>2. /\ q \in Pages /\ q.queue = page[t].queue /\ q.epoch = page[t].epoch
      /\ q.entry[m].attempt = [kind |-> kind, epoch |-> page[t].epoch]
      /\ q.entry[m].failed = FALSE
      /\ q.call[m].kind = kind /\ q.call[m].step = "marked"
      /\ Key(q.call[m]) = q.entry[m].attempt
      /\ \A n \in Messages \ {m} : q.entry[n] = page[t].entry[n] /\ q.call[n] = page[t].call[n]
  <2>1. MarkedFor(page[t], m, kind, q)
    BY <1>1, AttemptedIs
  <2> HIDE DEF q
  <2> QED BY <2>1 DEF MarkedFor
<1> HIDE DEF q
<1>3. /\ page' \in [Tabs -> Pages] /\ Same(q, page'[t])
      /\ page'[t].dirty = TRUE /\ page'[t].epoch = q.epoch
  BY <1>1, <1>2, SetsIs DEF q
<1>4. /\ Requests(t) /\ history' \in Histories /\ Excused' = Excused
      /\ \A s : Live(s)' <=> Live(s)
  BY NothingSent
<1>5. /\ page'[t].queue = page[t].queue /\ page'[t].entry = q.entry /\ page'[t].call = q.call
  BY <1>2, <1>3 DEF Same
<1>6. ASSUME m \notin history.lost, NEW s \in Sends, Live(s), s.message = m
      PROVE  FALSE
  <2>1. page[t].entry[m].attempt = Key(s)
    BY <1>1, <1>6 DEF Marked
  <2> QED BY <2>1, Literals DEF Key, Sends
<1>7. Passed(page[t], m) => Passed(page[t], m)'
  <2>1. CASE kind = "steer"
    BY <1>2, <1>5, <2>1 DEF Passed
  <2>2. CASE kind = "followUp"
    BY <1>4, <1>5, <2>2, Literals DEF Passed
  <2> QED BY <2>1, <2>2 DEF Kinds
<1> QED BY <1>2, <1>3, <1>4, <1>5, <1>6, <1>7, EntryMoves

LEMMA MarkSteerKeeps ==
    ASSUME NEW t, Tabs = {t}, IInv, NEW m \in Messages, MarkSteer(t, m)
    PROVE  IInv'
<1>1. /\ m \in page[t].queue /\ page[t].entry[m].attempt = NoAttempt /\ page[t].epoch # NoEpoch
  BY Known DEF MarkSteer, Works
<1> QED BY <1>1, AttemptMoves DEF MarkSteer, Kinds

LEMMA AutoSendKeeps ==
    ASSUME NEW t, Tabs = {t}, IInv, AutoSend(t)
    PROVE  IInv'
<1>1. PICK m \in Candidates(page[t]) : Sets(t, Attempted(page[t], m, "followUp"))
  BY DEF AutoSend
<1>2. /\ m \in Messages /\ m \in page[t].queue /\ page[t].entry[m].attempt = NoAttempt
      /\ ~page[t].entry[m].failed /\ m <= history.added
      /\ \A n \in page[t].queue : n < m => page[t].entry[n].failed
  BY <1>1, Known, HistoryTypes DEF Candidates, Unattempted, Pages, Works, Stores
<1>3. \A n \in Messages : n < m => Passed(page[t], n)
  BY <1>2 DEF Passed
<1> QED BY <1>1, <1>2, <1>3, AttemptMoves DEF AutoSend, Kinds

\* A page whose row alone has changed.
Turned(p, q) ==
    /\ q \in Pages /\ Same(p, q) /\ q.epoch = p.epoch /\ q.dirty = p.dirty

\* The three ends of a send.
LEMMA CompleteMoves ==
    ASSUME NEW t, Tabs = {t}, IInv, NEW m \in Messages, Sets(t, Completed(page[t], m)),
           UNCHANGED <<disk, daemon, request, history>>,
           NEW s \in Sends, s.message = m, HasRun(s)
    PROVE  IInv'
<1> DEFINE q == Completed(page[t], m)
<1>1. page[t] \in Pages /\ page \in [Tabs -> Pages]
  BY Known
<1>2. /\ q \in Pages /\ q.queue = page[t].queue \ {m} /\ q.epoch = page[t].epoch
      /\ q.entry[m] = Blank /\ q.call[m] = NoCall
      /\ \A n \in Messages \ {m} : q.entry[n] = page[t].entry[n] /\ q.call[n] = page[t].call[n]
  BY <1>1, CompletedIs
<1> HIDE DEF q
<1>3. /\ page' \in [Tabs -> Pages] /\ Same(q, page'[t])
      /\ page'[t].dirty = TRUE /\ page'[t].epoch = q.epoch
  BY <1>1, <1>2, SetsIs DEF q
<1>4. /\ Requests(t) /\ history' \in Histories /\ Excused' = Excused
      /\ \A z : Live(z)' <=> Live(z)
  BY NothingSent
<1>5. page'[t].queue = q.queue /\ page'[t].entry = q.entry /\ page'[t].call = q.call
  BY <1>3 DEF Same
<1>6. Passed(page[t], m)'
  BY <1>2, <1>5 DEF Passed
<1> QED BY <1>2, <1>3, <1>4, <1>5, <1>6, Literals, EntryMoves

LEMMA HoldMoves ==
    ASSUME NEW t, Tabs = {t}, IInv, NEW m \in Messages, NEW p, Turned(page[t], p),
           Sets(t, Held(p, m)), UNCHANGED <<disk, daemon, request, history>>
    PROVE  IInv'
<1> DEFINE q == Held(p, m)
<1>1. /\ Works(page[t]) /\ Marked(page[t]) /\ page[t] \in Pages /\ page \in [Tabs -> Pages]
      /\ p \in Pages /\ p.queue = page[t].queue /\ p.entry = page[t].entry
      /\ p.call = page[t].call /\ p.epoch = page[t].epoch
  BY Known DEF Turned, Same
<1>2. /\ q \in Pages /\ q.queue = page[t].queue /\ q.epoch = page[t].epoch
      /\ q.entry = page[t].entry /\ q.call[m] = NoCall
      /\ \A n \in Messages \ {m} : q.call[n] = page[t].call[n]
  BY <1>1, HeldIs
<1> HIDE DEF q
<1>3. /\ page' \in [Tabs -> Pages] /\ Same(q, page'[t])
      /\ page'[t].dirty = TRUE /\ page'[t].epoch = q.epoch
  BY <1>1, <1>2, SetsIs DEF q
<1>4. /\ Requests(t) /\ history' \in Histories /\ Excused' = Excused
      /\ \A z : Live(z)' <=> Live(z)
  BY NothingSent
<1>5. page'[t].queue = q.queue /\ page'[t].entry = q.entry /\ page'[t].call = q.call
  BY <1>3 DEF Same
<1>6. Passed(page[t], m) => Passed(page[t], m)'
  BY <1>2, <1>4, <1>5 DEF Passed
<1>7. /\ page[t].entry[m].failed => page[t].entry[m].attempt = NoAttempt
      /\ m \in page[t].queue /\ m \notin history.lost =>
           \A s \in Sends : Live(s) /\ s.message = m => page[t].entry[m].attempt = Key(s)
  BY <1>1 DEF Works, Stores, Marked
<1> QED BY <1>2, <1>3, <1>4, <1>5, <1>6, <1>7, Literals, EntryMoves

LEMMA RejectMoves ==
    ASSUME NEW t, Tabs = {t}, IInv, NEW m \in Messages, Sets(t, Rejected(page[t], m)),
           UNCHANGED <<disk, daemon, request, history>>,
           m \notin history.lost => \A s \in Sends : s.message = m => ~Live(s)
    PROVE  IInv'
<1> DEFINE q == Rejected(page[t], m)
<1>1. page[t] \in Pages /\ page \in [Tabs -> Pages]
  BY Known
<1>2. /\ q \in Pages /\ q.queue = page[t].queue /\ q.epoch = page[t].epoch
      /\ q.entry[m].attempt = NoAttempt /\ q.entry[m].failed = TRUE
      /\ q.call[m] = NoCall
      /\ \A n \in Messages \ {m} : q.entry[n] = page[t].entry[n] /\ q.call[n] = page[t].call[n]
  BY <1>1, RejectedIs
<1> HIDE DEF q
<1>3. /\ page' \in [Tabs -> Pages] /\ Same(q, page'[t])
      /\ page'[t].dirty = TRUE /\ page'[t].epoch = q.epoch
  BY <1>1, <1>2, SetsIs DEF q
<1>4. /\ Requests(t) /\ history' \in Histories /\ Excused' = Excused
      /\ \A z : Live(z)' <=> Live(z)
  BY NothingSent
<1>5. page'[t].queue = q.queue /\ page'[t].entry = q.entry /\ page'[t].call = q.call
  BY <1>3 DEF Same
<1>6. Passed(page[t], m)'
  BY <1>2, <1>5 DEF Passed
<1> QED BY <1>2, <1>3, <1>4, <1>5, <1>6, Literals, EntryMoves

\* The request of an entry that is being sent.
LEMMA TheRequest ==
    ASSUME NEW t, Tabs = {t}, IInv, NEW m \in Messages,
           page[t].call[m].step \in {"marked", "posted", "lookup"}
    PROVE  LET c == page[t].call[m]
               s == Send(m, c)
           IN  /\ m \in page[t].queue /\ page[t].entry[m].attempt = Key(c)
               /\ c.kind \in Kinds /\ c.epoch \in Epochs
               /\ s \in Sends /\ s.message = m /\ Key(s) = Key(c) /\ s.kind = c.kind
               /\ request[s] = "accepted" => HasRun(s)
               /\ m \notin history.lost =>
                    \A z \in Sends : z.message = m /\ Live(z) => z = s
<1> DEFINE c == page[t].call[m]
           s == Send(m, c)
<1>1. page[t] \in Pages /\ Works(page[t]) /\ Marked(page[t]) /\ Receipts
  BY Known
<1>2. /\ m \in page[t].queue /\ page[t].entry[m].attempt = Key(c)
      /\ c.kind \in Kinds /\ c.epoch \in Epochs
  BY <1>1, PageTypes DEF Works
<1>3. s \in Sends /\ s.message = m /\ Key(s) = Key(c) /\ s.kind = c.kind
  BY <1>2 DEF Send, Sends, Key
<1>4. request[s] = "accepted" => HasRun(s)
  BY <1>1, <1>3 DEF Receipts
<1>5. ASSUME m \notin history.lost, NEW z \in Sends, z.message = m, Live(z)
      PROVE  z = s
  <2>1. Key(z) = Key(s)
    BY <1>1, <1>2, <1>3, <1>5 DEF Marked
  <2> QED BY <1>3, <1>5, <2>1 DEF Key, Sends
<1> QED BY <1>2, <1>3, <1>4, <1>5

LEMMA AnswerKeeps ==
    ASSUME NEW t, Tabs = {t}, IInv, NEW m \in Messages, Answer(t, m)
    PROVE  IInv'
<1> DEFINE c == page[t].call[m]
           s == Send(m, c)
<1>1. /\ page[t].call[m].step = "posted" /\ UNCHANGED <<disk, daemon, request, history>>
      /\ Sets(t, Answered(page[t], m, request[s]))
  BY DEF Answer
<1>2. /\ s \in Sends /\ s.message = m
      /\ request[s] = "accepted" => HasRun(s)
      /\ m \notin history.lost => \A z \in Sends : z.message = m /\ Live(z) => z = s
  BY <1>1, TheRequest
<1>3. Receipts /\ page[t] \in Pages
  BY Known
<1>4. CASE request[s] = "accepted" /\ c.epoch = page[t].epoch
  <2>1. Sets(t, Completed(page[t], m))
    BY <1>1, <1>4 DEF Answered
  <2> HIDE DEF s
  <2> QED BY <1>1, <1>2, <1>4, <2>1, CompleteMoves
<1>5. CASE request[s] = "refused"
  <2>1. Sets(t, Rejected(page[t], m))
    BY <1>1, <1>5 DEF Answered
  <2>2. ~Live(s)
    BY <1>3, <1>5 DEF Live, HasRun, Receipts
  <2> HIDE DEF s
  <2> QED BY <1>1, <1>2, <2>1, <2>2, RejectMoves
<1>6. CASE ~(request[s] = "accepted" /\ c.epoch = page[t].epoch) /\ request[s] # "refused"
  <2>1. Sets(t, Held(page[t], m))
    BY <1>1, <1>6 DEF Answered
  <2>2. Turned(page[t], page[t])
    BY <1>3 DEF Turned, Same
  <2> QED BY <1>1, <2>1, <2>2, HoldMoves
<1> QED BY <1>4, <1>5, <1>6

LEMMA LookupKeeps ==
    ASSUME NEW t, Tabs = {t}, IInv, NEW m \in Messages, Lookup(t, m)
    PROVE  IInv'
<1> DEFINE c == page[t].call[m]
           s == Send(m, c)
<1>1. /\ page[t].call[m].step = "lookup" /\ UNCHANGED <<disk, daemon, request, history>>
      /\ \/ request[s] = "accepted" /\ Sets(t, Answered(page[t], m, "accepted"))
         \/ Sets(t, Held(page[t], m))
  BY DEF Lookup
<1>2. /\ s \in Sends /\ s.message = m
      /\ request[s] = "accepted" => HasRun(s)
  BY <1>1, TheRequest
<1>3. Turned(page[t], page[t])
  BY Known DEF Turned, Same
<1>4. CASE Sets(t, Held(page[t], m))
  BY <1>1, <1>3, <1>4, HoldMoves
<1>5. CASE request[s] = "accepted" /\ Sets(t, Answered(page[t], m, "accepted"))
  <2>1. CASE c.epoch = page[t].epoch
    <3>1. Sets(t, Completed(page[t], m))
      BY <1>5, <2>1 DEF Answered
    <3> HIDE DEF s
    <3> QED BY <1>1, <1>2, <1>5, <3>1, CompleteMoves
  <2>2. CASE c.epoch # page[t].epoch
    <3>1. Sets(t, Held(page[t], m))
      BY <1>5, <2>2 DEF Answered
    <3> QED BY <1>1, <1>3, <3>1, HoldMoves
  <2> QED BY <2>1, <2>2
<1> QED BY <1>1, <1>4, <1>5

LEMMA CheckKeeps ==
    ASSUME NEW t, Tabs = {t}, IInv, NEW m \in Messages, Check(t, m)
    PROVE  IInv'
<1> DEFINE a == page[t].entry[m].attempt
           s == Send(m, a)
<1>1. a \in Attempts /\ a # NoAttempt /\ request[s] = "accepted" /\ Receipts
  BY Known, PageTypes DEF Check
<1>2. s \in Sends /\ s.message = m
  BY <1>1 DEF Attempts, Send, Sends
<1> HIDE DEF s
<1>3. HasRun(s)
  BY <1>1, <1>2 DEF Receipts
<1> QED BY <1>2, <1>3, CompleteMoves DEF Check

LEMMA LoseAnswerKeeps ==
    ASSUME NEW t, Tabs = {t}, IInv, NEW m \in Messages, LoseAnswer(t, m)
    PROVE  IInv'
<1> DEFINE c == page[t].call[m]
           asked == [c EXCEPT !.step = "lookup"]
           call == [page[t].call EXCEPT ![m] = asked]
           q == [page[t] EXCEPT !.call = call]
<1>1. /\ Works(page[t]) /\ Marked(page[t]) /\ page[t] \in Pages /\ page \in [Tabs -> Pages]
      /\ c.step = "posted" /\ c \in Calls
  BY Known, PageTypes DEF LoseAnswer
<1>2. asked \in Calls /\ asked.step = "lookup" /\ asked.kind = c.kind /\ Key(asked) = Key(c)
  BY <1>1 DEF Calls, Key, NoCall
<1>3. /\ call \in [Messages -> Calls] /\ call[m] = asked
      /\ \A n \in Messages \ {m} : call[n] = page[t].call[n]
  <2> HIDE DEF asked
  <2> QED BY <1>1, <1>2 DEF Pages
<1>4. /\ q \in Pages /\ q.queue = page[t].queue /\ q.epoch = page[t].epoch
      /\ q.entry = page[t].entry /\ q.call = call /\ q.dirty = page[t].dirty
  <2> HIDE DEF call
  <2> QED BY <1>1, <1>3 DEF Pages
<1>5. page' \in [Tabs -> Pages] /\ page'[t] = q
  <2>1. Only(t, q)
    BY <1>1 DEF LoseAnswer, Pages
  <2> HIDE DEF q
  <2> QED BY <1>1, <1>4, <2>1, OnlyIs
<1>6. /\ UNCHANGED <<disk, daemon, history>> /\ Requests(t) /\ history' \in Histories
      /\ Excused' = Excused /\ \A s : Live(s)' <=> Live(s)
  BY NothingSent DEF LoseAnswer
<1> HIDE DEF q, call, asked
<1>7. Passed(page[t], m) => Passed(page[t], m)'
  BY <1>4, <1>5, <1>6 DEF Passed
<1>8. /\ page[t].entry[m].failed => page[t].entry[m].attempt = NoAttempt
      /\ m \in page[t].queue /\ m \notin history.lost =>
           \A s \in Sends : Live(s) /\ s.message = m => page[t].entry[m].attempt = Key(s)
      /\ m \in page[t].queue /\ page[t].entry[m].attempt = Key(c)
      /\ ~page[t].dirty => disk = Stored(page[t])
  BY <1>1 DEF Works, Stores, Marked
<1>9. Stored(page'[t]) = Stored(page[t])
  BY <1>4, <1>5 DEF Stored
<1> QED BY <1>2, <1>3, <1>4, <1>5, <1>6, <1>7, <1>8, <1>9, EntryMoves

LEMMA PostKeeps ==
    ASSUME NEW t, Tabs = {t}, IInv, NEW m \in Messages, Post(t, m)
    PROVE  IInv'
<1> DEFINE p == page[t]
           c == p.call[m]
           s == Send(m, c)
           row == IF p.row = "unknown" THEN p.row ELSE "busy"
           busy == [p EXCEPT !.row = row, !.pending = TRUE]
           posted == [c EXCEPT !.step = "posted"]
           call == [p.call EXCEPT ![m] = posted]
           q == [busy EXCEPT !.call = call]
<1>1. /\ Types /\ Works(p) /\ Marked(p) /\ p \in Pages /\ page \in [Tabs -> Pages]
      /\ c.step = "marked" /\ c \in Calls /\ request \in [Sends -> Outcomes]
      /\ history \in Histories /\ UNCHANGED <<disk, daemon, history>>
  BY Known, PageTypes DEF Post
<1>2. /\ m \in p.queue /\ p.entry[m].attempt = Key(c)
      /\ s \in Sends /\ s.message = m /\ Key(s) = Key(c) /\ s.kind = c.kind
      /\ m \notin history.lost => \A z \in Sends : z.message = m /\ Live(z) => z = s
  BY <1>1, TheRequest
<1>3. /\ busy \in Pages /\ busy.queue = p.queue /\ busy.entry = p.entry /\ busy.call = p.call
      /\ busy.epoch = p.epoch /\ busy.dirty = p.dirty
  <2>1. row \in {"unknown", "idle", "busy"}
    BY <1>1 DEF Pages
  <2> HIDE DEF row
  <2> QED BY <1>1, <2>1 DEF Pages
<1>4. \/ /\ Only(t, [busy EXCEPT !.call[m].step = "posted"])
         /\ request' = [request EXCEPT ![s] = IF request[s] \in {"none", "refused"}
                                              THEN "sent" ELSE request[s]]
      \/ Sets(t, Held(busy, m)) /\ UNCHANGED request
  BY DEF Post
<1>5. CASE Sets(t, Held(busy, m)) /\ UNCHANGED request
  <2>1. Turned(p, busy)
    BY <1>3 DEF Turned, Same
  <2> HIDE DEF busy
  <2> QED BY <1>1, <1>5, <2>1, HoldMoves
<1>6. CASE /\ Only(t, [busy EXCEPT !.call[m].step = "posted"])
           /\ request' = [request EXCEPT ![s] = IF request[s] \in {"none", "refused"}
                                                THEN "sent" ELSE request[s]]
  <2>1. posted \in Calls /\ posted.step = "posted" /\ posted.kind = c.kind /\ Key(posted) = Key(c)
    BY <1>1 DEF Calls, Key, NoCall
  <2>2. /\ call \in [Messages -> Calls] /\ call[m] = posted
        /\ \A n \in Messages \ {m} : call[n] = p.call[n]
    <3> HIDE DEF posted
    <3> QED BY <1>1, <2>1 DEF Pages
  <2>3. Only(t, q)
    <3> HIDE DEF busy
    <3>1. [busy EXCEPT !.call[m].step = "posted"] = q
      BY <1>3 DEF Pages
    <3> QED BY <1>6, <3>1
  <2>4. /\ q \in Pages /\ q.queue = p.queue /\ q.epoch = p.epoch
        /\ q.entry = p.entry /\ q.call = call /\ q.dirty = p.dirty
    <3> HIDE DEF call, busy
    <3> QED BY <1>3, <2>2 DEF Pages
  <2> HIDE DEF q, call, posted, busy, row
  <2>5. page' \in [Tabs -> Pages] /\ page'[t] = q
    BY <1>1, <2>3, <2>4, OnlyIs
  <2>6. /\ request' \in [Sends -> Outcomes]
        /\ \A z \in Sends \ {s} : request'[z] = request[z]
        /\ request'[s] = IF request[s] \in {"none", "refused"} THEN "sent" ELSE request[s]
    <3>1. (IF request[s] \in {"none", "refused"} THEN "sent" ELSE request[s]) \in Outcomes
      BY <1>1, <1>2 DEF Outcomes
    <3> HIDE DEF s
    <3> QED BY <1>1, <1>2, <1>6, <3>1
  <2>7. \A z \in Sends : Live(z)' => Live(z) \/ z = s
    BY <1>1, <2>6 DEF Live, HasRun
  <2> HIDE DEF s
  <2>8. Requests(t)
    BY <1>1, <1>2, <2>6, <2>7 DEF Requests
  <2>9. /\ history' \in Histories /\ Excused' = Excused
        /\ p.entry[m].failed => p.entry[m].attempt = NoAttempt
        /\ ~p.dirty => disk = Stored(p)
        /\ Stored(q) = Stored(p)
    BY <1>1, <2>4 DEF Excused, Works, Stores, Stored
  <2>10. Passed(page[t], m) => Passed(page[t], m)'
    BY <1>1, <2>4, <2>5 DEF Passed, Excused
  <2>11. m \notin history.lost =>
            \A z \in Sends : Live(z)' /\ z.message = m => page'[t].entry[m].attempt = Key(z)
    BY <1>2, <2>4, <2>5, <2>7
  <2>12. \A z \in Sends : Live(z)' => Live(z) \/ z.message = m
    BY <1>2, <2>7
  <2> QED BY <1>1, <1>2, <2>1, <2>2, <2>4, <2>5, <2>8, <2>9, <2>10, <2>11, <2>12, EntryMoves
<1> QED BY <1>4, <1>5, <1>6

\* q is p with another view of the session, at that epoch.
Views(p, epoch, q) == q \in Pages /\ Same(p, q) /\ q.dirty = p.dirty /\ q.epoch = epoch

View(p, epoch, row, pending, news) ==
    [p EXCEPT !.epoch = epoch, !.row = row, !.pending = pending, !.news = news]

LEMMA ViewIs ==
    ASSUME NEW p \in Pages, NEW epoch \in Epochs \cup {NoEpoch},
           NEW row \in {"unknown", "idle", "busy"}, NEW pending \in BOOLEAN, NEW news \in BOOLEAN
    PROVE  Views(p, epoch, View(p, epoch, row, pending, news))
BY DEF Pages, Same, View, Views

LEMMA ViewKeeps ==
    ASSUME NEW t, Tabs = {t}, IInv, ObserveEpoch(t) \/ HearNews(t) \/ Hydrate(t) \/ Refresh(t)
    PROVE  IInv'
<1>1. /\ Works(page[t]) /\ page[t] \in Pages /\ page \in [Tabs -> Pages]
      /\ daemon \in [epoch : Epochs, busy : BOOLEAN] /\ disk \in Disks
      /\ ~page[t].dirty => disk = Stored(page[t])
  BY Known DEF Works
<1>2. UNCHANGED <<disk, daemon, request, history>>
  BY DEF ObserveEpoch, HearNews, Hydrate, Refresh
<1>3. PICK q : /\ Only(t, q) /\ q \in Pages /\ Same(page[t], q) /\ q.dirty = page[t].dirty
               /\ q.epoch \in {page[t].epoch, daemon.epoch}
  <2> DEFINE p == page[t]
  <2>1. /\ p.epoch \in Epochs \cup {NoEpoch} /\ daemon.epoch \in Epochs
        /\ p.row \in {"unknown", "idle", "busy"} /\ TrueRow \in {"idle", "busy"}
        /\ p.pending \in BOOLEAN /\ p.news \in BOOLEAN
    BY <1>1 DEF Pages, TrueRow
  <2>2. PICK e \in {p.epoch, daemon.epoch}, r \in {"unknown", "idle", "busy"},
             b \in BOOLEAN, n \in BOOLEAN : Only(t, View(p, e, r, b, n))
    <3>1. CASE ObserveEpoch(t)
      <4> DEFINE r == IF p.row = "busy" /\ ~p.pending THEN "idle" ELSE p.row
      <4>1. r \in {"unknown", "idle", "busy"}
        BY <2>1
      <4>2. Only(t, [p EXCEPT !.epoch = daemon.epoch, !.row = r])
        BY <3>1 DEF ObserveEpoch
      <4> HIDE DEF r
      <4>3. [p EXCEPT !.epoch = daemon.epoch, !.row = r] = View(p, daemon.epoch, r, p.pending, p.news)
        BY <1>1 DEF Pages, View
      <4> QED BY <2>1, <4>1, <4>2, <4>3
    <3>2. CASE HearNews(t)
      <4> DEFINE r == IF p.row = "unknown" THEN p.row ELSE TrueRow
      <4>1. r \in {"unknown", "idle", "busy"}
        BY <2>1
      <4>2. Only(t, [p EXCEPT !.news = FALSE, !.pending = FALSE, !.row = r])
        BY <3>2 DEF HearNews
      <4> HIDE DEF r
      <4>3. [p EXCEPT !.news = FALSE, !.pending = FALSE, !.row = r] = View(p, p.epoch, r, FALSE, FALSE)
        BY <1>1 DEF Pages, View
      <4> QED BY <2>1, <4>1, <4>2, <4>3
    <3>3. CASE Hydrate(t)
      <4>1. Only(t, [p EXCEPT !.row = TrueRow])
        BY <3>3 DEF Hydrate
      <4>2. [p EXCEPT !.row = TrueRow] = View(p, p.epoch, TrueRow, p.pending, p.news)
        BY <1>1 DEF Pages, View
      <4> QED BY <2>1, <4>1, <4>2
    <3>4. CASE Refresh(t)
      <4>1. Only(t, [p EXCEPT !.row = TrueRow, !.pending = FALSE])
        BY <3>4 DEF Refresh
      <4>2. [p EXCEPT !.row = TrueRow, !.pending = FALSE] = View(p, p.epoch, TrueRow, FALSE, p.news)
        BY <1>1 DEF Pages, View
      <4> QED BY <2>1, <4>1, <4>2
    <3> QED BY <3>1, <3>2, <3>3, <3>4
  <2>3. Views(p, e, View(p, e, r, b, n))
    BY <1>1, <2>1, ViewIs
  <2> QED BY <2>2, <2>3 DEF Views
<1>4. page' \in [Tabs -> Pages] /\ page'[t] = q
  BY <1>1, <1>3, OnlyIs
<1>5. page[t].epoch # NoEpoch => page'[t].epoch # NoEpoch
  BY <1>1, <1>3, <1>4 DEF Epochs, NoEpoch
<1>6. Requests(t) /\ \A s : Live(s)' <=> Live(s)
  BY <1>2, NothingSent
<1> QED BY <1>1, <1>2, <1>3, <1>4, <1>5, <1>6, QuietMoves

LEMMA FlushKeeps ==
    ASSUME NEW t, Tabs = {t}, IInv, Flush(t)
    PROVE  IInv'
<1>1. /\ page[t] \in Pages /\ page \in [Tabs -> Pages]
      /\ daemon \in [epoch : Epochs, busy : BOOLEAN]
  BY Known
<1>2. UNCHANGED <<daemon, request, history>> /\ disk' = Stored(page[t])
  BY DEF Flush
<1>3. PICK q : /\ Only(t, q) /\ q \in Pages /\ Same(page[t], q) /\ q.epoch = page[t].epoch
  <2> DEFINE q == [page[t] EXCEPT !.dirty = FALSE]
  <2>1. Only(t, q)
    BY DEF Flush
  <2>2. q \in Pages /\ Same(page[t], q) /\ q.epoch = page[t].epoch
    BY <1>1 DEF Pages, Same
  <2> QED BY <2>1, <2>2
<1>4. page' \in [Tabs -> Pages] /\ page'[t] = q
  BY <1>1, <1>3, OnlyIs
<1>5. Requests(t) /\ \A s : Live(s)' <=> Live(s)
  BY <1>2, NothingSent
<1> QED BY <1>1, <1>2, <1>3, <1>4, <1>5, QuietMoves

\* The daemon's side: a request that was not live does not become so.
LEMMA DaemonMoves ==
    ASSUME NEW t, Tabs = {t}, IInv, NEW news \in BOOLEAN,
           page' \in {page, [u \in Tabs |-> [page[u] EXCEPT !.news = news]]},
           daemon' \in [epoch : Epochs, busy : BOOLEAN], UNCHANGED <<disk, history>>,
           request' \in [Sends -> Outcomes],
           \A s \in Sends :
              /\ request'[s] \in {"sent", "executing"} => request[s] \in {"sent", "executing"}
              /\ request[s] \in {"accepted", "gone"} => request'[s] \in {"accepted", "gone"}
              /\ request'[s] = "accepted" => request[s] = "accepted"
    PROVE  IInv'
<1>1. /\ Works(page[t]) /\ page[t] \in Pages /\ page \in [Tabs -> Pages]
      /\ ~page[t].dirty => disk = Stored(page[t])
  BY Known DEF Works
<1>2. /\ page' \in [Tabs -> Pages] /\ Same(page[t], page'[t])
      /\ page'[t].epoch = page[t].epoch /\ page'[t].dirty = page[t].dirty
  <2>1. CASE page' = page
    BY <1>1, <2>1 DEF Same
  <2>2. CASE page' = [u \in Tabs |-> [page[u] EXCEPT !.news = news]]
    BY <1>1, <2>2 DEF Pages, Same
  <2> QED BY <2>1, <2>2
<1>3. \A s \in Sends : Live(s)' => Live(s)
  BY DEF Live, HasRun
<1>4. Requests(t)
  BY <1>3 DEF Requests
<1> QED BY <1>1, <1>2, <1>3, <1>4, QuietMoves

LEMMA ReceiveKeeps ==
    ASSUME NEW t, Tabs = {t}, IInv, NEW s \in Sends, Receive(s) \/ Refuse(s)
    PROVE  IInv'
<1>1. /\ request \in [Sends -> Outcomes] /\ daemon \in [epoch : Epochs, busy : BOOLEAN]
  BY Known
<1>2. /\ UNCHANGED <<page, disk, daemon, history>> /\ request[s] \in {"sent", "executing"}
      /\ \E o \in {"executing", "stale", "refused"} : request' = [request EXCEPT ![s] = o]
  BY DEF Receive, Refuse
<1>3. /\ request' \in [Sends -> Outcomes]
      /\ request'[s] \in {"executing", "stale", "refused"}
      /\ \A z \in Sends \ {s} : request'[z] = request[z]
  BY <1>1, <1>2 DEF Outcomes
<1> QED BY <1>1, <1>2, <1>3, DaemonMoves

LEMMA TurnEndsKeeps ==
    ASSUME NEW t, Tabs = {t}, IInv, TurnEnds
    PROVE  IInv'
<1>1. /\ request \in [Sends -> Outcomes] /\ daemon \in [epoch : Epochs, busy : BOOLEAN]
  BY Known
<1>2. /\ UNCHANGED <<disk, request, history>> /\ daemon' \in [epoch : Epochs, busy : BOOLEAN]
      /\ page' = [u \in Tabs |-> [page[u] EXCEPT !.news = TRUE]]
  BY <1>1 DEF TurnEnds
<1> QED BY <1>1, <1>2, DaemonMoves

LEMMA RestartKeeps ==
    ASSUME NEW t, Tabs = {t}, IInv, Restart
    PROVE  IInv'
<1>1. /\ request \in [Sends -> Outcomes] /\ daemon \in [epoch : Epochs, busy : BOOLEAN]
  BY Known
<1>2. /\ UNCHANGED <<disk, history>>
      /\ page' = [u \in Tabs |-> [page[u] EXCEPT !.news = FALSE]]
  BY DEF Restart
<1>3. daemon' \in [epoch : Epochs, busy : BOOLEAN]
  BY <1>1, QueueAssumption DEF Restart, Epochs
<1>4. \A z \in Sends : request'[z] = IF request[z] \in {"executing", "accepted", "refused"}
                                     THEN "gone" ELSE request[z]
  BY DEF Restart
<1>5. request' \in [Sends -> Outcomes]
  BY <1>1 DEF Restart, Outcomes
<1> QED BY <1>1, <1>2, <1>3, <1>4, <1>5, DaemonMoves

LEMMA EnqueueKeeps ==
    ASSUME NEW t, Tabs = {t}, IInv, NEW m \in Messages, Enqueue(t, m)
    PROVE  IInv'
<1> DEFINE q == [page[t] EXCEPT !.queue = page[t].queue \cup {m}]
<1>1. /\ Works(page[t]) /\ Marked(page[t]) /\ Receipts /\ Stores(disk)
      /\ page[t] \in Pages /\ page \in [Tabs -> Pages] /\ history \in Histories
      /\ disk \in Disks /\ daemon \in [epoch : Epochs, busy : BOOLEAN] /\ Types
  BY Known
<1>2. /\ q \in Pages /\ q.queue = page[t].queue \cup {m} /\ q.entry = page[t].entry
      /\ q.call = page[t].call /\ q.epoch = page[t].epoch
  BY <1>1 DEF Pages
<1>3. /\ page' \in [Tabs -> Pages] /\ Same(q, page'[t])
      /\ page'[t].dirty = TRUE /\ page'[t].epoch = q.epoch
  <2> HIDE DEF q
  <2>1. Sets(t, q)
    BY DEF Enqueue, q
  <2> QED BY <1>1, <1>2, <2>1, SetsIs
<1>4. /\ UNCHANGED <<disk, daemon, request>> /\ m = history.added + 1
      /\ history' \in Histories /\ history'.added = m /\ history'.ran = history.ran
      /\ history'.lost = history.lost /\ history'.removed = history.removed
  BY <1>1 DEF Enqueue, Histories, Messages
<1>5. Requests(t) /\ Excused' = Excused /\ \A s : Live(s)' <=> Live(s)
  BY <1>1, <1>4, RequestsSame DEF Live, HasRun, Excused
<1>6. /\ page'[t].queue = page[t].queue \cup {m} /\ page'[t].entry = page[t].entry
      /\ page'[t].call = page[t].call /\ page'[t].epoch = page[t].epoch
  BY <1>2, <1>3 DEF Same
<1> HIDE DEF q
<1>7. history.added \in Nat /\ 1 .. history'.added = (1 .. history.added) \cup {m}
  BY <1>1, <1>4, HistoryTypes
<1>8. Stores(disk)' /\ Works(page[t])'
  <2>1. disk' = disk /\ ~page'[t].dirty => disk' = Stored(page'[t])
    BY <1>3, <1>4
  <2>2. Stores(disk)' /\ Stores(page[t])'
    BY <1>1, <1>4, <1>6, <1>7 DEF Stores, Works
  <2> QED BY <1>1, <1>3, <1>6, <2>1, <2>2 DEF Works
<1>9. ASSUME NEW n \in Messages, n \in page'[t].queue, n \notin history'.lost,
             NEW s \in Sends, Live(s)', s.message = n
      PROVE  page'[t].entry[n].attempt = Key(s)
  <2>1. n # m
    BY <1>1, <1>4, <1>5, <1>7, <1>9 DEF Receipts
  <2> QED BY <1>1, <1>4, <1>5, <1>6, <1>9, <2>1 DEF Marked
<1>10. ASSUME NEW n \in 1 .. history.added, Passed(page[t], n)
       PROVE  Passed(page[t], n)'
  BY <1>4, <1>5, <1>6, <1>7, <1>10 DEF Passed
<1>11. ASSUME NEW n \in (1 .. history'.added) \ Excused'
       PROVE  n \in page'[t].queue \/ n \in (1 .. history.added) \ page[t].queue
  BY <1>6, <1>7, <1>11
<1>12. history.added <= history'.added
  BY <1>4, <1>7
<1> QED BY <1>1, <1>3, <1>4, <1>5, <1>6, <1>8, <1>9, <1>10, <1>11, <1>12, PageMoves

LEMMA ClearKeeps ==
    ASSUME NEW t, Tabs = {t}, IInv, Clear(t)
    PROVE  IInv'
<1> DEFINE p == page[t]
           dropped == {m \in p.queue : Unattempted(p, m)}
           entry == [m \in Messages |-> IF m \in dropped THEN Blank ELSE p.entry[m]]
           q == [p EXCEPT !.queue = p.queue \ dropped, !.entry = entry]
<1>1. /\ Works(p) /\ Marked(p) /\ Stores(disk) /\ Types
      /\ p \in Pages /\ page \in [Tabs -> Pages] /\ history \in Histories
      /\ disk \in Disks /\ daemon \in [epoch : Epochs, busy : BOOLEAN]
  BY Known
<1>2. /\ dropped \subseteq p.queue /\ dropped \subseteq Messages
      /\ \A m \in dropped : p.call[m] = NoCall
      /\ \A m \in Messages : entry[m] = IF m \in dropped THEN Blank ELSE p.entry[m]
  BY <1>1 DEF Pages, Unattempted
<1>3. entry \in Entries
  BY <1>1, Literals DEF Pages, Entries
<1>4. Sets(t, q) /\ UNCHANGED <<disk, daemon, request>>
  BY DEF Clear
<1>5. history' = [history EXCEPT !.removed = history.removed \cup dropped]
  BY DEF Clear
<1> HIDE DEF dropped, entry
<1>6. /\ q \in Pages /\ q.queue = p.queue \ dropped /\ q.entry = entry
      /\ q.call = p.call /\ q.epoch = p.epoch
  BY <1>1, <1>2, <1>3 DEF Pages
<1> HIDE DEF q
<1>7. /\ page' \in [Tabs -> Pages] /\ page'[t].queue = p.queue \ dropped
      /\ page'[t].entry = entry /\ page'[t].call = p.call /\ page'[t].epoch = p.epoch
      /\ page'[t].dirty = TRUE
  BY <1>1, <1>4, <1>6, SetsIs DEF Same
<1>8. /\ history' \in Histories /\ history'.added = history.added /\ history'.ran = history.ran
      /\ history'.lost = history.lost /\ history'.removed = history.removed \cup dropped
  BY <1>1, <1>2, <1>5 DEF Histories
<1>9. Requests(t) /\ \A s : Live(s)' <=> Live(s)
  BY <1>1, <1>4, <1>8, RequestsSame DEF Live, HasRun
<1>10. Excused' = Excused \cup dropped
  BY <1>8 DEF Excused
<1>11. Stores(disk)' /\ Works(page[t])'
  <2>1. ASSUME NEW m \in Messages
        PROVE  /\ page'[t].entry[m].failed => page'[t].entry[m].attempt = NoAttempt
               /\ page'[t].call[m].step \in {"marked", "posted", "lookup"} =>
                    m \in page'[t].queue /\ page'[t].entry[m].attempt = Key(page'[t].call[m])
               /\ page'[t].call[m].step = "claimed" =>
                    /\ m \in page'[t].queue /\ page'[t].entry[m].attempt = NoAttempt
                    /\ page'[t].epoch # NoEpoch
    BY <1>1, <1>2, <1>7, Literals DEF Works, Stores
  <2>2. page'[t].queue \subseteq 1 .. history'.added
    BY <1>1, <1>7, <1>8 DEF Works, Stores
  <2> QED BY <1>1, <1>4, <1>7, <1>8, <2>1, <2>2 DEF Works, Stores
<1>12. ASSUME NEW n \in Messages, n \in page'[t].queue, n \notin history'.lost,
              NEW s \in Sends, Live(s)', s.message = n
       PROVE  page'[t].entry[n].attempt = Key(s)
  BY <1>1, <1>2, <1>7, <1>8, <1>9, <1>12 DEF Marked
<1>13. ASSUME NEW n \in 1 .. history.added, Passed(p, n)
       PROVE  Passed(page[t], n)'
  <2>1. n \in Messages
    BY <1>1, HistoryTypes
  <2> QED BY <1>2, <1>7, <1>10, <1>13, <2>1 DEF Passed
<1>14. ASSUME NEW n \in (1 .. history'.added) \ Excused'
       PROVE  n \in page'[t].queue \/ n \in (1 .. history.added) \ page[t].queue
  BY <1>7, <1>8, <1>10, <1>14
<1>15. history.added <= history'.added
  BY <1>1, <1>8, HistoryTypes
<1> QED BY <1>1, <1>4, <1>7, <1>8, <1>9, <1>10, <1>11, <1>12, <1>13, <1>14, <1>15, PageMoves

\* The page starts again with what storage holds; what it had not written there
\* is lost to the promises.
LEMMA LoadMoves ==
    ASSUME NEW t, Tabs = {t}, IInv, NEW stored \in Disks, NEW loses \in SUBSET Messages,
           Only(t, Loaded(stored)), disk' = stored, Intervenes(loses),
           UNCHANGED <<daemon, request>>, Stores(stored),
           \A m \in Messages \ loses :
              /\ m \in stored.queue <=> m \in page[t].queue
              /\ stored.entry[m] = page[t].entry[m]
    PROVE  IInv'
<1> DEFINE q == Loaded(stored)
<1>1. /\ Works(page[t]) /\ Marked(page[t]) /\ Types
      /\ page[t] \in Pages /\ page \in [Tabs -> Pages] /\ history \in Histories
      /\ daemon \in [epoch : Epochs, busy : BOOLEAN]
  BY Known
<1>2. /\ q.queue = stored.queue /\ q.entry = stored.entry
      /\ \A m \in Messages : q.call[m] = NoCall
  BY DEF Loaded
<1>3. q \in Pages
  <2>1. [m \in Messages |-> NoCall] \in [Messages -> Calls]
    BY Literals
  <2> QED BY <2>1 DEF Loaded, Pages, Disks, NoEpoch
<1>4. Stored(q) = stored
  BY DEF Stored, Loaded, Disks
<1> HIDE DEF q
<1>5. page' \in [Tabs -> Pages] /\ page'[t] = q
  BY <1>1, <1>3, OnlyIs DEF q
<1>6. /\ history' \in Histories /\ history'.added = history.added
      /\ history'.ran = history.ran /\ history'.removed = history.removed
      /\ history'.lost = history.lost \cup loses
  BY <1>1, IntervenesIs
<1>7. Requests(t) /\ \A s : Live(s)' <=> Live(s)
  BY <1>1, <1>6, RequestsSame DEF Live, HasRun
<1>8. Excused' = Excused \cup loses
  BY <1>6 DEF Excused
<1>9. Stores(disk)' /\ Works(page[t])'
  <2>1. Stores(stored)'
    BY <1>6 DEF Stores
  <2>2. Stores(page[t])'
    BY <1>2, <1>5, <2>1 DEF Stores
  <2>3. \A m \in Messages : page'[t].call[m].step = "none"
    BY <1>2, <1>5, Literals
  <2> QED BY <1>4, <1>5, <2>1, <2>2, <2>3 DEF Works
<1>10. ASSUME NEW n \in Messages, n \in page'[t].queue, n \notin history'.lost,
              NEW s \in Sends, Live(s)', s.message = n
       PROVE  page'[t].entry[n].attempt = Key(s)
  BY <1>1, <1>2, <1>5, <1>6, <1>7, <1>10 DEF Marked
<1>11. ASSUME NEW n \in 1 .. history.added, Passed(page[t], n)
       PROVE  Passed(page[t], n)'
  <2>1. n \in Messages
    BY <1>1, HistoryTypes
  <2> QED BY <1>2, <1>5, <1>8, <1>11, <2>1 DEF Passed
<1>12. \A n \in Messages : page'[t].call[n].kind # "followUp"
  BY <1>2, <1>5, Literals
<1>13. ASSUME NEW n \in (1 .. history'.added) \ Excused'
       PROVE  n \in page'[t].queue \/ n \in (1 .. history.added) \ page[t].queue
  <2>1. n \in Messages /\ n \notin loses
    BY <1>1, <1>6, <1>8, <1>13, HistoryTypes
  <2> QED BY <1>2, <1>5, <1>6, <1>13, <2>1
<1>14. history.added <= history'.added
  BY <1>1, <1>6, HistoryTypes
<1> QED BY <1>1, <1>5, <1>6, <1>7, <1>8, <1>9, <1>10, <1>11, <1>12, <1>13, <1>14, PageMoves

LEMMA ReloadKeeps ==
    ASSUME NEW t, Tabs = {t}, IInv, Reload(t)
    PROVE  IInv'
<1>1. Works(page[t]) /\ page[t] \in Pages
  BY Known
<1>2. /\ Only(t, Loaded(Stored(page[t]))) /\ disk' = Stored(page[t]) /\ Intervenes({})
      /\ UNCHANGED <<daemon, request>>
  BY <1>1 DEF Reload, Works
<1>3. /\ Stored(page[t]) \in Disks /\ Stores(Stored(page[t])) /\ {} \in SUBSET Messages
      /\ Stored(page[t]).queue = page[t].queue /\ Stored(page[t]).entry = page[t].entry
  BY <1>1 DEF Stored, Stores, Works, Disks, Pages
<1> QED BY <1>2, <1>3, LoadMoves

LEMMA CrashKeeps ==
    ASSUME NEW t, Tabs = {t}, IInv, Crash(t)
    PROVE  IInv'
<1>1. disk \in Disks /\ Stores(disk)
  BY Known
<1>2. /\ Only(t, Loaded(disk)) /\ disk' = disk /\ Intervenes(Unwritten(t))
      /\ UNCHANGED <<daemon, request>>
  BY DEF Crash
<1>3. /\ Unwritten(t) \in SUBSET Messages
      /\ \A m \in Messages \ Unwritten(t) :
           /\ m \in disk.queue <=> m \in page[t].queue
           /\ disk.entry[m] = page[t].entry[m]
  BY DEF Unwritten
<1> QED BY <1>1, <1>2, <1>3, LoadMoves

\* Pi runs a request: none of its message has run, and the scanner has sent
\* nothing of a later one.
LEMMA RunKeeps ==
    ASSUME NEW t, Tabs = {t}, IInv, NEW s \in Sends, Run(s)
    PROVE  IInv'
<1> DEFINE m == s.message
           p == page[t]
           ran == history.ran
<1>1. /\ Types /\ Receipts /\ FollowUpsInOrder /\ Works(p) /\ Marked(p) /\ Ordered(p) /\ Kept(p)
      /\ Stores(disk) /\ page \in [Tabs -> Pages] /\ p \in Pages /\ history \in Histories
      /\ request \in [Sends -> Outcomes] /\ daemon \in [epoch : Epochs, busy : BOOLEAN]
      /\ ran \in Seq(Sends) /\ m \in Messages
  BY Known, HistoryTypes DEF IInv, Sends
<1>2. /\ request[s] = "executing" /\ request' = [request EXCEPT ![s] = "accepted"]
      /\ daemon' = [daemon EXCEPT !.busy = TRUE] /\ disk' = disk
      /\ page' = [u \in Tabs |-> [page[u] EXCEPT !.news = TRUE]]
      /\ history' = [history EXCEPT !.ran = Append(ran, s)]
  BY DEF Run
<1>3. /\ request' \in [Sends -> Outcomes] /\ request'[s] = "accepted"
      /\ \A z \in Sends \ {s} : request'[z] = request[z]
  BY <1>1, <1>2 DEF Outcomes
<1>4. /\ page' \in [Tabs -> Pages] /\ Same(p, page'[t]) /\ page'[t].epoch = p.epoch
      /\ page'[t].dirty = p.dirty
  BY <1>1, <1>2 DEF Pages, Same
<1>5. /\ page'[t].queue = p.queue /\ page'[t].entry = p.entry /\ page'[t].call = p.call
      /\ Stored(page'[t]) = Stored(p)
  BY <1>4 DEF Same, Stored
<1>6. /\ history' \in Histories /\ history'.ran = Append(ran, s)
      /\ history'.added = history.added /\ history'.removed = history.removed
      /\ history'.lost = history.lost /\ Excused' = Excused
  <2> DEFINE longer == Append(ran, s)
  <2>1. longer \in Seq(Sends)
    BY <1>1
  <2>2. history' = [history EXCEPT !.ran = longer]
    BY <1>2
  <2> HIDE DEF longer
  <2>3. history' \in Histories /\ history'.ran = longer
    BY <1>1, <2>1, <2>2 DEF Histories
  <2>4. /\ history'.added = history.added /\ history'.removed = history.removed
        /\ history'.lost = history.lost
    BY <1>1, <2>2 DEF Histories
  <2> QED BY <2>3, <2>4 DEF Excused, longer
<1>7. /\ Len(ran) \in Nat /\ DOMAIN ran = 1 .. Len(ran)
      /\ DOMAIN history'.ran = 1 .. (Len(ran) + 1)
      /\ history'.ran[Len(ran) + 1] = s
      /\ \A i \in DOMAIN ran : history'.ran[i] = ran[i] /\ ran[i] \in Sends
  BY <1>1, <1>6
<1>8. ~HasRun(s) /\ \A i \in DOMAIN ran : ran[i] # s
  BY <1>1, <1>2 DEF Receipts, HasRun
<1>9. \A z : HasRun(z)' <=> HasRun(z) \/ z = s
  BY <1>7 DEF HasRun
<1>10. \A z \in Sends : Live(z)' <=> Live(z)
  BY <1>2, <1>3, <1>9 DEF Live
<1>11. Live(s)
  BY <1>2 DEF Live
<1>12. Types'
  <2>1. daemon' \in [epoch : Epochs, busy : BOOLEAN]
    BY <1>1, <1>2
  <2> QED BY <1>1, <1>2, <1>3, <1>4, <1>6, <2>1 DEF Types
<1>13. Stores(disk)'
  BY <1>1, <1>2, <1>6 DEF Stores
<1>14. Receipts'
  <2>1. \A i \in DOMAIN history'.ran : request'[history'.ran[i]] \in {"accepted", "gone"}
    BY <1>1, <1>3, <1>7 DEF Receipts
  <2>2. \A i, j \in DOMAIN history'.ran : history'.ran[i] = history'.ran[j] => i = j
    BY <1>1, <1>7, <1>8 DEF Receipts
  <2>3. \A z \in Sends : request'[z] = "accepted" => HasRun(z)'
    BY <1>1, <1>3, <1>9 DEF Receipts
  <2>4. \A z \in Sends : Live(z)' => z.message <= history'.added
    BY <1>1, <1>6, <1>10 DEF Receipts
  <2> QED BY <2>1, <2>2, <2>3, <2>4 DEF Receipts
<1>15. FollowUpsInOrder'
  <2> SUFFICES ASSUME NEW i \in DOMAIN history'.ran, NEW j \in DOMAIN history'.ran, i < j,
                      history'.ran[i].kind = "followUp", history'.ran[j].kind = "followUp",
                      history'.ran[j].message \notin history.removed \cup history.lost
               PROVE  history'.ran[i].message < history'.ran[j].message
    BY <1>6 DEF FollowUpsInOrder
  <2>1. i \in DOMAIN ran
    BY <1>7
  <2>2. CASE j \in DOMAIN ran
    BY <1>1, <1>7, <2>1, <2>2 DEF FollowUpsInOrder
  <2>3. CASE j \notin DOMAIN ran
    <3> DEFINE a == ran[i]
    <3>1. /\ history'.ran[j] = s /\ history'.ran[i] = a /\ a \in Sends /\ a # s
          /\ a.kind = "followUp" /\ s.kind = "followUp" /\ m \notin Excused
      BY <1>7, <1>8, <2>1, <2>3 DEF Excused
    <3>2. HasRun(a) /\ Live(a)
      BY <2>1 DEF HasRun, Live
    <3>3. \A z \in Sends : z.message = m /\ Live(z) => z = s
      BY <1>1, <1>11, <3>1 DEF Marked, Excused
    <3>4. a.message # m
      BY <3>1, <3>2, <3>3
    <3>5. ~(m < a.message)
      <4> SUFFICES ASSUME m < a.message PROVE FALSE
        OBVIOUS
      <4>1. Underway(p, a.message) /\ a.message \in Messages
        BY <3>1, <3>2 DEF Underway, Sends
      <4>2. Passed(p, m)
        BY <1>1, <4>1 DEF Ordered
      <4>3. m \notin p.queue
        <5> SUFFICES ASSUME m \in p.queue PROVE FALSE
          OBVIOUS
        <5>1. p.entry[m].attempt = Key(s)
          BY <1>1, <1>11, <3>1 DEF Marked, Excused
        <5>2. p.entry[m].failed => p.entry[m].attempt = NoAttempt
          BY <1>1 DEF Works, Stores
        <5> QED BY <3>1, <4>2, <5>1, <5>2, Literals DEF Passed, Key, Kinds
      <4>4. m \in (1 .. history.added) \ Excused
        BY <1>1, <1>11, <3>1, HistoryTypes DEF Receipts, Messages
      <4>5. PICK z \in Sends : z.message = m /\ HasRun(z)
        BY <1>1, <4>3, <4>4 DEF Kept
      <4> QED BY <1>8, <3>3, <4>5 DEF Live
    <3>6. a.message \in Nat /\ m \in Nat
      BY <1>1, <3>1 DEF Sends, Messages
    <3> QED BY <3>1, <3>4, <3>5, <3>6
  <2> QED BY <2>2, <2>3
<1>16. Works(page[t])'
  <2>1. Stores(page[t])'
    BY <1>1, <1>5, <1>6 DEF Works, Stores
  <2>2. ~page'[t].dirty => disk' = Stored(page'[t])
    BY <1>1, <1>2, <1>4, <1>5 DEF Works
  <2> QED BY <1>1, <1>4, <1>5, <2>1, <2>2 DEF Works
<1>17. Marked(page[t])'
  BY <1>1, <1>5, <1>6, <1>10 DEF Marked
<1>18. Ordered(page[t])'
  <2> SUFFICES ASSUME NEW k \in Messages, NEW n \in Messages, n < k, Underway(page[t], k)'
               PROVE  k <= history'.added /\ Passed(page[t], n)'
    BY DEF Ordered
  <2>1. Underway(p, k)
    BY <1>5, <1>10 DEF Underway
  <2>2. k <= history.added /\ Passed(p, n)
    BY <1>1, <2>1 DEF Ordered
  <2> QED BY <1>5, <1>6, <2>2 DEF Passed
<1>19. Kept(page[t])'
  BY <1>1, <1>5, <1>6, <1>9 DEF Kept
<1> QED BY <1>12, <1>13, <1>14, <1>15, <1>16, <1>17, <1>18, <1>19 DEF IInv

-----------------------------------------------------------------------------
(* The theorems. *)

LEMMA InitHolds ==
    ASSUME NEW t, Tabs = {t}, Init
    PROVE  IInv
<1> DEFINE p == Loaded(EmptyQueue)
<1>1. /\ page \in [Tabs -> {p}] /\ page[t] = p /\ disk = EmptyQueue
      /\ daemon \in [epoch : {1}, busy : BOOLEAN] /\ request = [s \in Sends |-> "none"]
      /\ history = [added |-> 0, removed |-> {}, ran |-> <<>>, interventions |-> 0, lost |-> {}]
  BY DEF Init
<1>2. EmptyQueue \in Disks
  BY Literals DEF EmptyQueue, Disks, Entries
<1>3. p \in Pages
  <2>1. [m \in Messages |-> NoCall] \in [Messages -> Calls]
    BY Literals
  <2> QED BY <1>2, <2>1 DEF Loaded, Pages, Disks, NoEpoch
<1>4. /\ history \in Histories /\ history.added = 0 /\ DOMAIN history.ran = {}
      /\ Excused = {}
  BY <1>1, QueueAssumption DEF Histories, Excused
<1>5. Types
  BY <1>1, <1>2, <1>3, <1>4, QueueAssumption DEF Types, Epochs, Outcomes
<1>6. \A s \in Sends : ~Live(s) /\ ~HasRun(s) /\ request[s] = "none"
  BY <1>1, <1>4 DEF Live, HasRun
<1>7. /\ EmptyQueue.queue = {} /\ p.queue = {} /\ p.entry = EmptyQueue.entry
      /\ \A m \in Messages : p.entry[m] = Blank /\ p.call[m] = NoCall
      /\ Stored(p) = EmptyQueue
  BY DEF EmptyQueue, Loaded, Stored
<1>8. Stores(disk) /\ Works(page[t])
  <2>1. Stores(disk) /\ Stores(page[t])
    BY <1>1, <1>4, <1>7, Literals DEF Stores
  <2> QED BY <1>1, <1>7, <2>1, Literals DEF Works
<1>9. Receipts /\ FollowUpsInOrder
  BY <1>4, <1>6 DEF Receipts, FollowUpsInOrder
<1>10. Marked(page[t]) /\ Kept(page[t])
  BY <1>4, <1>6 DEF Marked, Kept
<1>11. Ordered(page[t])
  BY <1>1, <1>6, <1>7, Literals DEF Ordered, Underway
<1> QED BY <1>5, <1>8, <1>9, <1>10, <1>11 DEF IInv

LEMMA StepKeeps ==
    ASSUME NEW t, Tabs = {t}, IInv, [Next]_vars
    PROVE  IInv'
<1>1. CASE UNCHANGED vars
  BY <1>1 DEF vars, IInv, Types, Stores, Receipts, FollowUpsInOrder, Works, Marked, Ordered, Kept,
              Live, HasRun, Underway, Passed, Excused
<1>2. ASSUME NEW m \in Messages, User(t, m) \/ Deliver(t, m)
      PROVE  IInv'
  BY <1>2, EnqueueKeeps, TakeBackKeeps, SendNowKeeps, AbandonKeeps, CheckKeeps, MarkSteerKeeps,
     PostKeeps, AnswerKeeps, LoseAnswerKeeps, LookupKeeps DEF User, Deliver
<1>3. CASE \/ AutoSend(t) \/ Clear(t) \/ ObserveEpoch(t) \/ HearNews(t) \/ Hydrate(t)
           \/ Refresh(t) \/ Flush(t) \/ Reload(t) \/ Crash(t)
  BY <1>3, AutoSendKeeps, ClearKeeps, ViewKeeps, FlushKeeps, ReloadKeeps, CrashKeeps
<1>4. ASSUME NEW s \in Sends, Receive(s) \/ Run(s) \/ Refuse(s)
      PROVE  IInv'
  BY <1>4, ReceiveKeeps, RunKeeps
<1>5. CASE TurnEnds \/ Restart
  BY <1>5, TurnEndsKeeps, RestartKeeps
<1> QED BY <1>1, <1>2, <1>3, <1>4, <1>5 DEF Next

\* On one page the mark of a queued entry always names the one request of it that
\* Pi has run or may run, and the page keeps or has delivered whatever it queued.
THEOREM MarksAreTrue == OnePage => (Spec => []IInv)
<1>1. SUFFICES ASSUME NEW t, Tabs = {t} PROVE Spec => []IInv
  BY DEF OnePage
<1>2. Init => IInv
  BY <1>1, InitHolds
<1>3. IInv /\ [Next]_vars => IInv'
  BY <1>1, StepKeeps
<1> QED BY <1>2, <1>3, PTL DEF Spec

\* On one page no message runs twice, whatever answers are lost, however often the
\* page is loaded again and the daemon restarted, but for those whose last write
\* died with the page.
THEOREM DeliveredOnce == OnePage => (Spec => []NeverDeliveredTwice)
<1>1. SUFFICES ASSUME NEW t, Tabs = {t} PROVE Spec => []NeverDeliveredTwice
  BY DEF OnePage
<1>2. IInv => NeverDeliveredTwice
  <2> SUFFICES ASSUME IInv, NEW m \in Messages \ history.lost,
                      NEW i \in RunsOf(m), NEW j \in RunsOf(m)
               PROVE  i = j
    BY DEF NeverDeliveredTwice
  <2>1. Marked(page[t]) /\ Receipts /\ history.ran \in Seq(Sends)
    BY <1>1, Known, HistoryTypes
  <2>2. /\ i \in DOMAIN history.ran /\ history.ran[i].message = m /\ history.ran[i] \in Sends
        /\ j \in DOMAIN history.ran /\ history.ran[j].message = m /\ history.ran[j] \in Sends
    BY <2>1 DEF RunsOf
  <2>3. Live(history.ran[i]) /\ Live(history.ran[j])
    BY <2>2 DEF Live, HasRun
  <2>4. history.ran[i] = history.ran[j]
    BY <2>1, <2>2, <2>3 DEF Marked
  <2> QED BY <2>1, <2>2, <2>4 DEF Receipts
<1>3. OnePage
  BY <1>1 DEF OnePage
<1> QED BY <1>2, <1>3, MarksAreTrue, PTL

\* On one page what was queued is in the queue until Pi has run it or the user took
\* it back.
THEOREM QueueKeepsAll == OnePage => (Spec => []NothingDropped)
<1>1. SUFFICES ASSUME NEW t, Tabs = {t} PROVE Spec => []NothingDropped
  BY DEF OnePage
<1>2. IInv => NothingDropped
  <2> SUFFICES ASSUME IInv, NEW m \in (1 .. history.added) \ history.lost, m \notin history.removed,
                      m \notin page[t].queue
               PROVE  RunsOf(m) # {}
    BY <1>1 DEF NothingDropped
  <2>1. PICK s \in Sends : s.message = m /\ HasRun(s)
    BY <1>1, Known DEF Kept, Excused
  <2> QED BY <2>1 DEF HasRun, RunsOf
<1>3. OnePage
  BY <1>1 DEF OnePage
<1> QED BY <1>2, <1>3, MarksAreTrue, PTL

\* On one page the scanner's follow-ups run in the order they were queued.
THEOREM FollowUpsKeepOrder == OnePage => (Spec => []FollowUpsInOrder)
<1>1. IInv => FollowUpsInOrder
  BY DEF IInv
<1> QED BY <1>1, MarksAreTrue, PTL

=============================================================================
