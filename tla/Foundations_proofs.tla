------------------------- MODULE Foundations_proofs -------------------------
(***************************************************************************)
(* Proofs about the two components that the others stand on, the replay    *)
(* log (SessionReplay) and the lock (CrossProcessLock), for every value of *)
(* their constants.                                                        *)
(*                                                                         *)
(* The log.  The replay contract is not inductive: it says nothing about   *)
(* the order of the log, nor about a log that cannot serve any cursor.     *)
(* IndInv adds that the log is ordered, that it holds only broadcast       *)
(* events, and that it holds every broadcast event from its oldest one on. *)
(* The byte total is a recursive function of the log.  What it computes is *)
(* established by induction, for which least elements of sets of numbers   *)
(* stand in; both bounds and the eviction's restraint follow.              *)
(*                                                                         *)
(* The lock.  Ownership is inductive: until a live owner's file is         *)
(* removed, whoever is between creating the file and removing it owns it.  *)
(***************************************************************************)
EXTENDS SessionReplay, CrossProcessLock, WellFoundedInduction, TLAPS

\* The log is a suffix of the broadcast events: no hole after its head.
ContiguousSuffix ==
    \A p \in published :
        (entries # <<>> /\ p.sequence >= entries[1].sequence) =>
            \E i \in 1 .. Len(entries) : entries[i] = p

\* Nothing in the log was never broadcast.
OnlyPublished == \A i \in 1 .. Len(entries) : entries[i] \in published

\* Sequence numbers are assigned once and in order.
NumbersAssigned == \A p \in published : p.sequence <= sequence

IndInv ==
    /\ TypeOK
    /\ ReplayIsOrdered
    /\ ContiguousSuffix
    /\ OnlyPublished
    /\ NumbersAssigned

-----------------------------------------------------------------------------

\* The initial state satisfies the inductive invariant.
LEMMA InitIndInv == Init => IndInv
  <1> SUFFICES ASSUME Init PROVE IndInv
    OBVIOUS
  <1>1. TypeOK
    BY ReplayAssumption DEF Init, TypeOK
  <1>2. ReplayIsOrdered /\ ContiguousSuffix /\ OnlyPublished /\ NumbersAssigned
    BY DEF Init, ReplayIsOrdered, ContiguousSuffix, OnlyPublished,
           NumbersAssigned
  <1> QED
    BY <1>1, <1>2 DEF IndInv

\* What append leaves in the log: nothing, or a suffix of the log extended
\* with the new entry.
LEMMA AppendLineShape ==
  ASSUME NEW entry, AppendLine(entry)
  PROVE  \/ entries' = <<>>
         \/ \E k \in 0 .. Len(Append(entries, entry)) :
               /\ \/ k = Len(Append(entries, entry))
                  \/ Len(Append(entries, entry)) - k <= MaxEvents
               /\ entries' = SubSeq(Append(entries, entry), k + 1,
                                    Len(Append(entries, entry)))
  BY DEF AppendLine, AppendFitting, StopsAfter

\* The log with a newly numbered event at its end is still in order.
LEMMA PushedIsOrdered ==
  ASSUME IndInv, NEW s \in Sessions, NEW size \in LineSizes
  PROVE  LET pushed == Append(entries, [sequence |-> sequence + 1,
                                        sessionId |-> s, bytes |-> size])
         IN  \A i, j \in 1 .. Len(pushed) :
                i < j => pushed[i].sequence < pushed[j].sequence
  <1> DEFINE new == [sequence |-> sequence + 1, sessionId |-> s, bytes |-> size]
             pushed == Append(entries, new)
  <1> SUFFICES ASSUME NEW i \in 1 .. Len(pushed), NEW j \in 1 .. Len(pushed), i < j
               PROVE  pushed[i].sequence < pushed[j].sequence
    OBVIOUS
  <1>1. sequence \in Nat /\ entries \in Seq(Entry) /\ new \in Entry
    BY ReplayAssumption DEF IndInv, TypeOK, Entry
  <1>2. /\ Len(pushed) = Len(entries) + 1 /\ Len(entries) \in Nat
        /\ \A n \in 1 .. Len(entries) : pushed[n] = entries[n]
        /\ pushed[Len(entries) + 1] = new
    BY <1>1
  <1>3. i \in 1 .. Len(entries) /\ pushed[i] = entries[i]
    BY <1>2
  <1>4. CASE j = Len(entries) + 1
    <2>1. entries[i].sequence <= sequence
      BY <1>3 DEF IndInv, OnlyPublished, NumbersAssigned
    <2>2. entries[i] \in Entry
      BY <1>1, <1>3
    <2> QED
      BY <1>1, <1>2, <1>3, <1>4, <2>1, <2>2 DEF Entry
  <1>5. CASE j # Len(entries) + 1
    <2>1. j \in 1 .. Len(entries) /\ pushed[j] = entries[j]
      BY <1>2, <1>5
    <2> QED
      BY <1>3, <2>1 DEF IndInv, ReplayIsOrdered
  <1> QED
    BY <1>4, <1>5

\* Publishing an event, whatever its size, preserves the invariant.
LEMMA PublishIndInv ==
  ASSUME IndInv, NEW s \in Sessions, NEW size \in LineSizes, Publish(s, size)
  PROVE  IndInv'
  <1> DEFINE new == [sequence |-> sequence + 1, sessionId |-> s, bytes |-> size]
             pushed == Append(entries, new)
  <1>1. /\ sequence \in Nat /\ sequence + 1 \in Nat
        /\ entries \in Seq(Entry) /\ published \subseteq Entry
    BY ReplayAssumption DEF IndInv, TypeOK
  <1>2. /\ sequence' = sequence + 1
        /\ sequence' \in 0 .. MaxSequence
        /\ published' = published \cup {new}
        /\ AppendLine(new)
    BY <1>1, ReplayAssumption DEF Publish
  <1>3. new \in Entry
    BY <1>1 DEF Entry
  <1>4. /\ pushed \in Seq(Entry)
        /\ Len(pushed) = Len(entries) + 1
        /\ \A i \in 1 .. Len(entries) : pushed[i] = entries[i]
        /\ pushed[Len(entries) + 1] = new
    BY <1>1, <1>3
  <1>5. NumbersAssigned'
    BY <1>1, <1>2 DEF IndInv, NumbersAssigned, Entry
  <1>6. \A i, j \in 1 .. Len(pushed) :
           i < j => pushed[i].sequence < pushed[j].sequence
    BY <1>2, PushedIsOrdered
  <1>7. CASE entries' = <<>>
    <2>1. TypeOK'
      BY <1>1, <1>2, <1>3, <1>7, ReplayAssumption DEF TypeOK
    <2>2. ReplayIsOrdered' /\ ContiguousSuffix' /\ OnlyPublished'
      BY <1>7 DEF ReplayIsOrdered, ContiguousSuffix, OnlyPublished
    <2> QED
      BY <1>5, <2>1, <2>2 DEF IndInv
  <1>8. CASE \E k \in 0 .. Len(pushed) :
                /\ k = Len(pushed) \/ Len(pushed) - k <= MaxEvents
                /\ entries' = SubSeq(pushed, k + 1, Len(pushed))
    <2>1. PICK k \in 0 .. Len(pushed) :
                /\ k = Len(pushed) \/ Len(pushed) - k <= MaxEvents
                /\ entries' = SubSeq(pushed, k + 1, Len(pushed))
      BY <1>8
    <2>2. Len(pushed) \in Nat /\ Len(entries) \in Nat /\ k \in Nat
      BY <1>1, <1>4, <2>1
    <2>3. /\ entries' \in Seq(Entry)
          /\ Len(entries') = Len(pushed) - k
          /\ \A i \in 1 .. Len(entries') : entries'[i] = pushed[i + k]
      BY <1>4, <2>1, <2>2
    <2>4. TypeOK'
      BY <1>1, <1>2, <1>3, <2>1, <2>2, <2>3, ReplayAssumption DEF TypeOK
    <2>5. ReplayIsOrdered'
      <3> SUFFICES ASSUME NEW i \in 1 .. Len(entries'),
                          NEW j \in 1 .. Len(entries'), i < j
                   PROVE  entries'[i].sequence < entries'[j].sequence
        BY DEF ReplayIsOrdered
      <3>1. i + k \in 1 .. Len(pushed) /\ j + k \in 1 .. Len(pushed)
        BY <2>2, <2>3
      <3>2. pushed[i + k].sequence < pushed[j + k].sequence
        BY <1>6, <2>2, <3>1
      <3> QED
        BY <2>3, <3>2
    <2>6. OnlyPublished'
      <3> SUFFICES ASSUME NEW i \in 1 .. Len(entries')
                   PROVE  entries'[i] \in published'
        BY DEF OnlyPublished
      <3>1. entries'[i] = pushed[i + k] /\ i + k \in 1 .. Len(entries) + 1
        BY <1>4, <2>2, <2>3
      <3> QED
        BY <1>2, <1>4, <2>2, <3>1 DEF IndInv, OnlyPublished
    <2>7. ContiguousSuffix'
      <3> SUFFICES ASSUME NEW p \in published', entries' # <<>>,
                          p.sequence >= entries'[1].sequence
                   PROVE  \E i \in 1 .. Len(entries') : entries'[i] = p
        BY DEF ContiguousSuffix
      <3>1. Len(entries') \in Nat /\ Len(entries') >= 1
        BY <2>3
      <3>2. entries'[1] = pushed[1 + k] /\ 1 + k \in 1 .. Len(pushed)
        BY <2>2, <2>3, <3>1
      <3>3. \E j \in 1 .. Len(pushed) : pushed[j] = p
        <4>1. CASE p = new
          BY <1>4, <2>2, <4>1
        <4>2. CASE p # new
          <5>1. p \in published
            BY <1>2, <4>2
          <5>2. p.sequence \in Nat /\ p.sequence <= sequence
            BY <1>1, <5>1 DEF IndInv, NumbersAssigned, Entry
          <5>3. 1 + k # Len(entries) + 1
            BY <1>1, <1>4, <3>2, <5>2
          <5>4. /\ 1 + k \in 1 .. Len(entries)
                /\ entries # <<>>
                /\ pushed[1 + k] = entries[1 + k]
            BY <1>1, <1>4, <2>2, <3>2, <5>3
          <5>5. /\ entries[1] \in Entry /\ entries[1 + k] \in Entry
                /\ entries[1].sequence <= entries[1 + k].sequence
            <6>1. 1 \in 1 .. Len(entries)
              BY <2>2, <5>4
            <6>2. entries[1] \in Entry /\ entries[1 + k] \in Entry
              BY <1>1, <5>4, <6>1
            <6>3. CASE k = 0
              BY <6>2, <6>3 DEF Entry
            <6>4. CASE k # 0
              BY <2>2, <5>4, <6>1, <6>2, <6>4 DEF IndInv, ReplayIsOrdered, Entry
            <6> QED
              BY <6>2, <6>3, <6>4
          <5>6. p.sequence >= entries[1].sequence
            BY <3>2, <5>2, <5>4, <5>5 DEF Entry
          <5>7. \E j \in 1 .. Len(entries) : entries[j] = p
            BY <5>1, <5>4, <5>6 DEF IndInv, ContiguousSuffix
          <5> QED
            BY <1>4, <2>2, <5>7
        <4> QED
          BY <4>1, <4>2
      <3>4. PICK j \in 1 .. Len(pushed) : pushed[j] = p
        BY <3>3
      <3>5. j >= 1 + k
        <4>1. pushed[j] \in Entry /\ pushed[1 + k] \in Entry
          BY <1>4, <3>2
        <4> QED
          BY <1>6, <2>2, <3>2, <3>4, <4>1 DEF Entry
      <3>6. j - k \in 1 .. Len(entries') /\ entries'[j - k] = p
        BY <2>2, <2>3, <3>4, <3>5
      <3> QED
        BY <3>6
    <2> QED
      BY <1>5, <2>4, <2>5, <2>6, <2>7 DEF IndInv
  <1> QED
    BY <1>2, <1>7, <1>8, AppendLineShape

\* Every step preserves the inductive invariant.
LEMMA NextIndInv == IndInv /\ [Next]_vars => IndInv'
  <1> SUFFICES ASSUME IndInv, [Next]_vars PROVE IndInv'
    OBVIOUS
  <1>1. CASE \E s \in Sessions, size \in LineSizes : Publish(s, size)
    BY <1>1, PublishIndInv
  <1>2. CASE PublishSnapshot
    <2>1. TypeOK'
      BY <1>2, ReplayAssumption DEF IndInv, TypeOK, PublishSnapshot
    <2>2. ReplayIsOrdered' /\ ContiguousSuffix' /\ OnlyPublished'
      BY <1>2 DEF IndInv, PublishSnapshot, ReplayIsOrdered, ContiguousSuffix,
                  OnlyPublished
    <2>3. NumbersAssigned'
      BY <1>2, ReplayAssumption
         DEF IndInv, TypeOK, Entry, PublishSnapshot, NumbersAssigned
    <2> QED
      BY <2>1, <2>2, <2>3 DEF IndInv
  <1>3. CASE UNCHANGED vars
    BY <1>3 DEF vars, IndInv, TypeOK, ReplayIsOrdered, ContiguousSuffix,
                OnlyPublished, NumbersAssigned
  <1> QED
    BY <1>1, <1>2, <1>3 DEF Next

\* The invariant implies the replay contract of canReplay and linesAfter.
LEMMA IndInvReplay == IndInv => ReplayIsComplete
  <1> SUFFICES ASSUME IndInv,
                      NEW from \in 0 .. MaxSequence,
                      NEW requested \in Sessions \cup {AnySession},
                      CanReplay(from, sequence)
               PROVE  {entries[i] : i \in LinesAfter(from, requested)} =
                      {p \in published : /\ p.sequence > from
                                         /\ requested \in {AnySession, p.sessionId}}
    BY DEF ReplayIsComplete
  <1>1. ASSUME NEW i \in LinesAfter(from, requested)
        PROVE  /\ entries[i] \in published
               /\ entries[i].sequence > from
               /\ requested \in {AnySession, entries[i].sessionId}
    BY <1>1 DEF LinesAfter, IndInv, OnlyPublished
  <1>2. ASSUME NEW p \in published, p.sequence > from,
               requested \in {AnySession, p.sessionId}
        PROVE  \E i \in LinesAfter(from, requested) : entries[i] = p
    <2>0. Len(entries) \in Nat /\ entries # <<>>
      BY DEF IndInv, TypeOK, CanReplay
    <2>1. entries[1] \in Entry /\ p \in Entry
      BY <2>0 DEF IndInv, TypeOK
    <2>2. p.sequence >= entries[1].sequence
      BY <1>2, <2>1 DEF CanReplay, Entry
    <2>3. PICK i \in 1 .. Len(entries) : entries[i] = p
      BY <2>0, <2>2 DEF IndInv, ContiguousSuffix
    <2> QED
      BY <1>2, <2>3 DEF LinesAfter
  <1> QED
    BY <1>1, <1>2

-----------------------------------------------------------------------------

\* The inductive invariant holds in every reachable state.
THEOREM SpecIndInv == Spec => []IndInv
  BY InitIndInv, NextIndInv, PTL DEF Spec

\* A replay accepted by canReplay is exactly what the subscriber missed, for
\* every cursor and every filter, whatever the retention bounds.
THEOREM ReplayComplete == Spec => []ReplayIsComplete
  BY SpecIndInv, IndInvReplay, PTL

\* Type correctness, and the replay order.
THEOREM ReplayTyped == Spec => [](TypeOK /\ ReplayIsOrdered)
  <1>1. IndInv => TypeOK /\ ReplayIsOrdered
    BY DEF IndInv
  <1> QED
    BY SpecIndInv, <1>1, PTL
-----------------------------------------------------------------------------

\* Numbering, appending and evicting an event is one Broadcast step of the
\* promise: what leaves the log is a prefix of it.
LEMMA PublishIsBroadcast ==
  ASSUME IndInv, NEW s \in Sessions, NEW size \in LineSizes, Publish(s, size)
  PROVE  Promise!Broadcast
  <1> DEFINE new == [sequence |-> sequence + 1, sessionId |-> s, bytes |-> size]
             pushed == Append(entries, new)
             retained == {entries[i].sequence : i \in 1 .. Len(entries)}
             broadcast == {p.sequence : p \in published}
  <1>1. /\ sequence < MaxSequence /\ sequence' = sequence + 1
        /\ published' = published \cup {new} /\ AppendLine(new)
    BY DEF Publish
  <1>2. sequence \in Nat /\ entries \in Seq(Entry) /\ new \in Entry
    BY ReplayAssumption DEF IndInv, TypeOK, Entry
  <1>3. /\ Len(pushed) = Len(entries) + 1 /\ Len(entries) \in Nat
        /\ pushed \in Seq(Entry)
        /\ \A n \in 1 .. Len(entries) : pushed[n] = entries[n]
        /\ pushed[Len(entries) + 1] = new
    BY <1>2
  <1>4. broadcast' = broadcast \cup {sequence + 1}
    BY <1>1
  <1>5. \A n \in 1 .. Len(pushed) :
           /\ pushed[n].sequence \in Nat /\ pushed[n].sequence <= sequence + 1
           /\ pushed[n] \in Entry
    <2> TAKE n \in 1 .. Len(pushed)
    <2>1. CASE n = Len(entries) + 1
      BY <1>2, <1>3, <2>1 DEF Entry
    <2>2. CASE n # Len(entries) + 1
      <3>1. n \in 1 .. Len(entries) /\ pushed[n] = entries[n]
        BY <1>3, <2>2
      <3>2. entries[n].sequence <= sequence /\ entries[n] \in Entry
        BY <1>2, <3>1 DEF IndInv, OnlyPublished, NumbersAssigned
      <3> QED
        BY <1>2, <3>1, <3>2 DEF Entry
    <2> QED
      BY <2>1, <2>2
  <1>6. retained \cup {sequence + 1} = {pushed[n].sequence : n \in 1 .. Len(pushed)}
    <2>1. \A n \in 1 .. Len(pushed) : n \in 1 .. Len(entries) \/ n = Len(entries) + 1
      BY <1>3
    <2>2. \A n \in 1 .. Len(entries) : n \in 1 .. Len(pushed)
      BY <1>3
    <2>3. Len(entries) + 1 \in 1 .. Len(pushed) /\ new.sequence = sequence + 1
      BY <1>3
    <2> QED
      BY <1>3, <2>1, <2>2, <2>3
  <1>7. \E oldest \in 0 .. sequence + 2 :
           retained' = {e \in retained \cup {sequence + 1} : e >= oldest}
    <2>1. CASE entries' = <<>>
      <3>1. retained' = {}
        BY <2>1
      <3>2. {e \in retained \cup {sequence + 1} : e >= sequence + 2} = {}
        BY <1>2, <1>5, <1>6
      <3>3. sequence + 2 \in 0 .. sequence + 2
        BY <1>2
      <3> QED
        BY <3>1, <3>2, <3>3
    <2>2. CASE \E k \in 0 .. Len(pushed) : entries' = SubSeq(pushed, k + 1, Len(pushed))
      <3>1. PICK k \in 0 .. Len(pushed) : entries' = SubSeq(pushed, k + 1, Len(pushed))
        BY <2>2
      <3>2. k \in Nat /\ Len(pushed) \in Nat
        BY <1>3
      <3>3. /\ entries' \in Seq(Entry)
            /\ Len(entries') = Len(pushed) - k
            /\ \A i \in 1 .. Len(entries') : entries'[i] = pushed[i + k]
        BY <1>3, <3>1, <3>2
      <3>4. CASE k = Len(pushed)
        BY <1>3, <2>1, <3>3, <3>4
      <3>5. CASE k # Len(pushed)
        <4> DEFINE oldest == pushed[k + 1].sequence
        <4>1. k + 1 \in 1 .. Len(pushed) /\ oldest \in 0 .. sequence + 2
          BY <1>2, <1>5, <3>2, <3>5
        <4>2. ASSUME NEW n \in 1 .. Len(pushed)
              PROVE  pushed[n].sequence >= oldest <=> n >= k + 1
          BY <1>1, <1>5, <3>2, <4>1, PushedIsOrdered
        <4>3. {e \in retained \cup {sequence + 1} : e >= oldest} =
              {pushed[n].sequence : n \in k + 1 .. Len(pushed)}
          <5>1. \A n \in k + 1 .. Len(pushed) :
                   n \in 1 .. Len(pushed) /\ pushed[n].sequence >= oldest
            BY <3>2, <4>2
          <5>2. ASSUME NEW n \in 1 .. Len(pushed), pushed[n].sequence >= oldest
                PROVE  n \in k + 1 .. Len(pushed)
            <6>1. n >= k + 1
              BY <4>2, <5>2
            <6> HIDE DEF pushed
            <6> QED
              BY <3>2, <6>1
          <5> HIDE DEF pushed, oldest
          <5> QED
            BY <1>6, <5>1, <5>2
        <4>4. retained' = {pushed[n].sequence : n \in k + 1 .. Len(pushed)}
          <5>1. \A i \in 1 .. Len(entries') : i + k \in k + 1 .. Len(pushed)
            BY <3>2, <3>3
          <5>2. \A n \in k + 1 .. Len(pushed) :
                   n - k \in 1 .. Len(entries') /\ entries'[n - k] = pushed[n]
            BY <3>2, <3>3
          <5> HIDE DEF pushed
          <5>3. ASSUME NEW e \in retained'
                PROVE  e \in {pushed[n].sequence : n \in k + 1 .. Len(pushed)}
            <6>1. PICK i \in 1 .. Len(entries') : e = entries'[i].sequence
              BY <5>3
            <6> QED
              BY <3>3, <5>1, <6>1
          <5>4. ASSUME NEW n \in k + 1 .. Len(pushed)
                PROVE  pushed[n].sequence \in retained'
            <6>1. n - k \in 1 .. Len(entries') /\ entries'[n - k] = pushed[n]
              BY <5>2
            <6> QED
              BY <6>1, Zenon
          <5> QED
            BY <5>3, <5>4
        <4> QED
          BY <4>1, <4>3, <4>4
      <3> QED
        BY <3>4, <3>5
    <2> QED
      BY <1>1, <2>1, <2>2, AppendLineShape
  <1> QED
    BY <1>1, <1>4, <1>7 DEF Promise!Broadcast

\* The counting log implements the promise: whatever the sizes and the bounds,
\* it always retains some suffix of what was broadcast.
THEOREM Refinement == Spec => ImplementsReplayLog
  <1>1. Init => Promise!LogInit
    BY DEF Init, Promise!LogInit
  <1>2. IndInv /\ [Next]_vars => [Promise!LogNext]_(Promise!logVars)
    <2> SUFFICES ASSUME IndInv, [Next]_vars
                 PROVE  [Promise!LogNext]_(Promise!logVars)
      OBVIOUS
    <2>1. CASE \E s \in Sessions, size \in LineSizes : Publish(s, size)
      BY <2>1, PublishIsBroadcast DEF Promise!LogNext
    <2>2. CASE PublishSnapshot
      BY <2>2 DEF PublishSnapshot, Promise!LogNext, Promise!NumberSnapshot
    <2>3. CASE UNCHANGED vars
      BY <2>3 DEF vars, Promise!logVars
    <2> QED
      BY <2>1, <2>2, <2>3 DEF Next
  <1> QED
    BY <1>1, <1>2, SpecIndInv, PTL DEF Spec, ImplementsReplayLog, Promise!LogSpec
-----------------------------------------------------------------------------
(* The byte total.  What is left after each shift is computed recursively; *)
(* by induction, as the minimality of the first number at which it fails,  *)
(* it exists, is determined by its equations, and decreases.               *)

\* Every set of numbers has a least one.
LEMMA LeastNatural ==
    ASSUME NEW T \in SUBSET Nat, T # {}
    PROVE  \E n \in T : \A m \in T : n <= m
<1> DEFINE less == {ss \in Nat \X Nat : ss[1] < ss[2]}
<1>1. IsWellFoundedOn(less, Nat)
  BY NatLessThanWellFounded DEF OpToRel
<1> HIDE DEF less
<1>2. PICK n \in T : \A m \in T : ~ (<<m, n>> \in less)
  BY <1>1, WFMin
<1>3. \A m \in T : ~(m < n)
  BY <1>2 DEF less
<1> QED
  BY <1>2, <1>3

\* f is what is left of total after each of the first n shifts.
Shifts(s, total, n, f) ==
    /\ f \in [0 .. n -> Int]
    /\ f[0] = total
    /\ \A k \in 1 .. n : f[k] = f[k - 1] - s[k].bytes

LEMMA BytesAreNumbers ==
    ASSUME NEW s \in Seq(Entry)
    PROVE  /\ Len(s) \in Nat
           /\ \A k \in 1 .. Len(s) : s[k].bytes \in Int /\ s[k].bytes > 0
<1>1. \A e \in Entry : e.bytes \in Int /\ e.bytes > 0
  <2>1. \A e \in Entry : e.bytes \in LineSizes
    BY DEF Entry
  <2>2. \A b \in LineSizes : b \in Int /\ b > 0
    BY ReplayAssumption
  <2> QED
    BY <2>1, <2>2
<1>2. \A k \in 1 .. Len(s) : s[k] \in Entry
  OBVIOUS
<1> QED
  BY <1>1, <1>2

LEMMA ShiftsExist ==
    ASSUME NEW s \in Seq(Entry), NEW total \in Int
    PROVE  \E f : Shifts(s, total, Len(s), f)
<1> DEFINE missing == {n \in 0 .. Len(s) : ~ \E f : Shifts(s, total, n, f)}
<1>1. Len(s) \in Nat /\ \A k \in 1 .. Len(s) : s[k].bytes \in Int
  BY BytesAreNumbers
<1>2. SUFFICES ASSUME missing # {} PROVE FALSE
  BY <1>1
<1>3. PICK m \in missing : \A n \in missing : m <= n
  <2>1. missing \in SUBSET Nat
    BY <1>1
  <2> HIDE DEF missing
  <2> QED
    BY <1>2, <2>1, LeastNatural
<1>4. m \in 0 .. Len(s) /\ ~ \E f : Shifts(s, total, m, f)
  OBVIOUS
<1>5. m # 0
  <2>1. Shifts(s, total, 0, [k \in 0 .. 0 |-> total])
    BY DEF Shifts
  <2> QED
    BY <1>4, <2>1
<1>6. m - 1 \in 0 .. Len(s) /\ m - 1 \notin missing
  BY <1>1, <1>3, <1>4, <1>5
<1>7. PICK f : Shifts(s, total, m - 1, f)
  BY <1>6
<1> DEFINE g == [k \in 0 .. m |-> IF k = m THEN f[m - 1] - s[m].bytes ELSE f[k]]
<1>8. \A k \in 0 .. m - 1 : f[k] \in Int /\ g[k] = f[k]
  BY <1>4, <1>7 DEF Shifts
<1>9. Shifts(s, total, m, g)
  <2>1. g[0] = total
    BY <1>4, <1>5, <1>7 DEF Shifts
  <2>2. g \in [0 .. m -> Int]
    <3>1. m \in 1 .. Len(s) /\ m - 1 \in 0 .. m - 1
      BY <1>1, <1>4, <1>5
    <3>2. f[m - 1] - s[m].bytes \in Int
      <4>1. f[m - 1] \in Int
        BY <1>8, <3>1
      <4>2. s[m].bytes \in Int
        BY <1>1, <3>1
      <4> QED
        BY <4>1, <4>2
    <3>3. \A k \in 0 .. m : k # m => k \in 0 .. m - 1
      BY <1>1, <3>1
    <3> QED
      BY <1>8, <3>2, <3>3
  <2>3. ASSUME NEW k \in 1 .. m PROVE g[k] = g[k - 1] - s[k].bytes
    <3>1. k - 1 \in 0 .. m - 1
      BY <1>4
    <3>2. CASE k = m
      BY <1>4, <1>5, <1>8, <3>1, <3>2
    <3>3. CASE k # m
      <4>1. k \in 1 .. m - 1 /\ k \in 0 .. m - 1
        BY <1>4, <3>3
      <4>2. f[k] = f[k - 1] - s[k].bytes
        BY <1>7, <4>1 DEF Shifts
      <4> QED
        BY <1>8, <3>1, <4>1, <4>2
    <3> QED
      BY <3>2, <3>3
  <2> HIDE DEF g
  <2> QED
    BY <2>1, <2>2, <2>3 DEF Shifts
<1> QED
  BY <1>4, <1>9

\* The byte totals of the eviction loop are what the loop computes.
LEMMA ShiftsAreSubtractions ==
    ASSUME NEW s \in Seq(Entry), NEW total \in Int
    PROVE  Shifts(s, total, Len(s), BytesAfterShifts(s, total))
<1>1. PICK f : Shifts(s, total, Len(s), f)
  BY ShiftsExist
<1>2. Len(s) \in Nat
  OBVIOUS
<1>3. f = [k \in 0 .. Len(s) |-> IF k = 0 THEN total ELSE f[k - 1] - s[k].bytes]
  BY <1>1, <1>2 DEF Shifts
<1> DEFINE total_after == BytesAfterShifts(s, total)
<1>4. total_after = [k \in 0 .. Len(s) |-> IF k = 0 THEN total ELSE total_after[k - 1] - s[k].bytes]
  BY <1>3 DEF BytesAfterShifts
<1>5. /\ total_after[0] = total
      /\ \A k \in 1 .. Len(s) : total_after[k] = total_after[k - 1] - s[k].bytes
  <2> HIDE DEF total_after
  <2>1. 0 \in 0 .. Len(s) /\ \A k \in 1 .. Len(s) : k \in 0 .. Len(s) /\ k # 0
    BY <1>2
  <2> QED
    BY <1>4, <2>1
<1>6. \A k \in 0 .. Len(s) : total_after[k] \in Int
  <2> DEFINE missing == {k \in 0 .. Len(s) : total_after[k] \notin Int}
  <2>1. SUFFICES ASSUME missing # {} PROVE FALSE
    OBVIOUS
  <2>2. PICK m \in missing : \A k \in missing : m <= k
    <3>1. missing \in SUBSET Nat
      BY <1>2
    <3> HIDE DEF missing
    <3> QED
      BY <2>1, <3>1, LeastNatural
  <2> HIDE DEF total_after
  <2>3. m \in 1 .. Len(s)
    BY <1>2, <1>5
  <2>4. m - 1 \in 0 .. Len(s) /\ m - 1 \notin missing
    BY <1>2, <2>2, <2>3
  <2> QED
    BY <1>5, <2>2, <2>3, <2>4, BytesAreNumbers
<1> HIDE DEF total_after
<1>7. total_after \in [0 .. Len(s) -> Int]
  BY <1>4, <1>6
<1> QED
  BY <1>5, <1>7 DEF Shifts, total_after

\* Whatever is computed shift by shift from the same total is the same.
LEMMA ShiftsAgree ==
    ASSUME NEW s \in Seq(Entry), NEW total \in Int, NEW f, Shifts(s, total, Len(s), f)
    PROVE  \A k \in 0 .. Len(s) : BytesAfterShifts(s, total)[k] = f[k]
<1> DEFINE left == BytesAfterShifts(s, total)
           differ == {k \in 0 .. Len(s) : left[k] # f[k]}
<1>1. Shifts(s, total, Len(s), left)
  BY ShiftsAreSubtractions
<1> HIDE DEF left
<1>2. SUFFICES ASSUME differ # {} PROVE FALSE
  BY DEF left
<1>3. Len(s) \in Nat
  OBVIOUS
<1>4. PICK m \in differ : \A k \in differ : m <= k
  <2>1. differ \in SUBSET Nat
    BY <1>3
  <2> HIDE DEF differ
  <2> QED
    BY <1>2, <2>1, LeastNatural
<1>5. m \in 1 .. Len(s)
  BY <1>1, <1>3 DEF Shifts
<1>6. m - 1 \in 0 .. Len(s) /\ m - 1 \notin differ
  BY <1>3, <1>4, <1>5
<1>7. left[m] = left[m - 1] - s[m].bytes /\ f[m] = f[m - 1] - s[m].bytes
  BY <1>1, <1>5 DEF Shifts
<1> QED
  BY <1>6, <1>7

\* What is left only decreases.
LEMMA ShiftsDecrease ==
    ASSUME NEW s \in Seq(Entry), NEW total \in Int, NEW f, Shifts(s, total, Len(s), f)
    PROVE  \A k \in 0 .. Len(s) : f[k] \in Int /\ f[k] >= f[Len(s)]
<1> DEFINE below == {n \in 0 .. Len(s) : ~(f[Len(s) - n] >= f[Len(s)])}
<1>1. Len(s) \in Nat /\ \A k \in 1 .. Len(s) : s[k].bytes \in Int /\ s[k].bytes > 0
  BY BytesAreNumbers
<1>2. \A k \in 0 .. Len(s) : f[k] \in Int
  BY DEF Shifts
<1>3. below = {}
  <2>1. SUFFICES ASSUME below # {} PROVE FALSE
    OBVIOUS
  <2>2. PICK n \in below : \A k \in below : n <= k
    <3>1. below \in SUBSET Nat
      BY <1>1
    <3> HIDE DEF below
    <3> QED
      BY <2>1, <3>1, LeastNatural
  <2>3. n # 0
    BY <1>1, <1>2
  <2>4. n - 1 \in 0 .. Len(s) /\ n - 1 \notin below
    <3>1. n \in 0 .. Len(s) /\ n - 1 \in 0 .. Len(s) /\ ~(n <= n - 1)
      BY <1>1, <2>3
    <3> HIDE DEF below
    <3> QED
      BY <2>2, <3>1
  <2> DEFINE k == Len(s) - n
  <2>5. k \in 0 .. Len(s) /\ k + 1 \in 1 .. Len(s) /\ k + 1 \in 0 .. Len(s)
        /\ Len(s) - (n - 1) = k + 1 /\ (k + 1) - 1 = k
    BY <1>1, <2>3
  <2>6. f[k + 1] >= f[Len(s)] /\ ~(f[k] >= f[Len(s)])
    BY <2>4, <2>5
  <2> HIDE DEF k
  <2>7. f[k + 1] = f[k] - s[k + 1].bytes
    BY <2>5 DEF Shifts
  <2>8. f[k] \in Int /\ f[k + 1] \in Int /\ f[Len(s)] \in Int
        /\ s[k + 1].bytes \in Int /\ s[k + 1].bytes > 0
    BY <1>1, <1>2, <2>5
  <2> QED
    BY <2>6, <2>7, <2>8
<1>4. ASSUME NEW k \in 0 .. Len(s) PROVE f[k] >= f[Len(s)]
  <2>1. Len(s) - k \in 0 .. Len(s) /\ Len(s) - (Len(s) - k) = k
    BY <1>1
  <2>2. Len(s) - k \notin below
    BY <1>3
  <2> QED
    BY <2>1, <2>2
<1> QED
  BY <1>2, <1>4

\* Pushing a line adds its bytes to what is left before it goes.
LEMMA PushAdds ==
    ASSUME NEW s \in Seq(Entry), NEW total \in Int, NEW e \in Entry,
           BytesAfterShifts(s, total)[Len(s)] = 0
    PROVE  /\ \A k \in 0 .. Len(s) :
                 BytesAfterShifts(Append(s, e), total + e.bytes)[k] =
                    BytesAfterShifts(s, total)[k] + e.bytes
           /\ BytesAfterShifts(Append(s, e), total + e.bytes)[Len(s) + 1] = 0
<1> DEFINE left == BytesAfterShifts(s, total)
           pushed == Append(s, e)
           g == [k \in 0 .. Len(s) + 1 |-> IF k = Len(s) + 1 THEN 0 ELSE left[k] + e.bytes]
<1>1. Shifts(s, total, Len(s), left)
  BY ShiftsAreSubtractions
<1>2. /\ pushed \in Seq(Entry) /\ Len(pushed) = Len(s) + 1 /\ Len(s) \in Nat
      /\ \A k \in 1 .. Len(s) : pushed[k] = s[k]
      /\ pushed[Len(s) + 1] = e
  OBVIOUS
<1>3. e.bytes \in Int /\ \A k \in 1 .. Len(s) : s[k].bytes \in Int
  <2>1. e.bytes \in LineSizes
    BY DEF Entry
  <2>2. \A k \in 1 .. Len(s) : s[k].bytes \in Int
    BY BytesAreNumbers
  <2>3. \A b \in LineSizes : b \in Int
    BY ReplayAssumption
  <2> QED
    BY <2>1, <2>2, <2>3
<1>4. left[Len(s)] = 0
  OBVIOUS
<1> HIDE DEF left, pushed
<1>5. \A k \in 0 .. Len(s) : left[k] \in Int
  BY <1>1 DEF Shifts
<1>6. total + e.bytes \in Int
  BY <1>3
<1>7. Shifts(pushed, total + e.bytes, Len(s) + 1, g)
  <2>1. \A k \in 0 .. Len(s) : k \in 0 .. Len(s) + 1 /\ k # Len(s) + 1 /\ g[k] = left[k] + e.bytes
    BY <1>2
  <2>2. g[Len(s) + 1] = 0
    BY <1>2
  <2>3. g \in [0 .. Len(s) + 1 -> Int]
    <3>1. \A k \in 0 .. Len(s) + 1 : k # Len(s) + 1 => left[k] + e.bytes \in Int
      BY <1>2, <1>3, <1>5
    <3> QED
      BY <3>1
  <2>4. g[0] = total + e.bytes
    BY <1>1, <1>2, <2>1 DEF Shifts
  <2>5. ASSUME NEW k \in 1 .. Len(s) + 1 PROVE g[k] = g[k - 1] - pushed[k].bytes
    <3>1. CASE k = Len(s) + 1
      <4>1. g[k] = 0 /\ g[k - 1] = 0 + e.bytes /\ pushed[k].bytes = e.bytes
        BY <1>2, <1>4, <2>1, <2>2, <3>1
      <4> QED
        BY <1>3, <4>1
    <3>2. CASE k # Len(s) + 1
      <4>1. k \in 1 .. Len(s) /\ k \in 0 .. Len(s) /\ k - 1 \in 0 .. Len(s)
        BY <1>2, <3>2
      <4>2. left[k] = left[k - 1] - s[k].bytes
        BY <1>1, <4>1 DEF Shifts
      <4>3. g[k] = left[k] + e.bytes /\ g[k - 1] = left[k - 1] + e.bytes
            /\ pushed[k].bytes = s[k].bytes
        BY <1>2, <2>1, <4>1
      <4>4. left[k] \in Int /\ left[k - 1] \in Int /\ s[k].bytes \in Int
        BY <1>3, <1>5, <4>1
      <4> QED
        BY <1>3, <4>2, <4>3, <4>4
    <3> QED
      BY <3>1, <3>2
  <2> HIDE DEF g
  <2> QED
    BY <2>3, <2>4, <2>5 DEF Shifts
<1>8. \A k \in 0 .. Len(s) + 1 : BytesAfterShifts(pushed, total + e.bytes)[k] = g[k]
  <2> HIDE DEF g
  <2> QED
    BY <1>2, <1>6, <1>7, ShiftsAgree
<1>9. \A k \in 0 .. Len(s) : k \in 0 .. Len(s) + 1 /\ g[k] = left[k] + e.bytes
  BY <1>2
<1>10. Len(s) + 1 \in 0 .. Len(s) + 1 /\ g[Len(s) + 1] = 0
  BY <1>2
<1> HIDE DEF g
<1> QED
  BY <1>8, <1>9, <1>10 DEF left, pushed

\* After k shifts, the rest of the log leaves what it left before.
LEMMA ShiftContinues ==
    ASSUME NEW s \in Seq(Entry), NEW total \in Int, NEW k \in 0 .. Len(s)
    PROVE  LET rest == SubSeq(s, k + 1, Len(s))
           IN  /\ BytesAfterShifts(s, total)[k] \in Int
               /\ \A i \in 0 .. Len(rest) :
                     BytesAfterShifts(rest, BytesAfterShifts(s, total)[k])[i] =
                        BytesAfterShifts(s, total)[k + i]
               /\ rest \in Seq(Entry) /\ Len(rest) = Len(s) - k
<1> DEFINE left == BytesAfterShifts(s, total)
           rest == SubSeq(s, k + 1, Len(s))
           g == [i \in 0 .. Len(rest) |-> left[k + i]]
<1>1. Shifts(s, total, Len(s), left)
  BY ShiftsAreSubtractions
<1>2. Len(s) \in Nat /\ k \in Nat /\ k <= Len(s)
  OBVIOUS
<1>3. /\ rest \in Seq(Entry) /\ Len(rest) = Len(s) - k
      /\ \A i \in 1 .. Len(rest) : rest[i] = s[k + i]
  BY <1>2
<1> HIDE DEF left, rest
<1>4. \A i \in 0 .. Len(s) : left[i] \in Int
  BY <1>1 DEF Shifts
<1>5. \A i \in 0 .. Len(rest) : k + i \in 0 .. Len(s)
  BY <1>2, <1>3
<1>6. Shifts(rest, left[k], Len(rest), g)
  <2>1. g \in [0 .. Len(rest) -> Int]
    BY <1>4, <1>5
  <2>2. g[0] = left[k]
    BY <1>2, <1>3
  <2>3. ASSUME NEW i \in 1 .. Len(rest) PROVE g[i] = g[i - 1] - rest[i].bytes
    <3>1. /\ i \in 0 .. Len(rest) /\ i - 1 \in 0 .. Len(rest)
          /\ k + i \in 1 .. Len(s) /\ (k + i) - 1 = k + (i - 1)
      BY <1>2, <1>3
    <3>2. left[k + i] = left[(k + i) - 1] - s[k + i].bytes
      BY <1>1, <3>1 DEF Shifts
    <3>3. g[i] = left[k + i] /\ g[i - 1] = left[k + (i - 1)]
      BY <3>1
    <3> HIDE DEF g
    <3> QED
      BY <1>3, <3>1, <3>2, <3>3
  <2> HIDE DEF g
  <2> QED
    BY <2>1, <2>2, <2>3 DEF Shifts
<1>7. left[k] \in Int
  BY <1>4
<1>8. \A i \in 0 .. Len(rest) : BytesAfterShifts(rest, left[k])[i] = g[i]
  <2> HIDE DEF g
  <2> QED
    BY <1>3, <1>6, <1>7, ShiftsAgree
<1> QED
  BY <1>3, <1>7, <1>8 DEF left, rest

-----------------------------------------------------------------------------
\* The invariant of the byte total.
BytesInv == IndInv /\ RetentionBounded

\* A shorter form of the state a publication starts from.
LEMMA PublishTotals ==
    ASSUME BytesInv, NEW s \in Sessions, NEW size \in LineSizes
    PROVE  LET new    == [sequence |-> sequence + 1, sessionId |-> s, bytes |-> size]
               pushed == Append(entries, new)
               total  == retainedBytes + size
           IN  /\ new \in Entry /\ pushed \in Seq(Entry) /\ Len(pushed) = Len(entries) + 1
               /\ Len(entries) \in Nat /\ total \in Int /\ size \in Int /\ size > 0
               /\ Shifts(pushed, total, Len(pushed), BytesAfterShifts(pushed, total))
               /\ BytesAfterShifts(pushed, total)[Len(pushed)] = 0
               /\ \A k \in 0 .. Len(pushed) : /\ BytesAfterShifts(pushed, total)[k] \in Int
                                              /\ BytesAfterShifts(pushed, total)[k] >= 0
               /\ \A k \in 0 .. Len(entries) :
                     /\ BytesAfterShifts(pushed, total)[k] =
                           BytesAfterShifts(entries, retainedBytes)[k] + size
                     /\ BytesAfterShifts(entries, retainedBytes)[k] \in Int
                     /\ BytesAfterShifts(entries, retainedBytes)[k] >= 0
<1> DEFINE new == [sequence |-> sequence + 1, sessionId |-> s, bytes |-> size]
           pushed == Append(entries, new)
           total == retainedBytes + size
           after == BytesAfterShifts(pushed, total)
           before == BytesAfterShifts(entries, retainedBytes)
<1>1. /\ sequence + 1 \in Nat /\ entries \in Seq(Entry) /\ retainedBytes \in Int
      /\ before[Len(entries)] = 0
  BY ReplayAssumption DEF BytesInv, IndInv, TypeOK, RetentionBounded
<1>2. size \in Int /\ size > 0
  BY ReplayAssumption
<1>3. new \in Entry /\ new.bytes = size
  BY <1>1 DEF Entry
<1> HIDE DEF new
<1>4. pushed \in Seq(Entry) /\ Len(pushed) = Len(entries) + 1 /\ Len(entries) \in Nat
  BY <1>1, <1>3
<1>5. total \in Int
  BY <1>1, <1>2
<1>6. /\ \A k \in 0 .. Len(entries) : after[k] = before[k] + size
      /\ after[Len(entries) + 1] = 0
  BY <1>1, <1>3, PushAdds
<1> HIDE DEF pushed, total
<1>7. Shifts(pushed, total, Len(pushed), after)
  BY <1>4, <1>5, ShiftsAreSubtractions
<1>8. Shifts(entries, retainedBytes, Len(entries), before)
  BY <1>1, ShiftsAreSubtractions
<1> HIDE DEF after, before
<1>9. \A k \in 0 .. Len(pushed) : after[k] \in Int /\ after[k] >= after[Len(pushed)]
  BY <1>4, <1>5, <1>7, ShiftsDecrease
<1>10. \A k \in 0 .. Len(entries) : before[k] \in Int /\ before[k] >= before[Len(entries)]
  BY <1>1, <1>8, ShiftsDecrease
<1> QED
  BY <1>1, <1>2, <1>3, <1>4, <1>5, <1>6, <1>7, <1>9, <1>10 DEF new, pushed, total, after, before

\* An empty log with nothing left.
LEMMA NothingLeft == BytesAfterShifts(<<>>, 0)[0] = 0
<1> DEFINE none == <<>>
           zero == 0
           left == BytesAfterShifts(none, zero)
<1>1. none \in Seq(Entry) /\ Len(none) = 0 /\ zero \in Int
  OBVIOUS
<1> HIDE DEF none, zero
<1>2. Shifts(none, zero, Len(none), left)
  BY <1>1, ShiftsAreSubtractions
<1> HIDE DEF left
<1>3. left[0] = zero
  BY <1>2 DEF Shifts
<1> QED
  BY <1>3 DEF left, none, zero

\* Publishing keeps the total the sum of what is retained, and within its ceiling.
LEMMA PublishBytes ==
    ASSUME BytesInv, IndInv', NEW s \in Sessions, NEW size \in LineSizes, Publish(s, size)
    PROVE  RetentionBounded'
<1> DEFINE new == [sequence |-> sequence + 1, sessionId |-> s, bytes |-> size]
           pushed == Append(entries, new)
           total == retainedBytes + size
           after == BytesAfterShifts(pushed, total)
<1>1. AppendLine(new) /\ new.bytes = size
  BY DEF Publish
<1>2. Len(entries') <= MaxEvents /\ MaxBytes \in Nat
  BY ReplayAssumption DEF IndInv, TypeOK
<1>3. CASE size > MaxBytes
  <2>1. entries' = <<>> /\ retainedBytes' = 0
    BY <1>1, <1>3 DEF AppendLine
  <2>2. BytesAfterShifts(entries', retainedBytes')[Len(entries')] = 0
    BY <2>1, NothingLeft
  <2> QED
    BY <1>2, <2>1, <2>2 DEF RetentionBounded
<1>4. CASE ~(size > MaxBytes)
  <2>1. AppendFitting(new)
    BY <1>1, <1>4 DEF AppendLine
  <2>2. PICK k \in 0 .. Len(pushed) :
           /\ k = Len(pushed) \/ after[k] <= MaxBytes
           /\ entries' = SubSeq(pushed, k + 1, Len(pushed))
           /\ retainedBytes' = after[k]
    BY <1>1, <2>1 DEF AppendFitting, StopsAfter
  <2>3. /\ pushed \in Seq(Entry) /\ Len(pushed) \in Nat /\ total \in Int
        /\ after[Len(pushed)] = 0
        /\ \A j \in 0 .. Len(pushed) : after[j] \in Int /\ after[j] >= 0
    BY PublishTotals
  <2> HIDE DEF pushed, total
  <2>4. /\ \A i \in 0 .. Len(entries') :
              BytesAfterShifts(entries', retainedBytes')[i] = after[k + i]
        /\ Len(entries') = Len(pushed) - k
    BY <2>2, <2>3, ShiftContinues
  <2> HIDE DEF after
  <2>5. Len(entries') \in 0 .. Len(entries') /\ k + Len(entries') = Len(pushed)
    BY <2>2, <2>3, <2>4
  <2>6. BytesAfterShifts(entries', retainedBytes')[Len(entries')] = 0
    BY <2>3, <2>4, <2>5
  <2>7. retainedBytes' \in 0 .. MaxBytes
    BY <1>2, <2>2, <2>3
  <2> QED
    BY <1>2, <2>6, <2>7 DEF RetentionBounded
<1> QED
  BY <1>3, <1>4

\* The eviction of one publication: what leaves could not have stayed.
Pressed ==
    \A k \in 1 .. Len(entries) :
       (\A i \in DOMAIN entries' : entries'[i] # entries[k]) =>
          LET new == CHOOSE p \in published' : p.sequence = sequence'
          IN  \/ Len(entries) + 1 - k + 1 > MaxEvents
              \/ BytesAfterShifts(entries, retainedBytes)[k - 1] + new.bytes > MaxBytes

LEMMA PublishPressed ==
    ASSUME BytesInv, NEW s \in Sessions, NEW size \in LineSizes, Publish(s, size)
    PROVE  Pressed
<1> DEFINE new == [sequence |-> sequence + 1, sessionId |-> s, bytes |-> size]
           pushed == Append(entries, new)
           total == retainedBytes + size
           after == BytesAfterShifts(pushed, total)
           before == BytesAfterShifts(entries, retainedBytes)
<1>1. /\ AppendLine(new) /\ new.bytes = size /\ new.sequence = sequence + 1
      /\ sequence' = sequence + 1 /\ published' = published \cup {new}
  BY DEF Publish
<1>2. (CHOOSE p \in published' : p.sequence = sequence') = new
  <2>1. sequence \in Nat /\ \A p \in published : p.sequence \in Nat /\ p.sequence <= sequence
    BY ReplayAssumption DEF BytesInv, IndInv, TypeOK, Entry, NumbersAssigned
  <2>2. \A p \in published : p.sequence # sequence'
    BY <1>1, <2>1
  <2>3. new \in published' /\ new.sequence = sequence'
    BY <1>1
  <2>4. \A p \in published' : p.sequence = sequence' => p = new
    BY <1>1, <2>2
  <2> HIDE DEF new
  <2> QED
    BY <2>3, <2>4
<1>3. /\ entries \in Seq(Entry) /\ Len(entries) \in Nat /\ MaxBytes \in Nat /\ MaxEvents \in Nat
  BY ReplayAssumption DEF BytesInv, IndInv, TypeOK
<1>4. /\ new \in Entry /\ Len(pushed) = Len(entries) + 1 /\ size \in Int
      /\ pushed \in Seq(Entry)
      /\ \A j \in 0 .. Len(entries) : /\ after[j] = before[j] + size
                                      /\ before[j] \in Int /\ before[j] >= 0
  BY PublishTotals
<1>5. \A j \in 1 .. Len(entries) : pushed[j] = entries[j]
  BY <1>3, <1>4
<1> SUFFICES ASSUME NEW k \in 1 .. Len(entries),
                    \A i \in DOMAIN entries' : entries'[i] # entries[k]
             PROVE  Len(entries) + 1 - k + 1 > MaxEvents \/ before[k - 1] + size > MaxBytes
  BY <1>1, <1>2 DEF Pressed
<1>6. k - 1 \in 0 .. Len(entries)
  BY <1>3
<1>7. CASE size > MaxBytes
  <2> HIDE DEF after, before
  <2> QED
    BY <1>3, <1>4, <1>6, <1>7
<1>8. CASE ~(size > MaxBytes)
  <2>1. PICK stop \in 0 .. Len(pushed) :
           /\ \A j \in 0 .. stop - 1 : ~StopsAfter(pushed, total, j)
           /\ entries' = SubSeq(pushed, stop + 1, Len(pushed))
    BY <1>1, <1>8 DEF AppendLine, AppendFitting
  <2> HIDE DEF pushed, after, before, new, total
  <2>2. k <= stop
    <3> SUFFICES ASSUME ~(k <= stop) PROVE FALSE
      OBVIOUS
    <3>1. /\ DOMAIN entries' = 1 .. Len(pushed) - stop
          /\ \A i \in 1 .. Len(pushed) - stop : entries'[i] = pushed[i + stop]
      BY <1>3, <1>4, <2>1
    <3>2. k - stop \in 1 .. Len(pushed) - stop /\ (k - stop) + stop = k
      BY <1>3, <1>4
    <3> QED
      BY <1>5, <3>1, <3>2
  <2>3. k - 1 \in 0 .. stop - 1 /\ k - 1 # Len(pushed)
    BY <1>3, <1>4, <2>2
  <2>4. ~(Len(pushed) - (k - 1) <= MaxEvents) \/ ~(after[k - 1] <= MaxBytes)
    BY <2>1, <2>3 DEF StopsAfter, after
  <2> QED
    BY <1>3, <1>4, <1>6, <2>4
<1> QED
  BY <1>7, <1>8

\* Both bounds hold, and the running total is the sum of the retained bytes, for every
\* ceiling and every choice of line sizes.
THEOREM RetentionIsBounded == Spec => []RetentionBounded
<1>1. Init => RetentionBounded
  BY NothingLeft, ReplayAssumption DEF Init, RetentionBounded
<1>2. BytesInv /\ IndInv' /\ [Next]_vars => RetentionBounded'
  <2> SUFFICES ASSUME BytesInv, IndInv', [Next]_vars PROVE RetentionBounded'
    OBVIOUS
  <2>1. CASE \E s \in Sessions, size \in LineSizes : Publish(s, size)
    BY <2>1, PublishBytes
  <2>2. CASE PublishSnapshot \/ UNCHANGED vars
    BY <2>2 DEF PublishSnapshot, vars, BytesInv, RetentionBounded
  <2> QED
    BY <2>1, <2>2 DEF Next
<1> QED
  BY <1>1, <1>2, SpecIndInv, PTL DEF Spec, BytesInv

\* An event leaves the log only where keeping it would have broken a bound.
THEOREM EvictionIsNeeded == Spec => EvictsOnlyUnderPressure
<1>1. BytesInv /\ [Next]_vars => [Pressed]_vars
  <2> SUFFICES ASSUME BytesInv, [Next]_vars PROVE [Pressed]_vars
    OBVIOUS
  <2>1. CASE \E s \in Sessions, size \in LineSizes : Publish(s, size)
    BY <2>1, PublishPressed
  <2>2. CASE PublishSnapshot
    <3>1. entries' = entries /\ entries \in Seq(Entry)
      BY <2>2 DEF PublishSnapshot, BytesInv, IndInv, TypeOK
    <3> QED
      BY <3>1 DEF Pressed
  <2>3. CASE UNCHANGED vars
    BY <2>3
  <2> QED
    BY <2>1, <2>2, <2>3 DEF Next
<1>2. EvictsOnlyUnderPressure <=> [][Pressed]_vars
  BY DEF EvictsOnlyUnderPressure, Pressed
<1>3. Spec => [][Pressed]_vars
  BY <1>1, SpecIndInv, RetentionIsBounded, PTL DEF Spec, BytesInv
<1> QED
  BY <1>2, <1>3, PTL

-----------------------------------------------------------------------------
(* The lock: withCrossProcessLock serializes its callers until a live      *)
(* owner's file is removed, through crashes.                               *)

\* The state components stay in their types: every read of withCrossProcessLock
\* sees a lock file some call created, or none.
THEOREM LockTypeCorrect == LockSpec => []LockTypeOK
<1> USE LockAssumption
<1>1. LockInit => LockTypeOK
  BY DEF LockInit, LockTypeOK, Files, Places
<1>2. LockTypeOK /\ [LockNext]_lockVars => LockTypeOK'
  <2> SUFFICES ASSUME LockTypeOK, [LockNext]_lockVars PROVE LockTypeOK'
    OBVIOUS
  <2> USE DEF LockTypeOK, Files, Places, Goes
  <2>1. ASSUME NEW c \in Calls, Create(c) PROVE LockTypeOK'
    <3>1. [call |-> c, written |-> FALSE, stale |-> FALSE] \in Files
      OBVIOUS
    <3>2. lockFile' \in Files
      BY <2>1, <3>1 DEF Create
    <3>3. pc' \in [Calls -> Places]
      BY <2>1 DEF Create
    <3>4. QED
      BY <2>1, <3>2, <3>3 DEF Create
  <2>2. ASSUME NEW c \in Calls, WriteClaim(c) PROVE LockTypeOK'
    <3>1. ASSUME lockFile.call = c
          PROVE  [lockFile EXCEPT !.written = TRUE] \in Files
      <4>1. lockFile # NoFile
        BY <3>1 DEF NoFile
      <4>2. lockFile \in [call : Calls, written : BOOLEAN, stale : BOOLEAN]
        BY <4>1
      <4>3. QED
        BY <4>2
    <3>2. lockFile' \in Files
      BY <2>2, <3>1 DEF WriteClaim
    <3>3. pc' \in [Calls -> Places]
      BY <2>2 DEF WriteClaim
    <3>4. QED
      BY <2>2, <3>2, <3>3 DEF WriteClaim
  <2>3. ASSUME NEW c \in Calls, ReadClaim(c) \/ Judge(c) PROVE LockTypeOK'
    BY <2>3 DEF ReadClaim, Judge
  <2>4. ASSUME NEW c \in Calls, Remove(c) PROVE LockTypeOK'
    BY <2>4 DEF Remove
  <2>5. ASSUME NEW c \in Calls, Retry(c) \/ GiveUp(c) \/ Finish(c) PROVE LockTypeOK'
    BY <2>5 DEF Retry, GiveUp, Finish
  <2>6. ASSUME NEW c \in Calls, CheckNonce(c) \/ Unlink(c) PROVE LockTypeOK'
    BY <2>6 DEF CheckNonce, Unlink
  <2>7. ASSUME NEW p \in Processes, Crash(p) PROVE LockTypeOK'
    BY <2>7 DEF Crash
  <2>8. CASE Age
    BY <2>8 DEF Age, NoFile
  <2>9. CASE UNCHANGED lockVars
    BY <2>9 DEF lockVars
  <2>10. QED
    BY <2>1, <2>2, <2>3, <2>4, <2>5, <2>6, <2>7, <2>8, <2>9 DEF LockNext, Proceed
<1>3. QED
  BY <1>1, <1>2, PTL DEF LockSpec

\* A call that lets go of the file, or never held it, disturbs nobody's claim.
LEMMA OwnershipStep ==
    ASSUME LockTypeOK, Ownership, [LockNext]_lockVars
    PROVE  Ownership'
<1> USE LockAssumption DEF LockTypeOK, Ownership, Holding, Places, Goes
<1>1. ASSUME NEW c \in Calls, Create(c) PROVE Ownership'
  <2>1. CASE lockFile = NoFile
    <3>1. ~stolen => \A d \in Calls : pc[d] \notin Holding
      BY <2>1 DEF NoFile
    <3>2. \A d \in Calls \ {c} : pc'[d] = pc[d]
      BY <1>1 DEF Create
    <3>3. lockFile'.call = c /\ stolen' = stolen /\ alive' = alive
      BY <1>1, <2>1 DEF Create
    <3>4. QED
      BY <1>1, <3>1, <3>2, <3>3 DEF Create
  <2>2. CASE lockFile # NoFile
    BY <1>1, <2>2 DEF Create
  <2>3. QED
    BY <2>1, <2>2
<1>2. ASSUME NEW c \in Calls, WriteClaim(c) PROVE Ownership'
  <2>1. lockFile'.call = lockFile.call
    BY <1>2 DEF WriteClaim, Files, NoFile
  <2>2. QED
    BY <1>2, <2>1 DEF WriteClaim
<1>3. ASSUME NEW c \in Calls, ReadClaim(c) \/ Judge(c) PROVE Ownership'
  BY <1>3 DEF ReadClaim, Judge
<1>4. ASSUME NEW c \in Calls, Remove(c) PROVE Ownership'
  <2>1. ASSUME ~stolen' PROVE \A d \in Calls : pc[d] \notin Holding
    <3>1. lockFile = NoFile \/ Pid[lockFile.call] \notin alive
      BY <1>4, <2>1 DEF Remove
    <3>2. ~stolen
      BY <1>4, <2>1 DEF Remove
    <3>3. QED
      BY <3>1, <3>2 DEF NoFile
  <2>2. QED
    BY <1>4, <2>1 DEF Remove
<1>5. ASSUME NEW c \in Calls, Retry(c) \/ GiveUp(c) \/ Finish(c) PROVE Ownership'
  BY <1>5 DEF Retry, GiveUp, Finish
<1>6. ASSUME NEW c \in Calls, CheckNonce(c) PROVE Ownership'
  BY <1>6 DEF CheckNonce
<1>7. ASSUME NEW c \in Calls, Unlink(c) PROVE Ownership'
  BY <1>7 DEF Unlink
<1>8. ASSUME NEW p \in Processes, Crash(p) PROVE Ownership'
  BY <1>8 DEF Crash
<1>9. CASE Age
  BY <1>9 DEF Age, Files, NoFile
<1>10. CASE UNCHANGED lockVars
  BY <1>10 DEF lockVars
<1>11. QED
  BY <1>1, <1>2, <1>3, <1>4, <1>5, <1>6, <1>7, <1>8, <1>9, <1>10
  DEF LockNext, Proceed

\* Until some call removes the lock file of a live owner, no two operations run
\* at once: the exclusive create, the nonce and the removal of dead owners'
\* files leave no other hole in withCrossProcessLock.
THEOREM Serialized == LockSpec => []ExclusionUnlessStolen
<1>1. LockInit => Ownership
  BY LockAssumption DEF LockInit, Ownership, Holding
<1>2. Ownership => ExclusionUnlessStolen
  BY DEF Ownership, ExclusionUnlessStolen, MutualExclusion, Operating, Holding
<1>3. QED
  BY <1>1, <1>2, LockTypeCorrect, OwnershipStep, PTL DEF LockSpec
=============================================================================
