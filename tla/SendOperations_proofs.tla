------------------------- MODULE SendOperations_proofs -------------------------
(***************************************************************************)
(* The registry runs one intent once, whoever is told "accepted" had its   *)
(* payload run, and a receipt is kept for its time unless as many others   *)
(* are kept, for every set of operations, requests and bounds.             *)
(***************************************************************************)
EXTENDS SendOperations, FiniteSetTheorems, WellFoundedInduction, TLAPS

\* An entry belongs to a request with that operation and that payload, and a
\* receipt to one that ran.
EntriesAreTrue ==
    \A op \in Operations : registry.entries[op] # NoEntry =>
        LET entry == registry.entries[op]
        IN  /\ Operation[entry.owner] = op
            /\ Payload[entry.owner] = entry.payload
            /\ entry.state = "accepted" => entry.owner \in ran

\* A duplicate waits on a pending entry with its own payload.
WaitersMatch ==
    \A r \in Requests : request[r].pc = "waiting" =>
        /\ registry.entries[Operation[r]].state = "pending"
        /\ registry.entries[Operation[r]].payload = Payload[r]

\* What ran is still running, or left a receipt or a tombstone, or was forgotten.
RanIsRemembered ==
    \A r \in ran :
        \/ request[r].pc = "ran"
        \/ registry.entries[Operation[r]].state = "accepted"
        \/ Operation[r] \in Tombstones(registry) \cup registry.forgotten

\* A tombstone and an entry never stand for the same operation.
TombstonesAlone ==
    \A op \in Tombstones(registry) : registry.entries[op] = NoEntry

\* A request whose turn started is recorded, and none is from a later lifetime.
RequestsTrue ==
    \A r \in Requests : /\ request[r].pc = "ran" => r \in ran
                        /\ request[r].epoch <= epoch

IInv ==
    /\ TypeOK
    /\ EntriesAreTrue
    /\ WaitersMatch
    /\ RanIsRemembered
    /\ TombstonesAlone
    /\ RequestsTrue
    /\ AtMostOnce
    /\ AcceptedRan

-----------------------------------------------------------------------------
\* A part of a set of operations, or of requests, has a size.
LEMMA SizeOfOperations ==
    ASSUME NEW S \in SUBSET Operations PROVE Cardinality(S) \in Nat
BY SendAssumption, FS_Subset, FS_CardinalityType

LEMMA SizeOfRequests ==
    ASSUME NEW S \in SUBSET Requests PROVE Cardinality(S) \in Nat
BY SendAssumption, FS_Subset, FS_CardinalityType

\* rememberExpired: what leaves becomes a tombstone or is forgotten, and the
\* other entries are as they were.
LEMMA ForgetRemembers ==
    ASSUME NEW reg \in Registries, NEW ops \in SUBSET Operations
    PROVE  /\ Forget(reg, ops) \in Registries
           /\ \A op \in Operations : Forget(reg, ops).entries[op] =
                 IF op \in ops THEN NoEntry ELSE reg.entries[op]
           /\ reg.forgotten \subseteq Forget(reg, ops).forgotten
           /\ Tombstones(Forget(reg, ops)) \subseteq Tombstones(reg) \cup ops
           /\ Tombstones(reg) \cup ops \subseteq
                 Tombstones(Forget(reg, ops)) \cup Forget(reg, ops).forgotten
<1> DEFINE marked ==
             [op \in Operations |->
                IF op \in ops
                THEN reg.expirations + 1 +
                       Cardinality({o \in ops :
                          reg.entries[o].claimed < reg.entries[op].claimed})
                ELSE reg.expiredKeys[op]]
           dropped ==
             {op \in Operations :
                /\ marked[op] # 0
                /\ Cardinality({o \in Operations : marked[o] > marked[op]}) >= MaxEntries}
           left == [op \in Operations |-> IF op \in ops THEN NoEntry ELSE reg.entries[op]]
           kept == [op \in Operations |-> IF op \in dropped THEN 0 ELSE marked[op]]
<1>1. Forget(reg, ops) = [entries |-> left, expiredKeys |-> kept,
                          expirations |-> reg.expirations + Cardinality(ops),
                          forgotten |-> reg.forgotten \cup dropped]
  BY DEF Forget
<1>2. /\ reg.entries \in [Operations -> Entry \cup {NoEntry}]
      /\ reg.expiredKeys \in [Operations -> Nat]
      /\ reg.expirations \in Nat
      /\ reg.forgotten \subseteq Operations
  BY DEF Registries
<1>3. \A op \in Operations : Cardinality({o \in ops :
         reg.entries[o].claimed < reg.entries[op].claimed}) \in Nat
  <2> TAKE op \in Operations
  <2>1. {o \in ops : reg.entries[o].claimed < reg.entries[op].claimed}
           \in SUBSET Operations
    OBVIOUS
  <2>2. QED
    BY <2>1, SizeOfOperations
<1>4. \A op \in Operations : /\ marked[op] \in Nat
                             /\ op \in ops => marked[op] # 0
                             /\ op \notin ops => marked[op] = reg.expiredKeys[op]
  BY <1>2, <1>3
<1> HIDE DEF marked
<1>5. dropped \subseteq Operations
  OBVIOUS
<1> HIDE DEF dropped
<1>6. Cardinality(ops) \in Nat
  BY SizeOfOperations
<1>7. Forget(reg, ops) \in Registries
  <2>1. left \in [Operations -> Entry \cup {NoEntry}]
    BY <1>2
  <2>2. kept \in [Operations -> Nat]
    BY <1>4
  <2>3. reg.expirations + Cardinality(ops) \in Nat
    BY <1>2, <1>6
  <2> HIDE DEF left, kept
  <2>4. QED
    BY <1>1, <1>2, <1>5, <2>1, <2>2, <2>3 DEF Registries
<1>8. \A op \in Operations : Forget(reg, ops).entries[op] =
         IF op \in ops THEN NoEntry ELSE reg.entries[op]
  BY <1>1
<1>9. /\ Forget(reg, ops).forgotten = reg.forgotten \cup dropped
      /\ Tombstones(Forget(reg, ops)) = {op \in Operations : kept[op] # 0}
  BY <1>1 DEF Tombstones
<1>10. QED
  BY <1>4, <1>5, <1>7, <1>8, <1>9 DEF Tombstones

-----------------------------------------------------------------------------
\* What expiring and trimming do to a registry: receipts leave, each for a
\* tombstone or for oblivion, and nothing else is touched.
Shrinks(reg, new) ==
    /\ new \in Registries
    /\ \A op \in Operations :
          \/ new.entries[op] = reg.entries[op]
          \/ /\ reg.entries[op].state = "accepted"
             /\ new.entries[op] = NoEntry
             /\ op \in Tombstones(new) \cup new.forgotten
    /\ reg.forgotten \subseteq new.forgotten
    /\ Tombstones(reg) \subseteq Tombstones(new) \cup new.forgotten
    /\ \A op \in Tombstones(new) : op \in Tombstones(reg) \/ new.entries[op] = NoEntry

\* Forgetting receipts is such a step.
LEMMA ForgettingShrinks ==
    ASSUME NEW reg \in Registries, NEW ops \in SUBSET InState(reg, "accepted")
    PROVE  Shrinks(reg, Forget(reg, ops))
<1>1. ops \in SUBSET Operations /\ \A op \in ops : reg.entries[op].state = "accepted"
  BY DEF InState
<1>2. Tombstones(Forget(reg, ops)) \subseteq Operations
  BY DEF Tombstones
<1>3. QED
  BY <1>1, <1>2, ForgetRemembers DEF Shrinks

\* evictExpired and trimToBound are such steps.
LEMMA EvictionShrinks ==
    ASSUME NEW reg \in Registries
    PROVE  Shrinks(reg, EvictExpired(reg)) /\ Shrinks(reg, TrimToBound(reg))
<1>1. Shrinks(reg, EvictExpired(reg))
  BY ForgettingShrinks DEF EvictExpired
<1>2. Shrinks(reg, TrimToBound(reg))
  BY ForgettingShrinks DEF TrimToBound
<1>3. QED
  BY <1>1, <1>2

-----------------------------------------------------------------------------
\* Claiming leaves the other entries alone but for receipts that leave, and
\* gives a free operation that has no tombstone to the request.
LEMMA ClaimGrows ==
    ASSUME NEW r \in Requests, NEW reg \in Registries, registry \in Registries,
           Shrinks(registry, reg), NEW entry \in Entry, entry.state = "pending",
           reg.entries[Operation[r]] = NoEntry,
           Operation[r] \notin Tombstones(reg),
           registry' = TrimToBound([reg EXCEPT !.entries[Operation[r]] = entry])
    PROVE  /\ registry' \in Registries
           /\ registry'.entries[Operation[r]] = entry
           /\ registry.entries[Operation[r]].state # "pending"
           /\ registry.entries[Operation[r]].state = "accepted" =>
                 Operation[r] \in registry'.forgotten
           /\ \A op \in Operations \ {Operation[r]} :
                 \/ registry'.entries[op] = registry.entries[op]
                 \/ /\ registry.entries[op].state = "accepted"
                    /\ registry'.entries[op] = NoEntry
                    /\ op \in Tombstones(registry') \cup registry'.forgotten
           /\ registry.forgotten \subseteq registry'.forgotten
           /\ Tombstones(registry) \subseteq Tombstones(registry') \cup registry'.forgotten
           /\ Operation[r] \notin Tombstones(registry')
           /\ \A op \in Tombstones(registry') : op \in Tombstones(registry)
                                                \/ registry'.entries[op] = NoEntry
<1> DEFINE mid == [reg EXCEPT !.entries[Operation[r]] = entry]
<1>1. Operation[r] \in Operations
  BY SendAssumption
<1>2. /\ mid \in Registries
      /\ mid.entries[Operation[r]] = entry
      /\ \A op \in Operations \ {Operation[r]} : mid.entries[op] = reg.entries[op]
      /\ mid.forgotten = reg.forgotten
      /\ Tombstones(mid) = Tombstones(reg)
  BY <1>1 DEF Registries, Tombstones
<1> HIDE DEF mid
<1>3. registry' = TrimToBound(mid)
  BY DEF mid
<1>4. Shrinks(mid, registry')
  BY <1>2, <1>3, EvictionShrinks
<1>5. NoEntry.state = "none"
  BY DEF NoEntry
<1>6. \A op \in Tombstones(registry') : op \in Operations
  BY DEF Tombstones
<1>7. registry'.entries[Operation[r]] = entry
  BY <1>1, <1>2, <1>4 DEF Shrinks
<1>8. registry.entries[Operation[r]].state # "pending"
  BY <1>1, <1>5 DEF Shrinks
<1>9. registry.entries[Operation[r]].state = "accepted" =>
         Operation[r] \in registry'.forgotten
  BY <1>1, <1>2, <1>4, <1>5 DEF Shrinks
<1>10. ASSUME NEW op \in Operations \ {Operation[r]}
       PROVE  \/ registry'.entries[op] = registry.entries[op]
              \/ /\ registry.entries[op].state = "accepted"
                 /\ registry'.entries[op] = NoEntry
                 /\ op \in Tombstones(registry') \cup registry'.forgotten
  <2>1. CASE reg.entries[op] = registry.entries[op]
    BY <1>2, <1>4, <1>10, <2>1 DEF Shrinks
  <2>2. CASE reg.entries[op] # registry.entries[op]
    <3>1. /\ registry.entries[op].state = "accepted"
          /\ reg.entries[op] = NoEntry
          /\ op \in Tombstones(reg) \cup reg.forgotten
      BY <1>10, <2>2 DEF Shrinks
    <3>2. registry'.entries[op] = NoEntry
      BY <1>2, <1>4, <1>5, <1>10, <3>1 DEF Shrinks
    <3>3. op \in Tombstones(registry') \cup registry'.forgotten
      BY <1>2, <1>4, <3>1 DEF Shrinks
    <3>4. QED
      BY <3>1, <3>2, <3>3
  <2>3. QED
    BY <2>1, <2>2
<1>11. registry.forgotten \subseteq registry'.forgotten
  BY <1>2, <1>4 DEF Shrinks
<1>12. Tombstones(registry) \subseteq Tombstones(registry') \cup registry'.forgotten
  BY <1>2, <1>4 DEF Shrinks
<1>13. Operation[r] \notin Tombstones(registry')
  BY <1>1, <1>2, <1>4, <1>5, <1>7 DEF Shrinks
<1>14. ASSUME NEW op \in Tombstones(registry')
       PROVE  op \in Tombstones(registry) \/ registry'.entries[op] = NoEntry
  <2>1. op # Operation[r]
    BY <1>13, <1>14
  <2>2. QED
    BY <1>2, <1>4, <1>5, <1>6, <1>14, <2>1 DEF Shrinks
<1>15. QED
  BY <1>4, <1>7, <1>8, <1>9, <1>10, <1>11, <1>12, <1>13, <1>14 DEF Shrinks

\* Expiry alone, whoever triggers it, keeps the invariant.
LEMMA ShrinkingKeeps ==
    ASSUME IInv, Shrinks(registry, registry'), UNCHANGED <<now, epoch, request, ran>>
    PROVE  IInv'
<1> USE SendAssumption DEF IInv
<1>1. NoEntry.state = "none"
  BY DEF NoEntry
<1>2. TypeOK'
  BY <1>1 DEF TypeOK, Shrinks
<1>3. EntriesAreTrue'
  BY DEF EntriesAreTrue, Shrinks
<1>4. WaitersMatch'
  BY <1>1 DEF WaitersMatch, Shrinks
<1>5. RanIsRemembered'
  BY <1>1 DEF RanIsRemembered, Shrinks, TypeOK
<1>6. TombstonesAlone'
  <2>1. \A op \in Tombstones(registry) : op \in Operations
    BY DEF Tombstones
  <2>2. QED
    BY <1>1, <2>1 DEF TombstonesAlone, Shrinks
<1>7. RequestsTrue' /\ AtMostOnce' /\ AcceptedRan'
  BY DEF RequestsTrue, AtMostOnce, AcceptedRan, Shrinks
<1>8. QED
  BY <1>2, <1>3, <1>4, <1>5, <1>6, <1>7

-----------------------------------------------------------------------------
\* A claim keeps the invariant: whatever it answers, no other request loses
\* its entry, and an operation that ran and is remembered is not run again.
LEMMA ClaimKeeps ==
    ASSUME IInv, NEW r \in Requests, Claim(r) PROVE IInv'
<1> USE SendAssumption DEF IInv
<1> DEFINE reg == IF request[r].epoch = epoch THEN EvictExpired(registry) ELSE registry
           outcome == ClaimOutcome(reg, r)
           entry == [state |-> "pending", payload |-> Payload[r], owner |-> r,
                     expiresAt |-> 0, claimed |-> NextClaim]
<1>1. NoEntry.state = "none"
  BY DEF NoEntry
<1>2. registry \in Registries
  BY DEF TypeOK
<1>3. Shrinks(registry, registry)
  BY <1>2 DEF Shrinks
<1>4. reg \in Registries /\ Shrinks(registry, reg)
  BY <1>2, <1>3, EvictionShrinks DEF Shrinks
<1>5. Operation[r] \in Operations /\ Payload[r] \in Payloads
  OBVIOUS
<1>6. request[r].pc = "sent" /\ UNCHANGED <<now, epoch, ran>>
  BY DEF Claim
<1>7. outcome \in {"stale", "mismatch", "deduplicated", "waiting", "expired",
                   "overloaded", "executing"}
  BY DEF ClaimOutcome
<1>8. outcome = "executing" => /\ reg.entries[Operation[r]] = NoEntry
                               /\ Operation[r] \notin Tombstones(reg)
  BY DEF ClaimOutcome
<1>9. outcome = "deduplicated" => /\ reg.entries[Operation[r]] # NoEntry
                                  /\ reg.entries[Operation[r]].state = "accepted"
                                  /\ reg.entries[Operation[r]].payload = Payload[r]
  BY DEF ClaimOutcome
<1>10. outcome = "waiting" => /\ reg.entries[Operation[r]] # NoEntry
                              /\ reg.entries[Operation[r]].state # "accepted"
                              /\ reg.entries[Operation[r]].payload = Payload[r]
  BY DEF ClaimOutcome
<1>11. IF outcome = "executing"
       THEN /\ registry' = TrimToBound([reg EXCEPT !.entries[Operation[r]] = entry])
            /\ request' = [request EXCEPT ![r].pc = outcome, ![r].claimed = TRUE]
       ELSE /\ registry' = reg
            /\ request' = At(r, outcome)
  BY DEF Claim
<1>12. entry \in Entry
  <2>1. NextClaim \in Nat
    BY SizeOfRequests DEF NextClaim
  <2>2. QED
    BY <1>5, <2>1 DEF Entry
<1>13. entry.state = "pending" /\ entry.owner = r /\ entry.payload = Payload[r]
  OBVIOUS
<1> HIDE DEF reg, outcome, entry
<1>14. request \in [Requests -> [pc : Places, epoch : Nat, claimed : BOOLEAN]]
  BY DEF TypeOK
<1>15. /\ request' \in [Requests -> [pc : Places, epoch : Nat, claimed : BOOLEAN]]
       /\ request'[r].pc = outcome
       /\ \A q \in Requests \ {r} : request'[q] = request[q]
       /\ \A q \in Requests : request'[q].epoch = request[q].epoch
  <2>1. outcome \in Places
    BY <1>7 DEF Places, Answers
  <2>2. \/ request' = [request EXCEPT ![r].pc = outcome, ![r].claimed = TRUE]
        \/ request' = [request EXCEPT ![r].pc = outcome]
    BY <1>11 DEF At
  <2>3. /\ request[r] \in [pc : Places, epoch : Nat, claimed : BOOLEAN]
        /\ DOMAIN request = Requests
    BY <1>14
  <2>4. /\ request'[r].pc = outcome
        /\ \A q \in Requests \ {r} : request'[q] = request[q]
    BY <2>2, <2>3
  <2>5. request'[r].epoch = request[r].epoch
    BY <2>2, <2>3
  <2>6. \A q \in Requests : request'[q].epoch = request[q].epoch
    BY <2>4, <2>5
  <2>7. request' \in [Requests -> [pc : Places, epoch : Nat, claimed : BOOLEAN]]
    BY <1>14, <2>1, <2>2
  <2>8. QED
    BY <2>4, <2>6, <2>7
<1>16. CASE outcome = "executing"
  <2>1. registry' = TrimToBound([reg EXCEPT !.entries[Operation[r]] = entry])
    BY <1>11, <1>16
  <2>2. /\ registry' \in Registries
        /\ registry'.entries[Operation[r]] = entry
        /\ registry.entries[Operation[r]].state # "pending"
        /\ registry.entries[Operation[r]].state = "accepted" =>
              Operation[r] \in registry'.forgotten
        /\ \A op \in Operations \ {Operation[r]} :
              \/ registry'.entries[op] = registry.entries[op]
              \/ /\ registry.entries[op].state = "accepted"
                 /\ registry'.entries[op] = NoEntry
                 /\ op \in Tombstones(registry') \cup registry'.forgotten
        /\ registry.forgotten \subseteq registry'.forgotten
        /\ Tombstones(registry) \subseteq Tombstones(registry') \cup registry'.forgotten
        /\ Operation[r] \notin Tombstones(registry')
        /\ \A op \in Tombstones(registry') : op \in Tombstones(registry)
                                             \/ registry'.entries[op] = NoEntry
    BY <1>2, <1>4, <1>8, <1>12, <1>13, <1>16, <2>1, ClaimGrows
  <2>3. TypeOK'
    BY <1>1, <1>6, <1>13, <1>15, <1>16, <2>2 DEF TypeOK
  <2>4. EntriesAreTrue'
    BY <1>5, <1>6, <1>13, <2>2 DEF EntriesAreTrue
  <2>5. WaitersMatch'
    BY <1>15, <1>16, <2>2 DEF WaitersMatch
  <2>6. RanIsRemembered'
    BY <1>6, <1>15, <2>2 DEF RanIsRemembered, TypeOK
  <2>7. TombstonesAlone'
    <3>1. \A op \in Tombstones(registry') : op \in Operations
      BY DEF Tombstones
    <3>2. QED
      BY <1>1, <2>2, <3>1 DEF TombstonesAlone
  <2>8. RequestsTrue' /\ AtMostOnce'
    BY <1>6, <1>15, <1>16, <2>2 DEF RequestsTrue, AtMostOnce
  <2>9. AcceptedRan'
    BY <1>6, <1>15, <1>16 DEF AcceptedRan
  <2>10. QED
    BY <2>3, <2>4, <2>5, <2>6, <2>7, <2>8, <2>9
<1>17. CASE outcome # "executing"
  <2>1. registry' = reg
    BY <1>11, <1>17
  <2>2. TypeOK'
    BY <1>1, <1>4, <1>6, <1>7, <1>15, <1>17, <2>1 DEF TypeOK, Shrinks
  <2>3. EntriesAreTrue'
    BY <1>4, <1>6, <2>1 DEF EntriesAreTrue, Shrinks
  <2>4. WaitersMatch'
    <3>1. reg.entries[Operation[r]] # NoEntry => reg.entries[Operation[r]] \in Entry
      BY <1>4, <1>5 DEF Registries
    <3>2. outcome = "waiting" => reg.entries[Operation[r]].state = "pending"
      BY <1>10, <3>1 DEF Entry
    <3>3. QED
      BY <1>1, <1>4, <1>10, <1>15, <2>1, <3>2 DEF WaitersMatch, Shrinks
  <2>5. RanIsRemembered'
    BY <1>1, <1>4, <1>6, <1>15, <2>1 DEF RanIsRemembered, Shrinks, TypeOK
  <2>6. TombstonesAlone'
    <3>1. \A op \in Tombstones(registry) : op \in Operations
      BY DEF Tombstones
    <3>2. QED
      BY <1>1, <1>4, <2>1, <3>1 DEF TombstonesAlone, Shrinks
  <2>7. RequestsTrue' /\ AtMostOnce'
    BY <1>4, <1>6, <1>7, <1>15, <2>1 DEF RequestsTrue, AtMostOnce, Shrinks
  <2>8. AcceptedRan'
    <3>1. ASSUME outcome = "deduplicated"
          PROVE  \E q \in ran : Operation[q] = Operation[r] /\ Payload[q] = Payload[r]
      <4>1. registry.entries[Operation[r]] = reg.entries[Operation[r]]
        BY <1>4, <1>5, <1>9, <3>1 DEF Shrinks
      <4>2. QED
        BY <1>5, <1>9, <3>1, <4>1 DEF EntriesAreTrue
    <3>2. QED
      BY <1>6, <1>7, <1>15, <3>1 DEF AcceptedRan
  <2>9. QED
    BY <2>2, <2>3, <2>4, <2>5, <2>6, <2>7, <2>8
<1>18. QED
  BY <1>16, <1>17

-----------------------------------------------------------------------------
\* Pi running a claim keeps the invariant: two requests of one operation never
\* hold its claim together.
LEMMA RunKeeps ==
    ASSUME IInv, NEW r \in Requests, PiAccepts(r) PROVE IInv'
<1> USE SendAssumption DEF IInv, PiAccepts, At
<1>1. request' \in [Requests -> [pc : Places, epoch : Nat, claimed : BOOLEAN]]
  BY DEF TypeOK, Places
<1>2. /\ request'[r].pc = "ran"
      /\ \A q \in Requests \ {r} : request'[q] = request[q]
      /\ \A q \in Requests : request'[q].epoch = request[q].epoch
  BY DEF TypeOK
<1>3. TypeOK'
  BY <1>1, <1>2 DEF TypeOK
<1>4. EntriesAreTrue' /\ WaitersMatch' /\ TombstonesAlone' /\ RequestsTrue' /\ AcceptedRan'
  BY <1>2 DEF EntriesAreTrue, WaitersMatch, TombstonesAlone, RequestsTrue, AcceptedRan,
              Tombstones
<1>5. RanIsRemembered'
  BY <1>2 DEF RanIsRemembered, Tombstones
<1>6. AtMostOnce'
  <2>1. ASSUME NEW q \in ran, q # r, Operation[q] = Operation[r]
        PROVE  Operation[r] \in registry.forgotten
    <3>1. q \in Requests
      BY DEF TypeOK
    <3>2. registry.entries[Operation[r]].state = "pending"
          /\ registry.entries[Operation[r]].owner = r
      BY DEF TypeOK
    <3>3. request[q].pc # "ran"
      BY <2>1, <3>1, <3>2 DEF TypeOK
    <3>4. Operation[r] \notin Tombstones(registry)
      BY <3>2 DEF TombstonesAlone, NoEntry
    <3>5. QED
      BY <2>1, <3>2, <3>3, <3>4 DEF RanIsRemembered
  <2>2. QED
    BY <2>1 DEF AtMostOnce
<1>7. QED
  BY <1>3, <1>4, <1>5, <1>6

\* A refusal frees its own entry only, and nothing had run under it.
LEMMA RefuseKeeps ==
    ASSUME IInv, NEW r \in Requests, Refuse(r) PROVE IInv'
<1> USE SendAssumption DEF IInv
<1>1. /\ request[r].pc = "executing"
      /\ UNCHANGED <<now, epoch, ran>>
      /\ registry' = [registry EXCEPT !.entries[Operation[r]] = NoEntry]
      /\ request' = [q \in Requests |->
                       IF q = r THEN [request[q] EXCEPT !.pc = "rejected"]
                       ELSE IF q \in Waiters(r) THEN [request[q] EXCEPT !.pc = "rejected"]
                       ELSE request[q]]
  BY DEF Refuse, Settled
<1>2. /\ registry' \in Registries
      /\ registry'.entries = [registry.entries EXCEPT ![Operation[r]] = NoEntry]
      /\ registry'.forgotten = registry.forgotten
      /\ Tombstones(registry') = Tombstones(registry)
  BY <1>1 DEF TypeOK, Registries, Tombstones
<1>3. registry.entries \in [Operations -> Entry \cup {NoEntry}]
  BY DEF TypeOK, Registries
<1>4. /\ \A op \in Operations : registry'.entries[op] =
            IF op = Operation[r] THEN NoEntry ELSE registry.entries[op]
      /\ registry.entries[Operation[r]].state = "pending"
      /\ registry.entries[Operation[r]].owner = r
  BY <1>1, <1>2, <1>3 DEF TypeOK
<1>5. request' \in [Requests -> [pc : Places, epoch : Nat, claimed : BOOLEAN]]
  BY <1>1 DEF TypeOK, Places, Answers
<1>6. \A q \in Requests :
         /\ request'[q].epoch = request[q].epoch
         /\ request'[q].pc = IF q = r \/ q \in Waiters(r) THEN "rejected" ELSE request[q].pc
  BY <1>1 DEF TypeOK
<1>7. NoEntry.state = "none"
  BY DEF NoEntry
<1>8. TypeOK'
  BY <1>1, <1>2, <1>4, <1>5, <1>6 DEF TypeOK
<1>9. EntriesAreTrue'
  BY <1>1, <1>4 DEF EntriesAreTrue
<1>10. WaitersMatch'
  BY <1>4, <1>6 DEF WaitersMatch, Waiters
<1>11. RanIsRemembered'
  <2>1. r \notin ran \/ Operation[r] \in Tombstones(registry) \cup registry.forgotten
    BY <1>1, <1>4 DEF RanIsRemembered
  <2>2. ASSUME NEW q \in ran
        PROVE  \/ request'[q].pc = "ran"
               \/ registry'.entries[Operation[q]].state = "accepted"
               \/ Operation[q] \in Tombstones(registry') \cup registry'.forgotten
    <3>1. q \in Requests
      BY DEF TypeOK
    <3>2. CASE request[q].pc = "ran"
      BY <1>1, <1>6, <3>1, <3>2 DEF Waiters
    <3>3. CASE request[q].pc # "ran"
      BY <1>2, <1>4, <3>1, <3>3 DEF RanIsRemembered
    <3>4. QED
      BY <3>2, <3>3
  <2>3. QED
    BY <1>1, <2>2 DEF RanIsRemembered
<1>12. TombstonesAlone'
  BY <1>2, <1>4 DEF TombstonesAlone, Tombstones
<1>13. RequestsTrue' /\ AtMostOnce' /\ AcceptedRan'
  BY <1>1, <1>2, <1>6 DEF RequestsTrue, AtMostOnce, AcceptedRan
<1>14. QED
  BY <1>8, <1>9, <1>10, <1>11, <1>12, <1>13

\* An acceptance turns its own entry into a receipt; whoever shares it carries
\* the payload that ran.
LEMMA AcceptKeeps ==
    ASSUME IInv, NEW r \in Requests, Accept(r) PROVE IInv'
<1> USE SendAssumption DEF IInv
<1> DEFINE entry == [registry.entries[Operation[r]] EXCEPT
                       !.state = "accepted", !.expiresAt = now + TtlMs]
           mid == [registry EXCEPT !.entries[Operation[r]] = entry]
<1>1. /\ request[r].pc = "ran"
      /\ UNCHANGED <<now, epoch, ran>>
      /\ registry' = TrimToBound(mid)
      /\ request' = [q \in Requests |->
                       IF q = r THEN [request[q] EXCEPT !.pc = "accepted"]
                       ELSE IF q \in Waiters(r) THEN [request[q] EXCEPT !.pc = "deduplicated"]
                       ELSE request[q]]
  BY DEF Accept, Settled
<1>2. NoEntry.state = "none"
  BY DEF NoEntry
<1>3. /\ registry.entries[Operation[r]] \in Entry
      /\ registry.entries[Operation[r]].state = "pending"
      /\ registry.entries[Operation[r]].owner = r
      /\ registry.entries[Operation[r]].payload = Payload[r]
      /\ registry.entries[Operation[r]] # NoEntry
      /\ r \in ran
  BY <1>1, <1>2 DEF TypeOK, Registries, EntriesAreTrue, RequestsTrue
<1>4. entry \in Entry /\ entry.state = "accepted" /\ entry.owner = r
      /\ entry.payload = Payload[r]
  <2>1. now + TtlMs \in Nat
    BY DEF TypeOK
  <2>2. ASSUME NEW e \in Entry, NEW time \in Nat
        PROVE  LET f == [e EXCEPT !.state = "accepted", !.expiresAt = time]
               IN  /\ f \in Entry /\ f.state = "accepted"
                   /\ f.owner = e.owner /\ f.payload = e.payload
    BY <2>2 DEF Entry
  <2>3. QED
    BY <1>3, <2>1, <2>2
<1> HIDE DEF entry
<1>5. /\ mid \in Registries
      /\ \A op \in Operations : mid.entries[op] =
            IF op = Operation[r] THEN entry ELSE registry.entries[op]
      /\ mid.forgotten = registry.forgotten
      /\ Tombstones(mid) = Tombstones(registry)
  BY <1>4 DEF TypeOK, Registries, Tombstones
<1> HIDE DEF mid
<1>6. Shrinks(mid, registry')
  BY <1>1, <1>5, EvictionShrinks
<1>7. request' \in [Requests -> [pc : Places, epoch : Nat, claimed : BOOLEAN]]
  BY <1>1 DEF TypeOK, Places, Answers
<1>8. \A q \in Requests :
         /\ request'[q].epoch = request[q].epoch
         /\ request'[q].pc = IF q = r THEN "accepted"
                             ELSE IF q \in Waiters(r) THEN "deduplicated"
                             ELSE request[q].pc
  BY <1>1 DEF TypeOK
<1>9. \A q \in Requests : q # r /\ request[q].pc \in {"executing", "ran"} =>
         /\ Operation[q] # Operation[r]
         /\ registry'.entries[Operation[q]] = registry.entries[Operation[q]]
  BY <1>3, <1>5, <1>6 DEF TypeOK, Shrinks
<1>10. TypeOK'
  <2>1. \A q \in Requests : request'[q].pc \in {"executing", "ran"} =>
           q # r /\ request[q].pc = request'[q].pc
    BY <1>8
  <2>2. \A q \in Requests : request'[q].pc \in {"executing", "ran"} =>
           /\ registry'.entries[Operation[q]].state = "pending"
           /\ registry'.entries[Operation[q]].owner = q
    BY <1>9, <2>1 DEF TypeOK
  <2>3. QED
    BY <1>1, <1>6, <1>7, <2>2 DEF TypeOK, Shrinks
<1>11. EntriesAreTrue'
  BY <1>1, <1>3, <1>4, <1>5, <1>6 DEF EntriesAreTrue, Shrinks
<1>12. WaitersMatch'
  BY <1>5, <1>6, <1>8 DEF WaitersMatch, Waiters, Shrinks
<1>13. RanIsRemembered'
  <2>1. ASSUME NEW q \in ran
        PROVE  \/ request'[q].pc = "ran"
               \/ registry'.entries[Operation[q]].state = "accepted"
               \/ Operation[q] \in Tombstones(registry') \cup registry'.forgotten
    <3>1. q \in Requests
      BY DEF TypeOK
    <3>2. CASE Operation[q] = Operation[r]
      BY <1>4, <1>5, <1>6, <3>1, <3>2 DEF Shrinks
    <3>3. CASE Operation[q] # Operation[r]
      BY <1>5, <1>6, <1>8, <3>1, <3>3 DEF Shrinks, Waiters, RanIsRemembered
    <3>4. QED
      BY <3>2, <3>3
  <2>2. QED
    BY <1>1, <2>1 DEF RanIsRemembered
<1>14. TombstonesAlone'
  <2>1. \A op \in Tombstones(registry') : op \in Operations
    BY DEF Tombstones
  <2>2. Operation[r] \notin Tombstones(registry)
    BY <1>3 DEF TombstonesAlone
  <2>3. QED
    BY <1>2, <1>5, <1>6, <2>1, <2>2 DEF TombstonesAlone, Shrinks
<1>15. RequestsTrue' /\ AtMostOnce'
  BY <1>1, <1>5, <1>6, <1>8 DEF RequestsTrue, AtMostOnce, Shrinks
<1>16. AcceptedRan'
  <2>1. \A q \in Waiters(r) : Operation[q] = Operation[r] /\ Payload[q] = Payload[r]
    BY <1>3 DEF WaitersMatch, Waiters
  <2>2. QED
    BY <1>1, <1>3, <1>8, <2>1 DEF AcceptedRan
<1>17. QED
  BY <1>10, <1>11, <1>12, <1>13, <1>14, <1>15, <1>16

\* A new lifetime starts with nothing remembered and nothing run.
LEMMA RestartKeeps ==
    ASSUME IInv, Restart PROVE IInv'
<1> USE SendAssumption DEF IInv, Restart
<1>1. /\ NoRegistry \in Registries
      /\ NoRegistry.forgotten = {}
      /\ Tombstones(NoRegistry) = {}
      /\ \A op \in Operations : NoRegistry.entries[op] = NoEntry
  BY DEF NoRegistry, Registries, Tombstones
<1>2. request' \in [Requests -> [pc : Places, epoch : Nat, claimed : BOOLEAN]]
  BY DEF TypeOK, Places, Answers
<1>3. \A q \in Requests :
         /\ request'[q].epoch = request[q].epoch
         /\ request'[q].pc \notin {"executing", "ran", "waiting"}
  BY DEF TypeOK
<1>4. TypeOK'
  BY <1>1, <1>2, <1>3 DEF TypeOK
<1>5. EntriesAreTrue' /\ WaitersMatch' /\ RanIsRemembered' /\ TombstonesAlone' /\ AtMostOnce'
  BY <1>1, <1>3 DEF EntriesAreTrue, WaitersMatch, RanIsRemembered, TombstonesAlone, AtMostOnce
<1>6. \A q \in Requests : request'[q].epoch # epoch' /\ request'[q].epoch <= epoch'
  BY <1>3 DEF TypeOK, RequestsTrue
<1>7. RequestsTrue' /\ AcceptedRan'
  BY <1>3, <1>6 DEF RequestsTrue, AcceptedRan
<1>8. QED
  BY <1>4, <1>5, <1>7

-----------------------------------------------------------------------------
\* Before the first request nothing is remembered.
LEMMA InitHolds == Init => IInv
BY SendAssumption DEF Init, IInv, TypeOK, NoRegistry, Registries, Places, Tombstones,
   EntriesAreTrue, WaitersMatch, RanIsRemembered, TombstonesAlone, RequestsTrue,
   AtMostOnce, AcceptedRan

\* The inductive invariant holds in every behaviour.
THEOREM Inductive == Spec => []IInv
<1>1. Init => IInv
  BY InitHolds
<1>2. IInv /\ [Next]_vars => IInv'
  <2> SUFFICES ASSUME IInv, [Next]_vars PROVE IInv'
    OBVIOUS
  <2>1. ASSUME NEW r \in Requests, Send(r) PROVE IInv'
    <3>1. /\ request' \in [Requests -> [pc : Places, epoch : Nat, claimed : BOOLEAN]]
          /\ request'[r].pc = "sent" /\ request'[r].epoch = epoch
          /\ \A q \in Requests \ {r} : request'[q] = request[q]
          /\ request[r].pc = "new"
          /\ UNCHANGED <<now, epoch, registry, ran>>
      BY <2>1 DEF Send, IInv, TypeOK, Places
    <3>2. TypeOK' /\ EntriesAreTrue' /\ WaitersMatch' /\ TombstonesAlone' /\ RequestsTrue'
      BY <3>1 DEF IInv, TypeOK, EntriesAreTrue, WaitersMatch, TombstonesAlone,
                  RequestsTrue, Tombstones
    <3>3. RanIsRemembered' /\ AtMostOnce' /\ AcceptedRan'
      BY <3>1 DEF IInv, TypeOK, RanIsRemembered, AtMostOnce, AcceptedRan, Tombstones
    <3>4. QED
      BY <3>2, <3>3 DEF IInv
  <2>2. ASSUME NEW r \in Requests, Claim(r) PROVE IInv'
    BY <2>2, ClaimKeeps
  <2>3. ASSUME NEW r \in Requests, PiAccepts(r) PROVE IInv'
    BY <2>3, RunKeeps
  <2>4. ASSUME NEW r \in Requests, Refuse(r) PROVE IInv'
    BY <2>4, RefuseKeeps
  <2>5. ASSUME NEW r \in Requests, Accept(r) PROVE IInv'
    BY <2>5, AcceptKeeps
  <2>6. CASE Query
    BY <2>6, EvictionShrinks, ShrinkingKeeps DEF Query, IInv, TypeOK
  <2>7. CASE TimePasses
    BY <2>7 DEF TimePasses, IInv, TypeOK, EntriesAreTrue, WaitersMatch, RanIsRemembered,
                TombstonesAlone, RequestsTrue, AtMostOnce, AcceptedRan, Tombstones
  <2>8. CASE Restart
    BY <2>8, RestartKeeps
  <2>9. CASE UNCHANGED vars
    BY <2>9 DEF vars, IInv, TypeOK, EntriesAreTrue, WaitersMatch, RanIsRemembered,
                TombstonesAlone, RequestsTrue, AtMostOnce, AcceptedRan, Tombstones
  <2>10. QED
    BY <2>1, <2>2, <2>3, <2>4, <2>5, <2>6, <2>7, <2>8, <2>9 DEF Next
<1>3. QED
  BY <1>1, <1>2, PTL DEF Spec

\* The registry, the requests and the clock stay in their types, and every
\* executing claim keeps its own pending entry.
THEOREM TypeCorrect == Spec => []TypeOK
BY Inductive, PTL DEF IInv

\* "One intent executes at most once within the bounded retention window", for
\* any number of requests and any retention bound.
THEOREM RunsAtMostOnce == Spec => []AtMostOnce
BY Inductive, PTL DEF IInv

\* An acceptance, first-hand or shared, is never reported for a payload that
\* did not run.
THEOREM AcceptanceIsTrue == Spec => []AcceptedRan
BY Inductive, PTL DEF IInv

-----------------------------------------------------------------------------
(* How many receipts and tombstones there are.  The bounds are kept by     *)
(* counting, for each entry, the entries claimed after it; that the counts *)
(* bound the sets needs entries, and tombstones, to be numbered apart.     *)

\* Every set of numbers has a least one.
LEMMA LeastNatural ==
    ASSUME NEW T \in SUBSET Nat, T # {}
    PROVE  \E n \in T : \A m \in T : n <= m
<1> DEFINE less == {ss \in Nat \X Nat : ss[1] < ss[2]}
<1>1. IsWellFoundedOn(less, Nat)
  BY NatLessThanWellFounded DEF OpToRel
<1> HIDE DEF less
<1>2. PICK n \in T : \A m \in T : ~ (<<m, n>> \in less)
  BY <1>1, WFMin
<1>3. \A m \in T : ~(m < n)
  BY <1>2 DEF less
<1> QED
  BY <1>2, <1>3

\* The elements of S with a higher number than x, and those with fewer than n such.
Above(S, c, x) == {y \in S : c[y] > c[x]}
Top(S, c, n) == {x \in S : Cardinality(Above(S, c, x)) < n}

\* Whatever has a higher number has fewer above it.
LEMMA FewerAbove ==
    ASSUME NEW S, IsFiniteSet(S), NEW c, \A x \in S : c[x] \in Nat,
           NEW x \in S, NEW y \in Above(S, c, x)
    PROVE  /\ y \in S
           /\ Cardinality(Above(S, c, x)) \in Nat /\ Cardinality(Above(S, c, y)) \in Nat
           /\ Cardinality(Above(S, c, y)) < Cardinality(Above(S, c, x))
<1>1. y \in S /\ c[y] > c[x] /\ c[x] \in Nat /\ c[y] \in Nat
  BY DEF Above
<1>2. IsFiniteSet(Above(S, c, x))
  BY FS_Subset DEF Above
<1>3. /\ IsFiniteSet(Above(S, c, x) \ {y})
      /\ Cardinality(Above(S, c, x) \ {y}) = Cardinality(Above(S, c, x)) - 1
  BY <1>2, FS_RemoveElement
<1>4. Above(S, c, y) \subseteq Above(S, c, x) \ {y}
  BY <1>1 DEF Above
<1>5. IsFiniteSet(Above(S, c, y)) /\
      Cardinality(Above(S, c, y)) <= Cardinality(Above(S, c, x) \ {y})
  BY <1>3, <1>4, FS_Subset
<1>6. Cardinality(Above(S, c, x)) \in Nat /\ Cardinality(Above(S, c, y)) \in Nat
  BY <1>2, <1>5, FS_CardinalityType
<1> QED
  BY <1>1, <1>3, <1>5, <1>6

\* Of a set that loses elements, at least n stay.
LEMMA TopIsLarge ==
    ASSUME NEW S, IsFiniteSet(S), NEW c, \A x \in S : c[x] \in Nat, NEW n \in Nat,
           Top(S, c, n) # S
    PROVE  Cardinality(Top(S, c, n)) >= n
<1> DEFINE sizes == {Cardinality(Above(S, c, x)) : x \in S \ Top(S, c, n)}
<1>1. \A x \in S : IsFiniteSet(Above(S, c, x)) /\ Cardinality(Above(S, c, x)) \in Nat
  BY FS_Subset, FS_CardinalityType DEF Above
<1>2. sizes \in SUBSET Nat /\ sizes # {}
  BY <1>1 DEF Top
<1>3. PICK k \in sizes : \A m \in sizes : k <= m
  <2> HIDE DEF sizes
  <2> QED
    BY <1>2, LeastNatural
<1>4. PICK x \in S \ Top(S, c, n) :
         \A y \in S \ Top(S, c, n) : Cardinality(Above(S, c, x)) <= Cardinality(Above(S, c, y))
  BY <1>3
<1>5. Above(S, c, x) \subseteq Top(S, c, n)
  <2> SUFFICES ASSUME NEW y \in Above(S, c, x), y \notin Top(S, c, n) PROVE FALSE
    OBVIOUS
  <2>1. /\ y \in S /\ Cardinality(Above(S, c, y)) < Cardinality(Above(S, c, x))
        /\ Cardinality(Above(S, c, x)) \in Nat /\ Cardinality(Above(S, c, y)) \in Nat
    BY FewerAbove
  <2>2. Cardinality(Above(S, c, x)) <= Cardinality(Above(S, c, y))
    BY <1>4, <2>1
  <2> QED
    BY <2>1, <2>2
<1>6. IsFiniteSet(Top(S, c, n))
  BY FS_Subset DEF Top
<1>7. Cardinality(Above(S, c, x)) <= Cardinality(Top(S, c, n))
  BY <1>5, <1>6, FS_Subset
<1>8. Cardinality(Above(S, c, x)) >= n
  BY <1>1, <1>4 DEF Top
<1> QED
  BY <1>1, <1>4, <1>6, <1>7, <1>8, FS_CardinalityType

\* Where the numbers differ, at most n stay.
LEMMA TopIsSmall ==
    ASSUME NEW S, IsFiniteSet(S), NEW c, \A x \in S : c[x] \in Nat, NEW n \in Nat,
           \A x, y \in S : c[x] = c[y] => x = y
    PROVE  Cardinality(Top(S, c, n)) \in Nat /\ Cardinality(Top(S, c, n)) <= n
<1>1. IsFiniteSet(Top(S, c, n)) /\ Cardinality(Top(S, c, n)) \in Nat
  BY FS_Subset, FS_CardinalityType DEF Top
<1>2. CASE Top(S, c, n) = {}
  BY <1>2, FS_EmptySet
<1>3. CASE Top(S, c, n) # {}
  <2> DEFINE numbers == {c[x] : x \in Top(S, c, n)}
  <2>1. numbers \in SUBSET Nat /\ numbers # {}
    BY <1>3 DEF Top
  <2>2. PICK k \in numbers : \A m \in numbers : k <= m
    <3> HIDE DEF numbers
    <3> QED
      BY <2>1, LeastNatural
  <2>3. PICK x \in Top(S, c, n) : \A y \in Top(S, c, n) : c[x] <= c[y]
    BY <2>2
  <2>4. Top(S, c, n) \ {x} \subseteq Above(S, c, x)
    <3> SUFFICES ASSUME NEW y \in Top(S, c, n), y # x PROVE y \in Above(S, c, x)
      OBVIOUS
    <3>1. x \in S /\ y \in S
      BY DEF Top
    <3>2. c[x] <= c[y] /\ c[x] # c[y] /\ c[x] \in Nat /\ c[y] \in Nat
      BY <2>3, <3>1
    <3> QED
      BY <3>1, <3>2 DEF Above
  <2>5. IsFiniteSet(Above(S, c, x))
    BY FS_Subset DEF Above
  <2>6. Cardinality(Top(S, c, n) \ {x}) <= Cardinality(Above(S, c, x))
    BY <2>4, <2>5, FS_Subset
  <2>7. Cardinality(Top(S, c, n) \ {x}) = Cardinality(Top(S, c, n)) - 1
    BY <1>1, FS_RemoveElement
  <2>8. Cardinality(Above(S, c, x)) < n /\ Cardinality(Above(S, c, x)) \in Nat
    BY <2>5, FS_CardinalityType DEF Top
  <2> QED
    BY <1>1, <2>6, <2>7, <2>8
<1> QED
  BY <1>1, <1>2, <1>3

-----------------------------------------------------------------------------
Claims == {r \in Requests : request[r].claimed}

\* Entries have claim numbers up to n and tombstones have expiry numbers, all different.
Numbered(reg, n) ==
    /\ \A op \in Operations : reg.entries[op] # NoEntry => reg.entries[op].claimed <= n
    /\ \A o, p \in Operations :
          reg.entries[o] # NoEntry /\ reg.entries[p] # NoEntry
             /\ reg.entries[o].claimed = reg.entries[p].claimed => o = p
    /\ \A op \in Operations : reg.expiredKeys[op] <= reg.expirations
    /\ \A o, p \in Tombstones(reg) : reg.expiredKeys[o] = reg.expiredKeys[p] => o = p

\* A request claims once.
ClaimsOnce == \A r \in Requests : request[r].pc \in {"new", "sent"} => ~request[r].claimed

BoundInv == IInv /\ Numbered(registry, Cardinality(Claims)) /\ ClaimsOnce /\ Bounded

LEMMA EntryNumbers ==
    ASSUME NEW reg \in Registries, NEW op \in Operations
    PROVE  /\ reg.entries[op] = NoEntry \/ reg.entries[op] \in Entry
           /\ reg.entries[op] \in Entry =>
                 /\ reg.entries[op].claimed \in Nat /\ reg.entries[op] # NoEntry
                 /\ reg.entries[op].state \in {"pending", "accepted"}
           /\ reg.entries[op].state \in {"pending", "accepted"} => reg.entries[op] \in Entry
           /\ reg.expiredKeys[op] \in Nat /\ reg.expirations \in Nat
           /\ NoEntry.state = "none"
<1>1. NoEntry.state = "none"
  BY DEF NoEntry
<1>2. reg.entries[op] \in Entry \cup {NoEntry} /\ reg.expiredKeys[op] \in Nat /\ reg.expirations \in Nat
  BY DEF Registries
<1>3. \A e \in Entry : e.state \in {"pending", "accepted"} /\ e.claimed \in Nat
  BY DEF Entry
<1> QED
  BY <1>1, <1>2, <1>3

\* rememberExpired keeps the numbers apart, and no more tombstones than it may.
LEMMA ForgetNumbers ==
    ASSUME NEW reg \in Registries, NEW n \in Nat, Numbered(reg, n),
           NEW ops \in SUBSET InState(reg, "accepted")
    PROVE  /\ Numbered(Forget(reg, ops), n)
           /\ Cardinality(Tombstones(Forget(reg, ops))) <= MaxEntries
<1> DEFINE claim == [op \in ops |-> n - reg.entries[op].claimed]
           rank(op) == Cardinality({o \in ops : reg.entries[o].claimed < reg.entries[op].claimed})
           marked ==
             [op \in Operations |->
                IF op \in ops THEN reg.expirations + 1 + rank(op) ELSE reg.expiredKeys[op]]
           dropped ==
             {op \in Operations :
                /\ marked[op] # 0
                /\ Cardinality({o \in Operations : marked[o] > marked[op]}) >= MaxEntries}
           left == [op \in Operations |-> IF op \in ops THEN NoEntry ELSE reg.entries[op]]
           kept == [op \in Operations |-> IF op \in dropped THEN 0 ELSE marked[op]]
           new == Forget(reg, ops)
           signs == {op \in Operations : marked[op] # 0}
<1>1. /\ new.entries = left /\ new.expiredKeys = kept
      /\ new.expirations = reg.expirations + Cardinality(ops)
  BY DEF Forget
<1>2. /\ ops \subseteq Operations /\ IsFiniteSet(ops) /\ Cardinality(ops) \in Nat
      /\ IsFiniteSet(Operations)
  BY SendAssumption, FS_Subset, FS_CardinalityType DEF InState
<1>3. \A op \in ops : /\ reg.entries[op] \in Entry /\ reg.entries[op] # NoEntry
                      /\ reg.entries[op].claimed \in Nat /\ reg.entries[op].claimed <= n
  BY <1>2, EntryNumbers DEF InState, Numbered
<1>4. \A op \in Operations : reg.expiredKeys[op] \in Nat /\ reg.expiredKeys[op] <= reg.expirations
                             /\ reg.expirations \in Nat
  BY EntryNumbers DEF Numbered
<1>5. \A o, p \in ops : reg.entries[o].claimed = reg.entries[p].claimed => o = p
  BY <1>2, <1>3 DEF Numbered
<1>6. \A x \in ops : claim[x] \in Nat
  BY <1>3
<1>7. ASSUME NEW op \in ops
      PROVE  {o \in ops : reg.entries[o].claimed < reg.entries[op].claimed} = Above(ops, claim, op)
  BY <1>3 DEF Above
<1>8. ASSUME NEW op \in ops PROVE rank(op) \in Nat /\ rank(op) < Cardinality(ops)
  <2>1. rank(op) = Cardinality(Above(ops, claim, op))
    BY <1>7
  <2>2. Above(ops, claim, op) \subseteq ops \ {op}
    BY <1>6 DEF Above
  <2> HIDE DEF claim, rank
  <2>3. IsFiniteSet(ops \ {op}) /\ Cardinality(ops \ {op}) = Cardinality(ops) - 1
    BY <1>2, FS_RemoveElement
  <2>4. /\ IsFiniteSet(Above(ops, claim, op))
        /\ Cardinality(Above(ops, claim, op)) <= Cardinality(ops \ {op})
    BY <2>2, <2>3, FS_Subset
  <2> QED
    BY <1>2, <2>1, <2>3, <2>4, FS_CardinalityType
<1>9. ASSUME NEW o \in ops, NEW p \in ops, rank(o) = rank(p) PROVE o = p
  <2>1. /\ rank(o) = Cardinality(Above(ops, claim, o))
        /\ rank(p) = Cardinality(Above(ops, claim, p))
    BY <1>7
  <2>2. o \notin Above(ops, claim, p) /\ p \notin Above(ops, claim, o)
    <3> HIDE DEF claim, rank
    <3>1. ASSUME NEW x \in ops, NEW y \in Above(ops, claim, x)
          PROVE  /\ Cardinality(Above(ops, claim, x)) \in Nat
                 /\ Cardinality(Above(ops, claim, y)) \in Nat
                 /\ Cardinality(Above(ops, claim, y)) < Cardinality(Above(ops, claim, x))
      BY <1>2, <1>6, FewerAbove
    <3>2. \A x \in ops : \A y \in Above(ops, claim, x) :
             Cardinality(Above(ops, claim, y)) # Cardinality(Above(ops, claim, x))
      BY <3>1
    <3>3. Cardinality(Above(ops, claim, o)) = Cardinality(Above(ops, claim, p))
      BY <1>9, <2>1
    <3> QED
      BY <3>2, <3>3, Zenon
  <2>3. claim[o] = claim[p]
    <3>1. ~(claim[o] > claim[p]) /\ ~(claim[p] > claim[o])
      BY <2>2 DEF Above
    <3> QED
      BY <1>6, <3>1
  <2> QED
    BY <1>3, <1>5, <2>3
<1> HIDE DEF claim, rank
<1>10. \A op \in Operations :
          /\ marked[op] \in Nat /\ marked[op] <= reg.expirations + Cardinality(ops)
          /\ op \in ops => marked[op] > reg.expirations /\ marked[op] = reg.expirations + 1 + rank(op)
          /\ op \notin ops => marked[op] = reg.expiredKeys[op]
  BY <1>2, <1>4, <1>8
<1> HIDE DEF marked
<1>11. ASSUME NEW o \in signs, NEW p \in signs, marked[o] = marked[p] PROVE o = p
  <2>1. o \in Operations /\ p \in Operations /\ marked[o] # 0 /\ marked[p] # 0
    OBVIOUS
  <2>2. CASE o \in ops /\ p \in ops
    BY <1>4, <1>8, <1>9, <1>10, <1>11, <2>1, <2>2
  <2>3. CASE o \notin ops /\ p \notin ops
    BY <1>10, <1>11, <2>1, <2>3 DEF Numbered, Tombstones
  <2>4. CASE (o \in ops) # (p \in ops)
    BY <1>4, <1>10, <1>11, <2>1, <2>4
  <2> QED
    BY <2>2, <2>3, <2>4
<1>12. /\ IsFiniteSet(signs) /\ \A x \in signs : marked[x] \in Nat
  BY <1>2, <1>10, FS_Subset
<1>13. ASSUME NEW op \in signs
       PROVE  {o \in Operations : marked[o] > marked[op]} = Above(signs, marked, op)
  BY <1>10 DEF Above
<1>14. Tombstones(new) = Top(signs, marked, MaxEntries)
  <2>1. ASSUME NEW op \in signs
        PROVE  op \in dropped <=> Cardinality(Above(signs, marked, op)) >= MaxEntries
    BY <1>13
  <2>2. ASSUME NEW op \in signs PROVE Cardinality(Above(signs, marked, op)) \in Nat
    <3> HIDE DEF signs
    <3> QED
      BY <1>12, FS_Subset, FS_CardinalityType DEF Above
  <2>3. Tombstones(new) = {op \in Operations : kept[op] # 0}
    BY <1>1 DEF Tombstones
  <2>4. {op \in Operations : kept[op] # 0} = {op \in signs : op \notin dropped}
    OBVIOUS
  <2>5. MaxEntries \in Nat
    BY SendAssumption
  <2> HIDE DEF dropped, kept, signs
  <2> QED
    BY <2>1, <2>2, <2>3, <2>4, <2>5 DEF Top
<1>15. Cardinality(Tombstones(new)) <= MaxEntries
  <2> HIDE DEF signs, new
  <2> QED
    BY <1>11, <1>12, <1>14, SendAssumption, TopIsSmall
<1>16. /\ \A op \in Operations : new.entries[op] # NoEntry => new.entries[op].claimed <= n
       /\ \A o, p \in Operations :
             new.entries[o] # NoEntry /\ new.entries[p] # NoEntry
                /\ new.entries[o].claimed = new.entries[p].claimed => o = p
  BY <1>1 DEF Numbered
<1>17. \A op \in Operations : new.expiredKeys[op] <= new.expirations
  BY <1>1, <1>2, <1>4, <1>10
<1>18. \A o, p \in Tombstones(new) : new.expiredKeys[o] = new.expiredKeys[p] => o = p
  <2>1. \A op \in Tombstones(new) : op \in signs /\ new.expiredKeys[op] = marked[op]
    BY <1>1 DEF Tombstones
  <2> QED
    BY <1>11, <2>1
<1> QED
  BY <1>15, <1>16, <1>17, <1>18 DEF Numbered

\* evictExpired: what has expired leaves, and nothing else.
LEMMA EvictNumbers ==
    ASSUME NEW reg \in Registries, NEW n \in Nat, Numbered(reg, n)
    PROVE  /\ EvictExpired(reg) \in Registries
           /\ Numbered(EvictExpired(reg), n)
           /\ Cardinality(Tombstones(EvictExpired(reg))) <= MaxEntries
           /\ InState(EvictExpired(reg), "pending") = InState(reg, "pending")
           /\ InState(EvictExpired(reg), "accepted") =
                 {op \in InState(reg, "accepted") : ~(now >= reg.entries[op].expiresAt)}
<1> DEFINE ops == {op \in InState(reg, "accepted") : now >= reg.entries[op].expiresAt}
           new == EvictExpired(reg)
<1>1. new = Forget(reg, ops) /\ ops \in SUBSET InState(reg, "accepted")
  BY DEF EvictExpired
<1>2. ops \in SUBSET Operations
  BY DEF InState
<1> HIDE DEF ops, new
<1>3. /\ new \in Registries
      /\ \A op \in Operations : new.entries[op] = IF op \in ops THEN NoEntry ELSE reg.entries[op]
  BY <1>1, <1>2, ForgetRemembers
<1>4. Numbered(new, n) /\ Cardinality(Tombstones(new)) <= MaxEntries
  BY <1>1, ForgetNumbers
<1>5. NoEntry.state = "none"
  BY DEF NoEntry
<1>6. /\ InState(new, "pending") = InState(reg, "pending")
      /\ InState(new, "accepted") = InState(reg, "accepted") \ ops
  BY <1>1, <1>3, <1>5 DEF InState
<1> QED
  BY <1>3, <1>4, <1>6 DEF new, ops

\* trimToBound: a receipt leaves only where as many as are ever kept remain.
LEMMA TrimNumbers ==
    ASSUME NEW reg \in Registries, NEW n \in Nat, Numbered(reg, n)
    PROVE  /\ TrimToBound(reg) \in Registries
           /\ Numbered(TrimToBound(reg), n)
           /\ Cardinality(Tombstones(TrimToBound(reg))) <= MaxEntries
           /\ InState(TrimToBound(reg), "pending") = InState(reg, "pending")
           /\ Cardinality(InState(TrimToBound(reg), "accepted")) <= MaxEntries
           /\ \A op \in InState(reg, "accepted") :
                 op \notin InState(TrimToBound(reg), "accepted") =>
                    Cardinality(InState(TrimToBound(reg), "accepted")) = MaxEntries
<1> DEFINE receipts == InState(reg, "accepted")
           claim == [op \in receipts |-> reg.entries[op].claimed]
           ops == {op \in receipts : Cardinality({o \in receipts :
                      reg.entries[o].claimed > reg.entries[op].claimed}) >= MaxEntries}
           new == TrimToBound(reg)
<1>1. new = Forget(reg, ops) /\ ops \in SUBSET receipts
  BY DEF TrimToBound
<1>2. receipts \in SUBSET Operations /\ IsFiniteSet(receipts)
  BY SendAssumption, FS_Subset DEF InState
<1>3. \A x \in receipts : claim[x] \in Nat
  BY <1>2, EntryNumbers DEF InState
<1>4. \A x, y \in receipts : claim[x] = claim[y] => x = y
  <2>1. \A x \in receipts : reg.entries[x] # NoEntry
    BY <1>2, EntryNumbers DEF InState
  <2> QED
    BY <1>2, <2>1 DEF Numbered
<1>5. receipts \ ops = Top(receipts, claim, MaxEntries)
  <2>1. ASSUME NEW op \in receipts
        PROVE  {o \in receipts : reg.entries[o].claimed > reg.entries[op].claimed}
                  = Above(receipts, claim, op)
    BY DEF Above
  <2>2. ASSUME NEW op \in receipts PROVE Cardinality(Above(receipts, claim, op)) \in Nat
    <3> HIDE DEF receipts, claim
    <3> QED
      BY <1>2, FS_Subset, FS_CardinalityType DEF Above
  <2>3. ops = {op \in receipts : Cardinality(Above(receipts, claim, op)) >= MaxEntries}
    BY <2>1
  <2>4. MaxEntries \in Nat
    BY SendAssumption
  <2> HIDE DEF receipts, claim, ops
  <2> QED
    BY <2>2, <2>3, <2>4 DEF Top
<1> HIDE DEF ops, new, claim
<1>6. /\ new \in Registries
      /\ \A op \in Operations : new.entries[op] = IF op \in ops THEN NoEntry ELSE reg.entries[op]
  BY <1>1, <1>2, ForgetRemembers
<1>7. Numbered(new, n) /\ Cardinality(Tombstones(new)) <= MaxEntries
  BY <1>1, ForgetNumbers
<1>8. /\ InState(new, "pending") = InState(reg, "pending")
      /\ InState(new, "accepted") = receipts \ ops
  <2>1. NoEntry.state = "none"
    BY DEF NoEntry
  <2> QED
    BY <1>1, <1>6, <2>1 DEF InState
<1> HIDE DEF receipts
<1>9. /\ Cardinality(receipts \ ops) \in Nat /\ Cardinality(receipts \ ops) <= MaxEntries
      /\ MaxEntries \in Nat
  BY <1>2, <1>3, <1>4, <1>5, SendAssumption, TopIsSmall
<1>10. receipts \ ops # receipts => Cardinality(receipts \ ops) >= MaxEntries
  BY <1>2, <1>3, <1>5, <1>9, TopIsLarge
<1>11. ASSUME NEW op \in receipts, op \notin receipts \ ops
       PROVE  Cardinality(receipts \ ops) = MaxEntries
  BY <1>9, <1>10, <1>11
<1> QED
  BY <1>6, <1>7, <1>8, <1>9, <1>11 DEF new, receipts

-----------------------------------------------------------------------------
LEMMA ClaimCount ==
    /\ Claims \in SUBSET Requests /\ IsFiniteSet(Claims) /\ Cardinality(Claims) \in Nat
    /\ NextClaim = Cardinality(Claims) + 1
<1>1. Claims \in SUBSET Requests
  BY DEF Claims
<1>2. IsFiniteSet(Claims) /\ Cardinality(Claims) \in Nat
  BY <1>1, SendAssumption, FS_Subset, FS_CardinalityType
<1> QED
  BY <1>1, <1>2 DEF NextClaim, Claims

\* The numbers of a registry in which one entry was replaced, under n or anew.
LEMMA ReplaceNumbers ==
    ASSUME NEW reg \in Registries, NEW n \in Nat, Numbered(reg, n),
           NEW key \in Operations, NEW entry \in Entry \cup {NoEntry}, NEW m \in Nat, n <= m,
           \/ entry = NoEntry
           \/ reg.entries[key] # NoEntry /\ entry.claimed = reg.entries[key].claimed
           \/ entry.claimed = n + 1 /\ n + 1 <= m
    PROVE  LET new == [reg EXCEPT !.entries[key] = entry]
           IN  /\ new \in Registries
               /\ Numbered(new, m)
               /\ Tombstones(new) = Tombstones(reg)
               /\ \A op \in Operations : new.entries[op] = IF op = key THEN entry ELSE reg.entries[op]
<1> DEFINE new == [reg EXCEPT !.entries[key] = entry]
<1>1. /\ new \in Registries
      /\ \A op \in Operations : new.entries[op] = IF op = key THEN entry ELSE reg.entries[op]
      /\ new.expiredKeys = reg.expiredKeys /\ new.expirations = reg.expirations
      /\ Tombstones(new) = Tombstones(reg)
  BY DEF Registries, Tombstones
<1> HIDE DEF new
<1>2. \A op \in Operations : reg.entries[op] # NoEntry =>
         reg.entries[op].claimed \in Nat /\ reg.entries[op].claimed <= n
  BY EntryNumbers DEF Numbered
<1>3. \A op \in Operations : new.entries[op] # NoEntry => new.entries[op].claimed <= m
  BY <1>1, <1>2
<1>4. ASSUME NEW o \in Operations, NEW p \in Operations,
             new.entries[o] # NoEntry, new.entries[p] # NoEntry,
             new.entries[o].claimed = new.entries[p].claimed
      PROVE  o = p
  <2>1. CASE o = key /\ p = key
    BY <2>1
  <2>2. CASE o # key /\ p # key
    BY <1>1, <1>4, <2>2 DEF Numbered
  <2>3. CASE o = key /\ p # key
    BY <1>1, <1>2, <1>4, <2>3 DEF Numbered
  <2>4. CASE o # key /\ p = key
    BY <1>1, <1>2, <1>4, <2>4 DEF Numbered
  <2> QED
    BY <2>1, <2>2, <2>3, <2>4
<1>5. /\ \A op \in Operations : new.expiredKeys[op] <= new.expirations
      /\ \A o, p \in Tombstones(new) : new.expiredKeys[o] = new.expiredKeys[p] => o = p
  BY <1>1 DEF Numbered
<1>6. Numbered(new, m)
  BY <1>3, <1>4, <1>5 DEF Numbered
<1> QED
  BY <1>1, <1>6 DEF new

LEMMA SizeOfState ==
    ASSUME NEW reg, NEW state
    PROVE  /\ InState(reg, state) \in SUBSET Operations /\ IsFiniteSet(InState(reg, state))
           /\ Cardinality(InState(reg, state)) \in Nat
BY SendAssumption, FS_Subset, FS_CardinalityType DEF InState

LEMMA SmallerSize ==
    ASSUME NEW S \in SUBSET Operations, NEW R \in SUBSET S
    PROVE  /\ Cardinality(R) \in Nat /\ Cardinality(S) \in Nat
           /\ Cardinality(R) <= Cardinality(S)
<1>1. IsFiniteSet(S)
  BY SendAssumption, FS_Subset
<1> QED
  BY <1>1, FS_Subset, FS_CardinalityType

\* The steps that claim nothing leave the claims as they are, and the claim numbers.
LEMMA SameClaims ==
    ASSUME ClaimsOnce,
           \A q \in Requests : /\ request'[q].claimed = request[q].claimed
                               /\ request'[q].pc \in {"new", "sent"} =>
                                     request[q].pc \in {"new", "sent"}
    PROVE  Claims' = Claims /\ ClaimsOnce'
BY DEF Claims, ClaimsOnce

\* A claim: its entry gets the next number, and there is room for it.
LEMMA ClaimBounds ==
    ASSUME BoundInv, NEW r \in Requests, Claim(r)
    PROVE  /\ Numbered(registry, Cardinality(Claims))' /\ ClaimsOnce' /\ Bounded'
           /\ \A op \in InState(registry, "accepted") :
                 now < registry.entries[op].expiresAt /\ op \notin InState(registry', "accepted") =>
                    Cardinality(InState(registry', "accepted")) = MaxEntries
<1> DEFINE reg == IF request[r].epoch = epoch THEN EvictExpired(registry) ELSE registry
           outcome == ClaimOutcome(reg, r)
           entry == [state |-> "pending", payload |-> Payload[r], owner |-> r,
                     expiresAt |-> 0, claimed |-> NextClaim]
           key == Operation[r]
           n == Cardinality(Claims)
<1>1. /\ registry \in Registries /\ now \in Nat /\ Numbered(registry, n) /\ Bounded
      /\ request \in [Requests -> [pc : Places, epoch : Nat, claimed : BOOLEAN]]
  BY DEF BoundInv, IInv, TypeOK
<1>2. n \in Nat /\ NextClaim = n + 1 /\ IsFiniteSet(Claims)
  BY ClaimCount
<1>3. /\ request[r].pc = "sent" /\ ~request[r].claimed /\ now' = now
      /\ IF outcome = "executing"
         THEN /\ registry' = TrimToBound([reg EXCEPT !.entries[Operation[r]] = entry])
              /\ request' = [request EXCEPT ![r].pc = outcome, ![r].claimed = TRUE]
         ELSE /\ registry' = reg
              /\ request' = At(r, outcome)
  BY DEF Claim, BoundInv, ClaimsOnce
<1>4. outcome \notin {"new", "sent"}
  BY DEF ClaimOutcome
<1>5. outcome = "executing" =>
         /\ reg.entries[key] = NoEntry
         /\ ~(Cardinality(InState(reg, "pending")) >= MaxPending)
  BY DEF ClaimOutcome
<1>6. /\ reg \in Registries /\ Numbered(reg, n)
      /\ Cardinality(Tombstones(reg)) <= MaxEntries
      /\ InState(reg, "pending") = InState(registry, "pending")
      /\ InState(reg, "accepted") \subseteq InState(registry, "accepted")
      /\ \A op \in InState(registry, "accepted") :
            now < registry.entries[op].expiresAt => op \in InState(reg, "accepted")
  <2>1. CASE request[r].epoch = epoch
    <3>1. /\ EvictExpired(registry) \in Registries /\ Numbered(EvictExpired(registry), n)
          /\ Cardinality(Tombstones(EvictExpired(registry))) <= MaxEntries
          /\ InState(EvictExpired(registry), "pending") = InState(registry, "pending")
          /\ InState(EvictExpired(registry), "accepted") =
                {op \in InState(registry, "accepted") : ~(now >= registry.entries[op].expiresAt)}
      BY <1>1, <1>2, EvictNumbers
    <3>2. \A op \in InState(registry, "accepted") : registry.entries[op].expiresAt \in Nat
      <4>1. \A op \in InState(registry, "accepted") : registry.entries[op] \in Entry
        BY <1>1, EntryNumbers DEF InState
      <4> QED
        BY <4>1 DEF Entry
    <3> QED
      BY <1>1, <2>1, <3>1, <3>2
  <2>2. CASE request[r].epoch # epoch
    BY <1>1, <2>2 DEF Bounded
  <2> QED
    BY <2>1, <2>2
<1>7. entry \in Entry /\ entry.claimed = n + 1 /\ entry.state = "pending"
  BY <1>2, SendAssumption DEF Entry
<1>8. key \in Operations
  BY SendAssumption
<1>9. Cardinality(InState(registry, "accepted")) <= MaxEntries
      /\ Cardinality(InState(registry, "pending")) <= MaxPending
  BY <1>1 DEF Bounded
<1> HIDE DEF reg, outcome, entry, n, key
<1>10. CASE outcome = "executing"
  <2> DEFINE mid == [reg EXCEPT !.entries[key] = entry]
  <2>1. /\ mid \in Registries /\ Numbered(mid, n + 1)
        /\ \A op \in Operations : mid.entries[op] = IF op = key THEN entry ELSE reg.entries[op]
    BY <1>2, <1>6, <1>7, <1>8, ReplaceNumbers
  <2>2. registry' = TrimToBound(mid)
    BY <1>3, <1>10 DEF key
  <2> HIDE DEF mid
  <2>3. /\ Numbered(registry', n + 1)
        /\ Cardinality(Tombstones(registry')) <= MaxEntries
        /\ InState(registry', "pending") = InState(mid, "pending")
        /\ Cardinality(InState(registry', "accepted")) <= MaxEntries
        /\ \A op \in InState(mid, "accepted") :
              op \notin InState(registry', "accepted") =>
                 Cardinality(InState(registry', "accepted")) = MaxEntries
    BY <1>2, <2>1, <2>2, TrimNumbers
  <2>4. NoEntry.state = "none"
    BY DEF NoEntry
  <2>5. /\ InState(mid, "pending") = InState(registry, "pending") \cup {key}
        /\ InState(reg, "accepted") \subseteq InState(mid, "accepted")
    <3>1. InState(mid, "pending") = InState(reg, "pending") \cup {key}
      BY <1>7, <1>8, <2>1 DEF InState
    <3>2. InState(reg, "accepted") \subseteq InState(mid, "accepted")
      BY <1>5, <1>10, <2>1, <2>4 DEF InState
    <3> QED
      BY <1>6, <3>1, <3>2
  <2>6. Cardinality(InState(registry', "pending")) <= MaxPending
    <3>1. /\ IsFiniteSet(InState(registry, "pending"))
          /\ Cardinality(InState(registry, "pending")) \in Nat
      BY SizeOfState
    <3>2. \/ Cardinality(InState(registry, "pending") \cup {key}) =
                Cardinality(InState(registry, "pending"))
          \/ Cardinality(InState(registry, "pending") \cup {key}) =
                Cardinality(InState(registry, "pending")) + 1
      BY <3>1, FS_AddElement
    <3>3. Cardinality(InState(registry', "pending")) =
             Cardinality(InState(registry, "pending") \cup {key})
      BY <2>3, <2>5
    <3>4. ~(Cardinality(InState(registry, "pending")) >= MaxPending) /\ MaxPending \in Nat
      BY <1>5, <1>6, <1>10, SendAssumption
    <3> QED
      BY <3>1, <3>2, <3>3, <3>4
  <2>7. Bounded'
    BY <2>3, <2>6 DEF Bounded
  <2>8. /\ request'[r].claimed = TRUE /\ request'[r].pc = "executing"
        /\ \A q \in Requests \ {r} : request'[q] = request[q]
    BY <1>1, <1>3, <1>10
  <2>9. ClaimsOnce'
    BY <2>8 DEF ClaimsOnce, BoundInv
  <2>10. Claims' = Claims \cup {r} /\ r \notin Claims
    BY <1>3, <2>8 DEF Claims
  <2>11. Cardinality(Claims') = n + 1
    BY <1>2, <2>10, FS_AddElement DEF n
  <2>12. Numbered(registry, Cardinality(Claims))'
    <3>1. Numbered(registry', Cardinality(Claims'))
      BY <2>3, <2>11
    <3> QED
      BY <3>1 DEF Numbered, Tombstones
  <2> QED
    BY <1>6, <2>3, <2>5, <2>7, <2>9, <2>12
<1>11. CASE outcome # "executing"
  <2>1. registry' = reg /\ request' = At(r, outcome)
    BY <1>3, <1>11
  <2>2. \A q \in Requests : /\ request'[q].claimed = request[q].claimed
                            /\ request'[q].pc = IF q = r THEN outcome ELSE request[q].pc
    BY <1>1, <2>1 DEF At
  <2>3. Claims' = Claims /\ ClaimsOnce'
    BY <1>4, <2>2 DEF Claims, ClaimsOnce, BoundInv
  <2>4. Numbered(registry, Cardinality(Claims))'
    <3>1. Numbered(registry', Cardinality(Claims'))
      BY <1>6, <2>1, <2>3 DEF n
    <3> QED
      BY <3>1 DEF Numbered, Tombstones
  <2>5. Bounded'
    <3>1. /\ Cardinality(InState(reg, "accepted")) <= Cardinality(InState(registry, "accepted"))
          /\ Cardinality(InState(reg, "accepted")) \in Nat
          /\ Cardinality(InState(registry, "accepted")) \in Nat
      BY <1>6, SizeOfState, SmallerSize
    <3>2. Cardinality(InState(registry', "accepted")) <= MaxEntries
      BY <1>9, <2>1, <3>1, SendAssumption
    <3> QED
      BY <1>6, <1>9, <2>1, <3>2 DEF Bounded
  <2> QED
    BY <1>6, <2>1, <2>3, <2>4, <2>5
<1> QED
  BY <1>10, <1>11

\* An acceptance: the claim's entry becomes the newest receipt in time, not in number.
LEMMA AcceptBounds ==
    ASSUME BoundInv, NEW r \in Requests, Accept(r)
    PROVE  /\ Numbered(registry, Cardinality(Claims))' /\ ClaimsOnce' /\ Bounded'
           /\ \A op \in InState(registry, "accepted") :
                 op \notin InState(registry', "accepted") =>
                    Cardinality(InState(registry', "accepted")) = MaxEntries
<1> DEFINE key == Operation[r]
           entry == [registry.entries[key] EXCEPT !.state = "accepted", !.expiresAt = now + TtlMs]
           mid == [registry EXCEPT !.entries[key] = entry]
           n == Cardinality(Claims)
<1>1. /\ registry \in Registries /\ now \in Nat /\ Numbered(registry, n) /\ Bounded /\ ClaimsOnce
      /\ request \in [Requests -> [pc : Places, epoch : Nat, claimed : BOOLEAN]]
  BY DEF BoundInv, IInv, TypeOK
<1>2. n \in Nat
  BY ClaimCount
<1>3. /\ request[r].pc = "ran" /\ registry' = TrimToBound(mid)
      /\ request' = [q \in Requests |->
                       IF q = r THEN [request[q] EXCEPT !.pc = "accepted"]
                       ELSE IF q \in Waiters(r) THEN [request[q] EXCEPT !.pc = "deduplicated"]
                       ELSE request[q]]
  BY DEF Accept, Settled
<1>4. key \in Operations /\ registry.entries[key].state = "pending"
  BY <1>3, SendAssumption DEF BoundInv, IInv, TypeOK
<1>5. registry.entries[key] \in Entry /\ registry.entries[key] # NoEntry
  BY <1>1, <1>4, EntryNumbers
<1>6. entry \in Entry /\ entry.state = "accepted" /\ entry.claimed = registry.entries[key].claimed
  <2>1. now + TtlMs \in Nat
    BY <1>1, SendAssumption
  <2>2. ASSUME NEW e \in Entry, NEW time \in Nat
        PROVE  LET f == [e EXCEPT !.state = "accepted", !.expiresAt = time]
               IN  f \in Entry /\ f.state = "accepted" /\ f.claimed = e.claimed
    BY <2>2 DEF Entry
  <2> QED
    BY <1>5, <2>1, <2>2
<1> HIDE DEF key, entry, n
<1>7. /\ mid \in Registries /\ Numbered(mid, n)
      /\ \A op \in Operations : mid.entries[op] = IF op = key THEN entry ELSE registry.entries[op]
  BY <1>1, <1>2, <1>4, <1>5, <1>6, ReplaceNumbers
<1> HIDE DEF mid
<1>8. /\ Numbered(registry', n)
      /\ Cardinality(Tombstones(registry')) <= MaxEntries
      /\ InState(registry', "pending") = InState(mid, "pending")
      /\ Cardinality(InState(registry', "accepted")) <= MaxEntries
      /\ \A op \in InState(mid, "accepted") :
            op \notin InState(registry', "accepted") =>
               Cardinality(InState(registry', "accepted")) = MaxEntries
  BY <1>2, <1>3, <1>7, TrimNumbers
<1>9. /\ InState(mid, "pending") \subseteq InState(registry, "pending")
      /\ InState(registry, "accepted") \subseteq InState(mid, "accepted")
  BY <1>4, <1>6, <1>7 DEF InState
<1>10. Bounded'
  <2>1. /\ Cardinality(InState(mid, "pending")) <= Cardinality(InState(registry, "pending"))
        /\ Cardinality(InState(mid, "pending")) \in Nat
        /\ Cardinality(InState(registry, "pending")) \in Nat
    BY <1>9, SizeOfState, SmallerSize
  <2>2. Cardinality(InState(registry, "pending")) <= MaxPending /\ MaxPending \in Nat
    BY <1>1, SendAssumption DEF Bounded
  <2>3. Cardinality(InState(registry', "pending")) <= MaxPending
    BY <1>8, <2>1, <2>2
  <2> QED
    BY <1>8, <2>3 DEF Bounded
<1>11. Claims' = Claims /\ ClaimsOnce'
  <2>1. \A q \in Requests : /\ request'[q].claimed = request[q].claimed
                            /\ request'[q].pc \in {"new", "sent"} =>
                                  request[q].pc \in {"new", "sent"}
    BY <1>1, <1>3
  <2> QED
    BY <1>1, <2>1, SameClaims
<1>12. Numbered(registry, Cardinality(Claims))'
  <2>1. Numbered(registry', Cardinality(Claims'))
    BY <1>8, <1>11 DEF n
  <2> QED
    BY <2>1 DEF Numbered, Tombstones
<1> QED
  BY <1>8, <1>9, <1>10, <1>11, <1>12

\* A refusal frees its number with its entry; no receipt is touched.
LEMMA RefuseBounds ==
    ASSUME BoundInv, NEW r \in Requests, Refuse(r)
    PROVE  /\ Numbered(registry, Cardinality(Claims))' /\ ClaimsOnce' /\ Bounded'
           /\ InState(registry', "accepted") = InState(registry, "accepted")
<1> DEFINE key == Operation[r]
           n == Cardinality(Claims)
<1>1. /\ registry \in Registries /\ Numbered(registry, n) /\ Bounded /\ ClaimsOnce
      /\ request \in [Requests -> [pc : Places, epoch : Nat, claimed : BOOLEAN]]
  BY DEF BoundInv, IInv, TypeOK
<1>2. n \in Nat
  BY ClaimCount
<1>3. /\ request[r].pc = "executing"
      /\ registry' = [registry EXCEPT !.entries[key] = NoEntry]
      /\ request' = [q \in Requests |->
                       IF q = r THEN [request[q] EXCEPT !.pc = "rejected"]
                       ELSE IF q \in Waiters(r) THEN [request[q] EXCEPT !.pc = "rejected"]
                       ELSE request[q]]
  BY DEF Refuse, Settled
<1>4. key \in Operations /\ registry.entries[key].state = "pending"
  BY <1>3, SendAssumption DEF BoundInv, IInv, TypeOK
<1> HIDE DEF key, n
<1>5. /\ Numbered(registry', n) /\ Tombstones(registry') = Tombstones(registry)
      /\ \A op \in Operations :
            registry'.entries[op] = IF op = key THEN NoEntry ELSE registry.entries[op]
  <2> DEFINE free == NoEntry
             new == [registry EXCEPT !.entries[key] = free]
  <2>1. free \in Entry \cup {NoEntry} /\ free = NoEntry
    OBVIOUS
  <2> HIDE DEF free
  <2>2. /\ Numbered(new, n) /\ Tombstones(new) = Tombstones(registry)
        /\ \A op \in Operations :
              new.entries[op] = IF op = key THEN NoEntry ELSE registry.entries[op]
    BY <1>1, <1>2, <1>4, <2>1, ReplaceNumbers
  <2>3. registry' = new
    BY <1>3, <2>1
  <2> HIDE DEF new
  <2> QED
    BY <2>2, <2>3
<1>6. /\ InState(registry', "accepted") = InState(registry, "accepted")
      /\ InState(registry', "pending") \subseteq InState(registry, "pending")
  BY <1>4, <1>5 DEF InState, NoEntry
<1>7. Bounded'
  <2>1. /\ Cardinality(InState(registry', "pending")) <= Cardinality(InState(registry, "pending"))
        /\ Cardinality(InState(registry', "pending")) \in Nat
        /\ Cardinality(InState(registry, "pending")) \in Nat
    BY <1>6, SizeOfState, SmallerSize
  <2>2. Cardinality(InState(registry, "pending")) <= MaxPending /\ MaxPending \in Nat
    BY <1>1, SendAssumption DEF Bounded
  <2>3. Cardinality(InState(registry', "pending")) <= MaxPending
    BY <2>1, <2>2
  <2> QED
    BY <1>1, <1>5, <1>6, <2>3 DEF Bounded
<1>8. Claims' = Claims /\ ClaimsOnce'
  <2>1. \A q \in Requests : /\ request'[q].claimed = request[q].claimed
                            /\ request'[q].pc \in {"new", "sent"} =>
                                  request[q].pc \in {"new", "sent"}
    BY <1>1, <1>3
  <2> QED
    BY <1>1, <2>1, SameClaims
<1>9. Numbered(registry, Cardinality(Claims))'
  <2>1. Numbered(registry', Cardinality(Claims'))
    BY <1>5, <1>8 DEF n
  <2> QED
    BY <2>1 DEF Numbered, Tombstones
<1> QED
  BY <1>6, <1>7, <1>8, <1>9

\* A new lifetime has nothing to count.
LEMMA EmptyBounds ==
    /\ \A n \in Nat : Numbered(NoRegistry, n)
    /\ InState(NoRegistry, "accepted") = {} /\ InState(NoRegistry, "pending") = {}
    /\ Tombstones(NoRegistry) = {}
    /\ Cardinality({}) = 0 /\ 0 <= MaxEntries /\ 0 <= MaxPending
<1>1. /\ \A op \in Operations : NoRegistry.entries[op] = NoEntry /\ NoRegistry.expiredKeys[op] = 0
      /\ NoRegistry.expirations = 0 /\ NoEntry.state = "none"
  BY DEF NoRegistry, NoEntry
<1>2. InState(NoRegistry, "accepted") = {} /\ InState(NoRegistry, "pending") = {}
      /\ Tombstones(NoRegistry) = {}
  BY <1>1 DEF InState, Tombstones
<1>3. \A n \in Nat : Numbered(NoRegistry, n)
  BY <1>1, <1>2 DEF Numbered
<1>4. Cardinality({}) = 0
  BY FS_EmptySet
<1>5. 0 <= MaxEntries /\ 0 <= MaxPending
  BY SendAssumption
<1> QED
  BY <1>2, <1>3, <1>4, <1>5

\* Expiry leaves fewer receipts and as many claims.
LEMMA ExpiryBounds ==
    ASSUME BoundInv, registry' = EvictExpired(registry), UNCHANGED <<now, request>>
    PROVE  /\ Numbered(registry, Cardinality(Claims))' /\ ClaimsOnce' /\ Bounded'
           /\ \A op \in InState(registry, "accepted") :
                 now < registry.entries[op].expiresAt => op \in InState(registry', "accepted")
<1> DEFINE n == Cardinality(Claims)
<1>1. registry \in Registries /\ now \in Nat /\ Numbered(registry, n) /\ Bounded /\ ClaimsOnce
  BY DEF BoundInv, IInv, TypeOK
<1>2. n \in Nat
  BY ClaimCount
<1> HIDE DEF n
<1>3. /\ Numbered(registry', n)
      /\ Cardinality(Tombstones(registry')) <= MaxEntries
      /\ InState(registry', "pending") = InState(registry, "pending")
      /\ InState(registry', "accepted") =
            {op \in InState(registry, "accepted") : ~(now >= registry.entries[op].expiresAt)}
  BY <1>1, <1>2, EvictNumbers
<1>4. \A op \in InState(registry, "accepted") : registry.entries[op].expiresAt \in Nat
  <2>1. \A op \in InState(registry, "accepted") : registry.entries[op] \in Entry
    BY <1>1, EntryNumbers DEF InState
  <2> QED
    BY <2>1 DEF Entry
<1>5. Bounded'
  <2>1. InState(registry', "accepted") \in SUBSET InState(registry, "accepted")
    BY <1>3
  <2>2. /\ Cardinality(InState(registry', "accepted")) <= Cardinality(InState(registry, "accepted"))
        /\ Cardinality(InState(registry', "accepted")) \in Nat
        /\ Cardinality(InState(registry, "accepted")) \in Nat
    BY <2>1, SizeOfState, SmallerSize
  <2>3. Cardinality(InState(registry, "accepted")) <= MaxEntries /\ MaxEntries \in Nat
    BY <1>1, SendAssumption DEF Bounded
  <2>4. Cardinality(InState(registry', "accepted")) <= MaxEntries
    BY <2>2, <2>3
  <2> QED
    BY <1>1, <1>3, <2>4 DEF Bounded
<1>6. Claims' = Claims /\ ClaimsOnce'
  BY <1>1 DEF Claims, ClaimsOnce
<1>7. Numbered(registry, Cardinality(Claims))'
  <2>1. Numbered(registry', Cardinality(Claims'))
    BY <1>3, <1>6 DEF n
  <2> QED
    BY <2>1 DEF Numbered, Tombstones
<1> QED
  BY <1>1, <1>3, <1>4, <1>5, <1>6, <1>7

\* What a step does to the counts, and to the receipts that have not expired.
StepBounds ==
    /\ BoundInv'
    /\ \A op \in InState(registry, "accepted") :
          now < registry.entries[op].expiresAt /\ epoch' = epoch
             /\ op \notin InState(registry', "accepted") =>
          Cardinality(InState(registry', "accepted")) = MaxEntries

LEMMA EveryStepBounds ==
    ASSUME BoundInv, IInv', [Next]_vars PROVE StepBounds
<1>1. /\ Numbered(registry, Cardinality(Claims)) /\ ClaimsOnce /\ Bounded
      /\ request \in [Requests -> [pc : Places, epoch : Nat, claimed : BOOLEAN]]
      /\ Cardinality(Claims) \in Nat /\ epoch \in Nat
  BY ClaimCount DEF BoundInv, IInv, TypeOK
<1>2. ASSUME UNCHANGED registry,
             \A q \in Requests : /\ request'[q].claimed = request[q].claimed
                                 /\ request'[q].pc \in {"new", "sent"} =>
                                       request[q].pc \in {"new", "sent"}
      PROVE  StepBounds
  <2>1. Claims' = Claims /\ ClaimsOnce'
    BY <1>1, <1>2, SameClaims
  <2>2. Numbered(registry, Cardinality(Claims))'
    <3>1. Numbered(registry', Cardinality(Claims'))
      BY <1>1, <1>2, <2>1
    <3> QED
      BY <3>1 DEF Numbered, Tombstones
  <2>3. Bounded'
    BY <1>1, <1>2 DEF Bounded, InState, Tombstones
  <2> QED
    BY <1>2, <2>1, <2>2, <2>3 DEF StepBounds, BoundInv
<1>3. ASSUME NEW r \in Requests, Send(r) PROVE StepBounds
  BY <1>1, <1>2, <1>3 DEF Send
<1>4. ASSUME NEW r \in Requests, Claim(r) PROVE StepBounds
  BY <1>4, ClaimBounds DEF StepBounds, BoundInv
<1>5. ASSUME NEW r \in Requests, PiAccepts(r) PROVE StepBounds
  BY <1>1, <1>2, <1>5 DEF PiAccepts, At
<1>6. ASSUME NEW r \in Requests, Refuse(r) PROVE StepBounds
  BY <1>6, RefuseBounds DEF StepBounds, BoundInv
<1>7. ASSUME NEW r \in Requests, Accept(r) PROVE StepBounds
  BY <1>7, AcceptBounds DEF StepBounds, BoundInv
<1>8. CASE Query
  BY <1>8, ExpiryBounds DEF Query, StepBounds, BoundInv
<1>9. CASE TimePasses \/ UNCHANGED vars
  BY <1>1, <1>2, <1>9 DEF TimePasses, vars
<1>10. CASE Restart
  <2>1. /\ registry' = NoRegistry /\ epoch' # epoch
        /\ \A q \in Requests : /\ request'[q].claimed = request[q].claimed
                               /\ request'[q].pc \in {"new", "sent"} =>
                                     request[q].pc \in {"new", "sent"}
    BY <1>1, <1>10 DEF Restart
  <2>2. Claims' = Claims /\ ClaimsOnce'
    BY <1>1, <2>1, SameClaims
  <2>3. Numbered(registry, Cardinality(Claims))'
    <3>1. Numbered(registry', Cardinality(Claims'))
      BY <1>1, <2>1, <2>2, EmptyBounds
    <3> QED
      BY <3>1 DEF Numbered, Tombstones
  <2>4. Bounded'
    <3>1. /\ Cardinality(InState(registry', "accepted")) <= MaxEntries
          /\ Cardinality(InState(registry', "pending")) <= MaxPending
          /\ Cardinality(Tombstones(registry')) <= MaxEntries
      BY <2>1, EmptyBounds
    <3> QED
      BY <3>1 DEF Bounded
  <2> QED
    BY <2>1, <2>2, <2>3, <2>4 DEF StepBounds, BoundInv
<1> QED
  BY <1>3, <1>4, <1>5, <1>6, <1>7, <1>8, <1>9, <1>10 DEF Next

LEMMA InitBounds == Init => BoundInv
<1> SUFFICES ASSUME Init, IInv PROVE BoundInv
  BY InitHolds
<1>1. Numbered(registry, Cardinality(Claims)) /\ Bounded
  BY ClaimCount, EmptyBounds DEF Init, Bounded
<1>2. ClaimsOnce
  BY DEF Init, ClaimsOnce
<1> QED
  BY <1>1, <1>2 DEF BoundInv

\* The two Maps keep to their bounds: entries and tombstones are numbered apart, in
\* the order in which they came, so counting the later ones finds the oldest.
THEOREM StaysBounded == Spec => [](BoundInv /\ Bounded)
<1>1. BoundInv /\ IInv' /\ [Next]_vars => BoundInv'
  BY EveryStepBounds DEF StepBounds
<1>2. BoundInv => Bounded
  BY DEF BoundInv
<1> QED
  BY <1>1, <1>2, InitBounds, Inductive, PTL DEF Spec

\* A receipt that has not expired goes only when as many others as are ever kept
\* remain, for any number of operations, whatever claims are executing beside them.
THEOREM ReceiptsStay == Spec => ReceiptsKept
<1> DEFINE Stays ==
        \A op \in InState(registry, "accepted") :
           /\ registry'.entries[op].state # "accepted"
           /\ now < registry.entries[op].expiresAt
           /\ epoch' = epoch
           => Cardinality(InState(registry', "accepted")) = MaxEntries
<1>1. BoundInv /\ IInv' /\ [Next]_vars => [Stays]_vars
  <2> SUFFICES ASSUME BoundInv, IInv', [Next]_vars,
                      NEW op \in InState(registry, "accepted"),
                      registry'.entries[op].state # "accepted",
                      now < registry.entries[op].expiresAt, epoch' = epoch
               PROVE  Cardinality(InState(registry', "accepted")) = MaxEntries
    OBVIOUS
  <2>1. op \notin InState(registry', "accepted")
    BY DEF InState
  <2> QED
    BY <2>1, EveryStepBounds DEF StepBounds
<1>2. ReceiptsKept <=> [][Stays]_vars
  BY DEF ReceiptsKept
<1> HIDE DEF Stays
<1>3. Spec => [][Stays]_vars
  BY <1>1, StaysBounded, Inductive, PTL DEF Spec
<1> QED
  BY <1>2, <1>3, PTL
================================================================================
