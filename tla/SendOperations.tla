---------------------------- MODULE SendOperations ----------------------------
(***************************************************************************)
(* The send-operation registry of the session daemon, and the requests     *)
(* that go through it.  Every prompt, steer or follow-up carries an        *)
(* operation id; the daemon claims it before Pi runs, answers duplicates   *)
(* with the original receipt, and keeps a bounded memory of what it did.   *)
(*                                                                         *)
(* An operation stands for the registry's key: kind, session and id within *)
(* one daemon lifetime.  A payload stands for its fingerprint.  The two    *)
(* Maps of the code are read in insertion order: `claimed` numbers the     *)
(* entries, and expiredKeys maps a key to its number, or to 0.             *)
(***************************************************************************)
EXTENDS Naturals, FiniteSets

CONSTANTS
    Operations,     \* operation keys
    Payloads,       \* fingerprints
    Requests,       \* send requests that reach the daemon
    Operation,      \* the operation of each request
    Payload,        \* the payload of each request
    TtlMs,          \* how long a receipt is kept
    MaxEntries,     \* receipts kept, and tombstones kept
    MaxPending,     \* claims that may be executing at once
    MaxTime,        \* bound: the clock stops here
    MaxEpoch        \* bound: daemon lifetimes explored

ASSUME SendAssumption ==
    /\ Operation \in [Requests -> Operations]
    /\ Payload \in [Requests -> Payloads]
    /\ TtlMs \in Nat \ {0} /\ MaxEntries \in Nat \ {0} /\ MaxPending \in Nat \ {0}
    /\ MaxTime \in Nat /\ MaxEpoch \in Nat
    /\ IsFiniteSet(Operations) /\ IsFiniteSet(Requests)

VARIABLES
    now,        \* the daemon's clock
    epoch,      \* the daemon lifetime (streamEpoch)
    registry,   \* the two Maps and, for the properties, the forgotten keys
    request,    \* per request: where it is and the epoch it was sent under
    ran         \* history: the requests Pi ran in this lifetime

vars == <<now, epoch, registry, request, ran>>

NoEntry == [state |-> "none"]
Entry == [state : {"pending", "accepted"}, payload : Payloads, owner : Requests,
          expiresAt : Nat, claimed : Nat]

\* What a request was told.
Answers == {"accepted", "deduplicated", "rejected", "mismatch", "expired",
            "overloaded", "stale", "lost"}

InState(reg, state) == {op \in Operations : reg.entries[op].state = state}

-----------------------------------------------------------------------------
(* The registry's helpers, on a registry record. *)

\* The keys whose tombstone is still there.
Tombstones(reg) == {op \in Operations : reg.expiredKeys[op] # 0}

\* Receipts leave and become tombstones, oldest first (rememberExpired): only
\* the MaxEntries newest tombstones stay, the others are forgotten.
Forget(reg, ops) ==
    LET marked  == [op \in Operations |->
                      IF op \in ops
                      THEN reg.expirations + 1 +
                             Cardinality({o \in ops :
                                reg.entries[o].claimed < reg.entries[op].claimed})
                      ELSE reg.expiredKeys[op]]
        dropped == {op \in Operations :
                      /\ marked[op] # 0
                      /\ Cardinality({o \in Operations : marked[o] > marked[op]}) >= MaxEntries}
    IN  [entries     |-> [op \in Operations |-> IF op \in ops THEN NoEntry
                                                ELSE reg.entries[op]],
         expiredKeys |-> [op \in Operations |-> IF op \in dropped THEN 0 ELSE marked[op]],
         expirations |-> reg.expirations + Cardinality(ops),
         forgotten   |-> reg.forgotten \cup dropped]

EvictExpired(reg) ==
    Forget(reg, {op \in InState(reg, "accepted") : now >= reg.entries[op].expiresAt})

\* Mutant: the receipts to drop are counted with the pending claims.
TrimToBound_countsPending(reg) ==
    Forget(reg, {op \in InState(reg, "accepted") :
        Cardinality({o \in InState(reg, "accepted") \cup InState(reg, "pending") :
            reg.entries[o].claimed > reg.entries[op].claimed}) >= MaxEntries})

\* At most MaxEntries receipts: the ones claimed first go.
TrimToBound(reg) ==
    Forget(reg, {op \in InState(reg, "accepted") :
        Cardinality({o \in InState(reg, "accepted") :
            reg.entries[o].claimed > reg.entries[op].claimed}) >= MaxEntries})

\* The next insertion number: above every entry's.
NextClaim ==
    1 + Cardinality({r \in Requests : request[r].claimed})

\* Mutant: a tombstone does not keep the id from being used again.
ClaimOutcome_ignoresTombstone(reg, r) ==
    LET entry == reg.entries[Operation[r]]
    IN  IF request[r].epoch # epoch THEN "stale"
        ELSE IF entry # NoEntry
        THEN IF entry.payload # Payload[r] THEN "mismatch"
             ELSE IF entry.state = "accepted" THEN "deduplicated" ELSE "waiting"
        ELSE IF Cardinality(InState(reg, "pending")) >= MaxPending THEN "overloaded"
        ELSE "executing"

\* Mutant: a duplicate is recognised whatever it carries.
ClaimOutcome_ignoresPayload(reg, r) ==
    LET entry == reg.entries[Operation[r]]
    IN  IF request[r].epoch # epoch THEN "stale"
        ELSE IF entry # NoEntry
        THEN IF entry.state = "accepted" THEN "deduplicated" ELSE "waiting"
        ELSE IF Operation[r] \in Tombstones(reg) THEN "expired"
        ELSE IF Cardinality(InState(reg, "pending")) >= MaxPending THEN "overloaded"
        ELSE "executing"

\* claim: the outcome for request r once expired receipts have left.
ClaimOutcome(reg, r) ==
    LET entry == reg.entries[Operation[r]]
    IN  IF request[r].epoch # epoch THEN "stale"
        ELSE IF entry # NoEntry
        THEN IF entry.payload # Payload[r] THEN "mismatch"
             ELSE IF entry.state = "accepted" THEN "deduplicated" ELSE "waiting"
        ELSE IF Operation[r] \in Tombstones(reg) THEN "expired"
        ELSE IF Cardinality(InState(reg, "pending")) >= MaxPending THEN "overloaded"
        ELSE "executing"
-----------------------------------------------------------------------------
(* Steps. *)

At(r, place) == [request EXCEPT ![r].pc = place]

\* A request leaves its client under the epoch that is live; it may be late.
Send(r) ==
    /\ request[r].pc = "new"
    /\ request' = [request EXCEPT ![r].pc = "sent", ![r].epoch = epoch]
    /\ UNCHANGED <<now, epoch, registry, ran>>

\* sessionInput up to the claim.
Claim(r) ==
    /\ request[r].pc = "sent"
    /\ LET reg     == IF request[r].epoch = epoch THEN EvictExpired(registry) ELSE registry
           outcome == ClaimOutcome(reg, r)
           entry   == [state |-> "pending", payload |-> Payload[r], owner |-> r,
                       expiresAt |-> 0, claimed |-> NextClaim]
       IN  IF outcome = "executing"
           THEN /\ registry' = TrimToBound([reg EXCEPT !.entries[Operation[r]] = entry])
                /\ request' = [request EXCEPT ![r].pc = outcome, ![r].claimed = TRUE]
           ELSE /\ registry' = reg
                /\ request' = At(r, outcome)
    /\ UNCHANGED <<now, epoch, ran>>

\* The preflight gate of runSessionInput: Pi starts or queues the turn.
PiAccepts(r) ==
    /\ request[r].pc = "executing"
    /\ ran' = ran \cup {r}
    /\ request' = At(r, "ran")
    /\ UNCHANGED <<now, epoch, registry>>

\* The requests that share r's outcome.
Waiters(r) ==
    {q \in Requests : request[q].pc = "waiting" /\ Operation[q] = Operation[r]}

Settled(r, own, shared) ==
    request' = [q \in Requests |->
                  IF q = r THEN [request[q] EXCEPT !.pc = own]
                  ELSE IF q \in Waiters(r) THEN [request[q] EXCEPT !.pc = shared]
                  ELSE request[q]]

\* Mutant: a refused claim keeps its entry, and its duplicates wait on.
Refuse_keepsEntry(r) ==
    /\ request[r].pc = "executing"
    /\ UNCHANGED registry
    /\ request' = At(r, "rejected")
    /\ UNCHANGED <<now, epoch, ran>>

\* Activation, the model, an attachment or Pi's preflight failed: nothing ran,
\* and settle frees the id.
Refuse(r) ==
    /\ request[r].pc = "executing"
    /\ registry' = [registry EXCEPT !.entries[Operation[r]] = NoEntry]
    /\ Settled(r, "rejected", "rejected")
    /\ UNCHANGED <<now, epoch, ran>>

\* settle with an acceptance: the receipt is kept and the duplicates get it.
Accept(r) ==
    /\ request[r].pc = "ran"
    /\ LET entry == [registry.entries[Operation[r]] EXCEPT
                        !.state = "accepted", !.expiresAt = now + TtlMs]
       IN  registry' = TrimToBound([registry EXCEPT !.entries[Operation[r]] = entry])
    /\ Settled(r, "accepted", "deduplicated")
    /\ UNCHANGED <<now, epoch, ran>>

\* query and getReceipt change nothing but what has expired.
Query ==
    /\ EvictExpired(registry) # registry
    /\ registry' = EvictExpired(registry)
    /\ UNCHANGED <<now, epoch, request, ran>>

TimePasses ==
    /\ now < MaxTime
    /\ now' = now + 1
    /\ UNCHANGED <<epoch, registry, request, ran>>

NoRegistry == [entries |-> [op \in Operations |-> NoEntry],
               expiredKeys |-> [op \in Operations |-> 0], expirations |-> 0,
               forgotten |-> {}]

\* A new daemon process: receipts are gone, and so are the requests it held.
Restart ==
    /\ epoch < MaxEpoch
    /\ epoch' = epoch + 1
    /\ registry' = NoRegistry
    /\ ran' = {}
    /\ request' = [r \in Requests |->
                     IF request[r].pc \in {"executing", "ran", "waiting"}
                     THEN [request[r] EXCEPT !.pc = "lost"] ELSE request[r]]
    /\ UNCHANGED now

Init ==
    /\ now = 0
    /\ epoch = 0
    /\ registry = NoRegistry
    /\ request = [r \in Requests |-> [pc |-> "new", epoch |-> 0, claimed |-> FALSE]]
    /\ ran = {}

Next ==
    \/ \E r \in Requests :
          Send(r) \/ Claim(r) \/ PiAccepts(r) \/ Refuse(r) \/ Accept(r)
    \/ Query
    \/ TimePasses
    \/ Restart

Spec == Init /\ [][Next]_vars

\* The daemon reads its requests, and Pi's preflight settles one way or other.
Fairness ==
    \A r \in Requests : /\ WF_vars(Claim(r))
                        /\ WF_vars(PiAccepts(r) \/ Refuse(r) \/ Accept(r))

FairSpec == Spec /\ Fairness
-----------------------------------------------------------------------------
(* Properties. *)

Places == {"new", "sent", "executing", "ran", "waiting"} \cup Answers

Registries ==
    [entries : [Operations -> Entry \cup {NoEntry}], expiredKeys : [Operations -> Nat],
     expirations : Nat, forgotten : SUBSET Operations]

\* Every executing claim has its own pending entry.
TypeOK ==
    /\ now \in Nat
    /\ epoch \in Nat
    /\ registry \in Registries
    /\ request \in [Requests -> [pc : Places, epoch : Nat, claimed : BOOLEAN]]
    /\ ran \subseteq Requests
    /\ \A r \in Requests : request[r].pc \in {"executing", "ran"} =>
          /\ registry.entries[Operation[r]].state = "pending"
          /\ registry.entries[Operation[r]].owner = r

\* "One intent executes at most once within the bounded retention window":
\* an operation that ran twice in one daemon lifetime had lost its receipt and
\* its tombstone in between.
AtMostOnce ==
    \A q, r \in ran : Operation[q] = Operation[r] /\ q # r
                         => Operation[r] \in registry.forgotten

\* A caller that is told its send was accepted had its own payload run, even
\* when it is a duplicate that shared another request's outcome.
AcceptedRan ==
    \A r \in Requests :
        request[r].pc \in {"accepted", "deduplicated"} /\ request[r].epoch = epoch =>
            \E q \in ran : Operation[q] = Operation[r] /\ Payload[q] = Payload[r]

\* Receipts, executing claims and tombstones stay within their bounds.
Bounded ==
    /\ Cardinality(InState(registry, "accepted")) <= MaxEntries
    /\ Cardinality(InState(registry, "pending")) <= MaxPending
    /\ Cardinality(Tombstones(registry)) <= MaxEntries

\* A receipt leaves before its time only when as many others as are ever kept
\* remain: pending claims do not push receipts out.
ReceiptsKept ==
    [][\A op \in InState(registry, "accepted") :
          /\ registry'.entries[op].state # "accepted"
          /\ now < registry.entries[op].expiresAt
          /\ epoch' = epoch
          => Cardinality(InState(registry', "accepted")) = MaxEntries]_vars

\* "Every claim must settle its entry; an unsettled pending entry is a hang":
\* every request that reaches the daemon is answered.
EveryRequestAnswered ==
    \A r \in Requests : request[r].pc = "sent" ~> request[r].pc \in Answers

\* "accepted receipts are kept for ttlMs and at most maxEntries accepted
\* receipts are retained (oldest evicted)": the receipt of a send that was
\* accepted this moment is not the one to go.
NewestReceiptKept ==
    [][\A r \in Requests :
          request[r].pc = "ran" /\ request'[r].pc = "accepted" =>
             registry'.entries[Operation[r]].state = "accepted"]_vars
=============================================================================
