------------------------------ MODULE OrderSubmit ------------------------------
(***************************************************************************)
(* OrderService.SubmitOrder (services/business/Order.go, layers 1-3): the  *)
(* Redis idempotency key, domain validation with the table's machine, and  *)
(* the transaction that stores the order, takes the table and writes the   *)
(* outbox event.  A waiter app that gets no answer submits again with the  *)
(* same key.  The time modelled is shorter than idempotencyTTL (24 hours). *)
(***************************************************************************)
EXTENDS DomainFSMs, FiniteSets

CONSTANTS
    Calls,        \* SubmitOrder calls
    Keys,         \* idempotency keys, one per order a waiter means to place
    Tables,
    NoKey, NoTable, NoCall,
    Overlaps,     \* whether a key may be submitted again before the answer and its
                  \* caching: the answers to try
    MaxFaults     \* bound on crashes and Redis or database errors

(* What the constants must be. *)
SubmitAssumption ==
    /\ NoKey \notin Keys /\ NoTable \notin Tables /\ NoCall \notin Calls
    /\ Overlaps \subseteq BOOLEAN /\ MaxFaults \in Nat

VARIABLES
    overlap,      \* the answer of this behaviour
    tableOf,      \* the table each key's order is for; NoTable when not dine-in
    key,          \* the key a call was made with
    pc,
    seen,         \* table status in the call's copy of the row
    tableStatus,  \* tables.status
    orders,       \* calls whose transaction has committed: order and event
    cache,        \* idempotency:order:<key> in Redis: the call whose answer it is
    caching,      \* cacheIdempotencyResult goroutines
    answer,       \* the order a call has answered with, or NoCall
    faults

inputs == <<overlap, tableOf>>
vars == <<inputs, key, pc, seen, tableStatus, orders, cache, caching, answer, faults>>

Init ==
    /\ overlap \in Overlaps
    /\ tableOf \in [Keys -> Tables \cup {NoTable}]
    /\ key = [c \in Calls |-> NoKey]
    /\ pc = [c \in Calls |-> "new"]
    /\ seen = [c \in Calls |-> "none"]
    /\ tableStatus \in [Tables -> {"available", "occupied"}]
    /\ orders = {}
    /\ cache = [k \in Keys |-> NoCall]
    /\ caching = {}
    /\ answer = [c \in Calls |-> NoCall]
    /\ faults = 0

Goto(c, step) == pc' = [pc EXCEPT ![c] = step]
Table(c) == tableOf[key[c]]
CallsOf(k) == {c \in Calls : key[c] = k}
Open(k) == \E c \in CallsOf(k) : pc[c] \notin {"answered", "gone"} \/ c \in caching

(* The app submits the order of a key, or submits it again: while an        *)
(* earlier call is still running or, without overlap, only after it.        *)
Submit(c, k) ==
    /\ pc[c] = "new"
    /\ overlap \/ ~Open(k)
    /\ key' = [key EXCEPT ![c] = k]
    /\ Goto(c, "gateway")
    /\ UNCHANGED <<inputs, seen, tableStatus, orders, cache, caching, answer, faults>>

(* Mutant: Redis is not asked. *)
Gateway_NoDedup(c) ==
    /\ pc[c] = "gateway"
    /\ \/ Goto(c, "validate")
       \/ Goto(c, "answered")
    /\ UNCHANGED <<inputs, key, seen, tableStatus, orders, cache, caching, answer, faults>>

(* checkIdempotency and RBAC: a cached answer is replayed, a denied call is *)
(* rejected. *)
Gateway(c) ==
    /\ pc[c] = "gateway"
    /\ \/ /\ cache[key[c]] # NoCall
          /\ answer' = [answer EXCEPT ![c] = cache[key[c]]]
          /\ Goto(c, "answered")
       \/ /\ cache[key[c]] = NoCall
          /\ Goto(c, "validate") \/ Goto(c, "answered")
          /\ UNCHANGED answer
    /\ UNCHANGED <<inputs, key, seen, tableStatus, orders, cache, caching, faults>>

(* validateDomain: the table is loaded and its machine must accept seat;    *)
(* menu, price, modifier and stock checks may reject the order as well. *)
Validate(c) ==
    /\ pc[c] = "validate"
    /\ LET s == IF Table(c) = NoTable THEN "none" ELSE tableStatus[Table(c)] IN
       \/ /\ Table(c) = NoTable \/ Can(TableFSM, s, "seat")
          /\ seen' = [seen EXCEPT ![c] = s]
          /\ Goto(c, "transaction")
       \/ Goto(c, "answered") /\ UNCHANGED seen
    /\ UNCHANGED <<inputs, key, tableStatus, orders, cache, caching, answer, faults>>

(* Step 3h.  Send sets the copy's status to occupied before the UPDATE uses *)
(* it: WHERE table_id = ? AND status = dc.table.Status. *)
RowMatches(c) == tableStatus[Table(c)] = Target(TableFSM, seen[c], "seat")

(* runTransaction commits everything or nothing; after the commit the call  *)
(* answers and starts the goroutine that caches its answer. *)
Transaction(c) ==
    /\ pc[c] = "transaction"
    /\ IF Table(c) = NoTable \/ RowMatches(c)
       THEN /\ orders' = orders \cup {c}
            /\ answer' = [answer EXCEPT ![c] = c]
            /\ caching' = caching \cup {c}
            /\ tableStatus' = [t \in Tables |-> IF t = Table(c) THEN "occupied"
                                                ELSE tableStatus[t]]
       ELSE UNCHANGED <<orders, answer, caching, tableStatus>>
    /\ Goto(c, "answered")
    /\ UNCHANGED <<inputs, key, seen, cache, faults>>

CacheAnswer(c) ==
    /\ c \in caching
    /\ cache' = [cache EXCEPT ![key[c]] = c]
    /\ caching' = caching \ {c}
    /\ UNCHANGED <<inputs, key, pc, seen, tableStatus, orders, answer, faults>>

(* A Redis or database error, the ten-second timeout or a crash ends the    *)
(* call; or its goroutine's SET is lost; or Redis loses the entry. *)
Fault ==
    /\ faults < MaxFaults /\ faults' = faults + 1
    /\ \/ \E c \in Calls :
            \/ /\ pc[c] \in {"gateway", "validate", "transaction"}
               /\ Goto(c, "gone")
               /\ UNCHANGED <<caching, cache>>
            \/ /\ c \in caching
               /\ caching' = caching \ {c}
               /\ UNCHANGED <<pc, cache>>
       \/ \E k \in Keys :
            /\ cache[k] # NoCall
            /\ cache' = [cache EXCEPT ![k] = NoCall]
            /\ UNCHANGED <<pc, caching>>
    /\ UNCHANGED <<inputs, key, seen, tableStatus, orders, answer>>

(* Tables change by other hands too, along TableFSM: guests are seated and  *)
(* leave, tables are cleaned and reserved.  Disabling is left out. *)
FrontOfHouse(t) ==
    /\ \E e \in {"seat", "reserve", "arrive", "release", "clean"} :
         /\ Can(TableFSM, tableStatus[t], e)
         /\ tableStatus' = [tableStatus EXCEPT ![t] = Target(TableFSM, tableStatus[t], e)]
    /\ UNCHANGED <<inputs, key, pc, seen, orders, cache, caching, answer, faults>>

Continue(c) == Gateway(c) \/ Validate(c) \/ Transaction(c) \/ CacheAnswer(c)

Next ==
    \/ \E c \in Calls : Continue(c) \/ \E k \in Keys : Submit(c, k)
    \/ \E t \in Tables : FrontOfHouse(t)
    \/ Fault

Spec == Init /\ [][Next]_vars

-----------------------------------------------------------------------------
(* Properties. *)

(* Type invariant: calls, tables and the cache. *)
TypeOK ==
    /\ overlap \in Overlaps
    /\ tableOf \in [Keys -> Tables \cup {NoTable}]
    /\ key \in [Calls -> Keys \cup {NoKey}]
    /\ pc \in [Calls -> {"new", "gateway", "validate", "transaction", "answered", "gone"}]
    /\ seen \in [Calls -> {"none", "available"}]
    /\ tableStatus \in [Tables -> TableFSM.states \ {"out_of_service"}]
    /\ orders \subseteq Calls
    /\ cache \in [Keys -> Calls \cup {NoCall}]
    /\ caching \subseteq Calls
    /\ answer \in [Calls -> Calls \cup {NoCall}]
    /\ faults \in 0..MaxFaults

(* Idempotency dedup (Order.go:7, 389): an idempotency key places at most   *)
(* one order, however often its request is submitted, by an app that waits  *)
(* for the answer and its caching before it submits again, as long as       *)
(* nothing is lost. *)
PatientAppPlacesOneOrder ==
    ~overlap /\ faults = 0 => \A k \in Keys : Cardinality(orders \cap CallsOf(k)) <= 1

(* What a call answers with, at once or from the cache, is an order that    *)
(* has been committed for the call's own key - even when other calls fail,  *)
(* crash or overlap (Order.go:393-421, 426-450).                            *)
AnswersAreCommitted ==
    /\ \A c \in Calls : answer[c] # NoCall => answer[c] \in orders \cap CallsOf(key[c])
    /\ \A k \in Keys : cache[k] # NoCall => cache[k] \in orders \cap CallsOf(k)

SubmitSound == TypeOK /\ PatientAppPlacesOneOrder /\ AnswersAreCommitted

(* "Table FSM: Available -> Occupied (optimistic lock)" (Order.go:777): a   *)
(* transaction that seats its guests does so at a table that is available   *)
(* until then; on an available table it does not fail with "table %d was    *)
(* taken by another order" (Order.go:796).                                  *)
SeatsAvailableTable ==
    [][\A c \in Calls :
         pc[c] = "transaction" /\ pc'[c] = "answered" /\ Table(c) # NoTable
           => (c \in orders' <=> tableStatus[Table(c)] = "available")]_vars
=============================================================================
