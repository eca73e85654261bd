------------------------------- MODULE KotProofs -------------------------------
(***************************************************************************)
(* The life of kitchen tickets, for any number of tickets, items and       *)
(* requests.                                                               *)
(*                                                                         *)
(* A save is blind, so the invariant says what the copy to be saved implies *)
(* of the stored ticket: a copy is completed only if the ticket was started *)
(* before it was loaded, and no save returns a ticket to sent.             *)
(***************************************************************************)
EXTENDS Kot, TLAPS

(* What a request knows of its order and of its ticket. *)
HandlerInv(h) ==
    /\ pc[h] \in {"dedup", "persist", "notify"} => ord[h] \in Orders
    /\ pc[h] \in {"dedup", "persist"} => ordMem[h] \in OrderFSM.states
    /\ pc[h] \in {"save", "patch"} => kot[h] \in Kots /\ Exists(kot[h])
    /\ pc[h] = "save" =>
         /\ mem[h] \in {"in_progress", "completed", "cancelled"}
         /\ mem[h] = "completed" => status[kot[h]] # "sent"

(* A goroutine about to complete a ticket has seen it started. *)
AutosInv ==
    \A g \in autos : Exists(g[1]) /\ (g[3] \in {"save"} => status[g[1]] # "sent")

(* The inductive invariant. *)
KotInv == TypeOK /\ AutosInv /\ \A h \in Handlers : HandlerInv(h)

(* A ticket that exists stays, and one that has been started stays started. *)
Onward ==
    \A k \in Kots : Exists(k) => Exists(k)' /\ (status[k] # "sent" => status'[k] # "sent")

-----------------------------------------------------------------------------
(* An event that can be fired has a transition, and its target is that *)
(* transition's. *)
LEMMA FiredTransition ==
    ASSUME NEW fsm, NEW s, NEW e, Can(fsm, s, e)
    PROVE  \E t \in fsm.trans : t[1] = s /\ t[2] = e /\ t[3] = Target(fsm, s, e)
BY DEF Can, CanTransition, Target, Lookup

(* An order's machine stays within its states. *)
LEMMA OrderTargets ==
    ASSUME NEW s, NEW e, Can(OrderFSM, s, e)
    PROVE  Target(OrderFSM, s, e) \in OrderFSM.states
<1>1. PICK t \in OrderFSM.trans : t[3] = Target(OrderFSM, s, e)
  BY FiredTransition
<1> QED
  BY <1>1 DEF OrderFSM, Definition, FromEach

(* A ticket's machine never returns to sent, and completes only what is *)
(* in progress (FSM.go, KOTFSM). *)
LEMMA KotTargets ==
    ASSUME NEW s, NEW e, Can(KOTFSM, s, e)
    PROVE  /\ Target(KOTFSM, s, e) \in {"in_progress", "completed", "cancelled"}
           /\ Target(KOTFSM, s, e) = "completed" => s = "in_progress"
<1>1. PICK t \in KOTFSM.trans : t[1] = s /\ t[3] = Target(KOTFSM, s, e)
  BY FiredTransition
<1> QED
  BY <1>1 DEF KOTFSM, Definition, FromEach

(* The states of a ticket. *)
LEMMA KotStates == KOTFSM.states = {"sent", "in_progress", "completed", "cancelled"}
BY DEF KOTFSM, Definition

(* The invariant holds initially. *)
LEMMA KotInit == Init => KotInv
<1> SUFFICES ASSUME Init PROVE KotInv
  OBVIOUS
<1>1. {"pending", "confirmed"} \subseteq OrderFSM.states
  BY DEF OrderFSM, Definition
<1>2. TypeOK
  BY <1>1, KotAssumption DEF Init, TypeOK, Statuses, ItemStatuses
<1>3. AutosInv /\ \A h \in Handlers : HandlerInv(h)
  BY DEF Init, AutosInv, HandlerInv
<1> QED
  BY <1>2, <1>3 DEF KotInv

-----------------------------------------------------------------------------
(* The other requests keep their place and their copies. *)
Others(h) ==
    \A g \in Handlers : g # h =>
        pc'[g] = pc[g] /\ kot'[g] = kot[g] /\ mem'[g] = mem[g] /\ ord'[g] = ord[g] /\ ordMem'[g] = ordMem[g]

(* What a step of one handler does to the others and to the goroutines. *)
LEMMA HandlerStep ==
    ASSUME KotInv, NEW h \in Handlers, TypeOK', Others(h), Onward, HandlerInv(h)', UNCHANGED autos
    PROVE  KotInv'
<1>1. ASSUME NEW g \in Handlers, g # h PROVE HandlerInv(g)'
  <2>1. HandlerInv(g)
    BY DEF KotInv
  <2>2. pc'[g] = pc[g] /\ kot'[g] = kot[g] /\ mem'[g] = mem[g] /\ ord'[g] = ord[g] /\ ordMem'[g] = ordMem[g]
    BY <1>1 DEF Others
  <2> QED
    BY <2>1, <2>2 DEF HandlerInv, Onward, Exists
<1>2. AutosInv'
  <2>1. \A g \in autos : g[1] \in Kots
    BY DEF KotInv, TypeOK
  <2> QED
    BY <2>1 DEF KotInv, AutosInv, Onward, Exists
<1> QED
  BY <1>1, <1>2 DEF KotInv

(* A request that returns leaves the others alone. *)
LEMMA DoneShape ==
    ASSUME TypeOK, NEW h \in Handlers, Done(h)
    PROVE  /\ Others(h) /\ HandlerInv(h)'
           /\ pc' \in [Handlers -> {"idle", "dedup", "persist", "notify", "save", "patch"}]
           /\ kot' \in [Handlers -> Kots \cup {None}] /\ mem' \in [Handlers -> Statuses]
           /\ ord' \in [Handlers -> Orders \cup {None}]
           /\ ordMem' \in [Handlers -> OrderFSM.states \cup {"none"}]
<1>1. /\ pc' = [pc EXCEPT ![h] = "idle"] /\ kot' = [kot EXCEPT ![h] = None] /\ mem' = [mem EXCEPT ![h] = "absent"]
      /\ ord' = [ord EXCEPT ![h] = None] /\ ordMem' = [ordMem EXCEPT ![h] = "none"]
  BY DEF Done
<1> QED
  BY <1>1 DEF TypeOK, Others, HandlerInv, Statuses

(* Steps that load rows and work on the copies. *)
LEMMA LoadSteps ==
    ASSUME KotInv, NEW h \in Handlers,
           \/ CreateDedup(h)
           \/ \E o \in Orders : CreateLoad(h, o) \/ NotifyLookup(h, o)
           \/ \E k \in Kots : PatchLoad(h, k)
           \/ \E k \in Kots, e \in {"start", "complete", "cancel"}, m \in BOOLEAN : FireLoad(h, k, e, m)
    PROVE  KotInv' /\ UNCHANGED status
<1>1. TypeOK /\ HandlerInv(h)
  BY DEF KotInv
<1>2. UNCHANGED <<status, orderOf, relayed, urgent, item, orderStatus, autos, updates>>
  BY DEF CreateDedup, CreateLoad, NotifyLookup, PatchLoad, FireLoad, rows
<1>3. Onward
  BY <1>2 DEF Onward, Exists
<1>4. CASE CreateDedup(h)
  <2>1. CASE Done(h)
    BY <1>1, <1>2, <1>3, <2>1, DoneShape, HandlerStep DEF TypeOK
  <2>2. CASE pc' = [pc EXCEPT ![h] = "persist"] /\ UNCHANGED <<kot, mem, ord, ordMem>>
    <3>1. Others(h)
      BY <1>1, <2>2 DEF TypeOK, Others
    <3>2. TypeOK'
      BY <1>1, <1>2, <2>2 DEF TypeOK
    <3>3. HandlerInv(h)'
      <4>1. pc[h] = "dedup" /\ pc'[h] = "persist" /\ UNCHANGED <<kot, mem, ord, ordMem>>
        BY <1>1, <1>4, <2>2 DEF TypeOK, CreateDedup
      <4> QED
        BY <1>1, <4>1 DEF HandlerInv
    <3> QED
      BY <1>2, <1>3, <3>1, <3>2, <3>3, HandlerStep
  <2> QED
    BY <1>4, <2>1, <2>2 DEF CreateDedup, Goto, locals
<1>5. ASSUME NEW o \in Orders, CreateLoad(h, o) \/ NotifyLookup(h, o) PROVE KotInv'
  <2>1. /\ ord' = [ord EXCEPT ![h] = o] /\ UNCHANGED <<kot, mem>>
        /\ \/ ordMem' = [ordMem EXCEPT ![h] = orderStatus[o]] /\ pc' = [pc EXCEPT ![h] = "dedup"]
           \/ ordMem' = ordMem /\ pc' = [pc EXCEPT ![h] = "notify"]
    BY <1>5 DEF CreateLoad, NotifyLookup, Goto
  <2>2. TypeOK' /\ Others(h) /\ HandlerInv(h)'
    BY <1>1, <1>2, <2>1 DEF TypeOK, Others, HandlerInv
  <2> QED
    BY <1>2, <1>3, <2>2, HandlerStep
<1>6. ASSUME NEW k \in Kots, PatchLoad(h, k) PROVE KotInv'
  <2>1. TypeOK' /\ Others(h) /\ HandlerInv(h)'
    BY <1>1, <1>2, <1>6 DEF TypeOK, Others, HandlerInv, PatchLoad, Goto, Exists
  <2> QED
    BY <1>2, <1>3, <2>1, HandlerStep
<1>7. ASSUME NEW k \in Kots, NEW e \in {"start", "complete", "cancel"}, NEW m \in BOOLEAN, FireLoad(h, k, e, m)
      PROVE KotInv'
  <2>1. PICK s \in {"in_progress", "completed", "cancelled"} :
          mem' = [mem EXCEPT ![h] = s] /\ (s = "completed" => status[k] = "in_progress")
    <3>1. Can(KOTFSM, status[k], e) /\ mem' = [mem EXCEPT ![h] = Target(KOTFSM, status[k], e)]
      BY <1>7 DEF FireLoad, Accepts
    <3> DEFINE t == Target(KOTFSM, status[k], e)
    <3>2. t \in {"in_progress", "completed", "cancelled"} /\ (t = "completed" => status[k] = "in_progress")
      BY <3>1, KotTargets
    <3> QED
      BY ONLY <3>1, <3>2
  <2>2. Exists(k) /\ kot' = [kot EXCEPT ![h] = k] /\ pc' = [pc EXCEPT ![h] = "save"] /\ UNCHANGED <<ord, ordMem>>
    BY <1>7 DEF FireLoad, Goto
  <2>3. TypeOK' /\ Others(h) /\ HandlerInv(h)'
    BY <1>1, <1>2, <2>1, <2>2, KotStates DEF TypeOK, Others, HandlerInv, Exists, Statuses
  <2> QED
    BY <1>2, <1>3, <2>3, HandlerStep
<1> QED
  BY <1>2, <1>4, <1>5, <1>6, <1>7

(* What no step does to a ticket. *)
Lawful ==
    \A k \in Kots :
        /\ status[k] = "sent" => status'[k] # "completed"
        /\ Exists(k) /\ status[k] # "sent" => status'[k] # "sent"

(* A save of a copy keeps the invariant and the life of tickets. *)
LEMMA SaveSteps ==
    ASSUME KotInv, NEW h \in Handlers, FireSave(h) \/ PatchSave(h)
    PROVE  KotInv' /\ Lawful
<1>1. TypeOK /\ HandlerInv(h) /\ Done(h) /\ kot[h] \in Kots /\ Exists(kot[h])
  BY DEF KotInv, HandlerInv, FireSave, PatchSave
<1>2. UNCHANGED <<orderOf, relayed, item, orderStatus, autos, updates>> /\ urgent' \subseteq Kots
  BY <1>1 DEF FireSave, PatchSave, TypeOK
<1>3. PICK k \in Kots : k = kot[h]
  BY <1>1
<1>4. \/ status' = status
      \/ \E s \in {"in_progress", "completed", "cancelled"} :
           status' = [status EXCEPT ![k] = s] /\ (s = "completed" => status[k] # "sent")
  BY <1>1, <1>3 DEF FireSave, PatchSave, HandlerInv
<1>5. status' \in [Kots -> Statuses] /\ Onward /\ Lawful
  <2>1. CASE status' = status
    BY <1>1, <2>1 DEF TypeOK, Onward, Lawful, Exists
  <2>2. ASSUME NEW s \in {"in_progress", "completed", "cancelled"}, status' = [status EXCEPT ![k] = s],
               s = "completed" => status[k] # "sent"
        PROVE  status' \in [Kots -> Statuses] /\ Onward /\ Lawful
    <3>1. status \in [Kots -> Statuses] /\ s \in Statuses /\ s # "absent" /\ s # "sent"
      BY <1>1, KotStates DEF TypeOK, Statuses
    <3>2. status' \in [Kots -> Statuses] /\ Onward
      BY <2>2, <3>1 DEF Onward, Exists
    <3>3. Lawful
      BY <2>2, <3>1 DEF Lawful, Exists
    <3> QED
      BY <3>2, <3>3
  <2> QED
    BY <1>4, <2>1, <2>2
<1>6. TypeOK' /\ Others(h) /\ HandlerInv(h)'
  BY <1>1, <1>2, <1>5, DoneShape DEF TypeOK
<1> QED
  BY <1>2, <1>5, <1>6, HandlerStep

(* Inserting a ticket keeps both. *)
LEMMA InsertSteps ==
    ASSUME KotInv, NEW h \in Handlers, CreatePersist(h) \/ NotifyCreate(h)
    PROVE  KotInv' /\ Lawful
<1>1. TypeOK /\ HandlerInv(h) /\ Done(h) /\ ord[h] \in Orders
  BY DEF KotInv, HandlerInv, CreatePersist, NotifyCreate
<1>2. \/ UNCHANGED <<status, orderOf>>
      \/ \E k \in Kots : Insert(k, ord[h])
  BY DEF CreatePersist, NotifyCreate, rows
<1>3. UNCHANGED <<item, autos, updates>> /\ relayed' \subseteq Kots /\ urgent' \subseteq Kots
  BY <1>1 DEF CreatePersist, NotifyCreate, rows, TypeOK
<1>4. orderStatus' \in [Orders -> OrderFSM.states]
  <2>1. UNCHANGED orderStatus \/ (Can(OrderFSM, ordMem[h], "prepare")
                                  /\ orderStatus' = [orderStatus EXCEPT ![ord[h]] = Target(OrderFSM, ordMem[h], "prepare")])
    BY DEF CreatePersist, NotifyCreate
  <2> QED
    BY <1>1, <2>1, OrderTargets DEF TypeOK
<1>5. /\ status' \in [Kots -> Statuses] /\ orderOf' \in [Kots -> Orders \cup {None}]
      /\ Onward /\ Lawful
  BY <1>1, <1>2, KotStates, ZenonT(60) DEF TypeOK, Statuses, Insert, Onward, Lawful, Exists
<1>6. TypeOK' /\ Others(h) /\ HandlerInv(h)'
  BY <1>1, <1>3, <1>4, <1>5, DoneShape DEF TypeOK
<1> QED
  BY <1>3, <1>5, <1>6, HandlerStep

(* Steps of items, goroutines and orders leave the handlers' copies alone. *)
LEMMA OtherSteps ==
    ASSUME KotInv,
           \/ AutoComplete
           \/ \E k \in Kots, i \in Items, s \in ItemStatuses : UpdateItem(k, i, s)
           \/ \E o \in Orders, e \in OrderEvents : OtherOrderEvent(o, e)
           \/ UNCHANGED vars
    PROVE  KotInv' /\ Lawful
<1>1. TypeOK /\ AutosInv
  BY DEF KotInv
<1>2. UNCHANGED <<orderOf, relayed, urgent, pc, kot, mem, ord, ordMem>>
  BY DEF AutoComplete, AutoCount, AutoLoad, AutoSave, AutoFails, UpdateItem, OtherOrderEvent, vars, rows, locals
<1>3. \/ status' = status
      \/ \E g \in autos : g[3] = "save" /\ status' = [status EXCEPT ![g[1]] = "completed"]
  BY DEF AutoComplete, AutoCount, AutoLoad, AutoSave, AutoFails, UpdateItem, OtherOrderEvent, vars, rows
<1>4. status' \in [Kots -> Statuses] /\ Onward /\ Lawful
  <2>1. ASSUME NEW g \in autos, g[3] = "save" PROVE g[1] \in Kots /\ status[g[1]] # "sent"
    BY <1>1, <2>1 DEF AutosInv, TypeOK
  <2>2. CASE status' = status
    BY <1>1, <2>2 DEF TypeOK, Onward, Lawful, Exists
  <2>3. ASSUME NEW k \in Kots, status[k] # "sent", status' = [status EXCEPT ![k] = "completed"]
        PROVE  status' \in [Kots -> Statuses] /\ Onward /\ Lawful
    BY <1>1, <2>3, KotStates DEF TypeOK, Statuses, Onward, Lawful, Exists
  <2>4. ASSUME NEW g \in autos, g[3] = "save", status' = [status EXCEPT ![g[1]] = "completed"]
        PROVE  status' \in [Kots -> Statuses] /\ Onward /\ Lawful
    <3>1. PICK k \in Kots : k = g[1]
      BY <2>1, <2>4
    <3> QED
      BY <2>1, <2>3, <2>4, <3>1
  <2> QED
    BY <1>3, <2>2, <2>4
<1>5. \A h \in Handlers : HandlerInv(h)'
  BY <1>1, <1>2, <1>4 DEF KotInv, HandlerInv, Onward, Exists
<1>6. ASSUME NEW a \in autos'
      PROVE  /\ a \in Kots \X (1..MaxUpdates) \X {"count", "load", "save", "failed"}
             /\ Exists(a[1])' /\ (a[3] = "save" => status'[a[1]] # "sent")
  <2>1. CASE a \in autos
    BY <1>1, <1>4, <2>1 DEF TypeOK, AutosInv, Onward
  <2>2. ASSUME a \notin autos, NEW k \in Kots, NEW i \in Items, NEW s \in ItemStatuses, UpdateItem(k, i, s)
        PROVE  /\ a \in Kots \X (1..MaxUpdates) \X {"count", "load", "save", "failed"}
               /\ Exists(a[1])' /\ (a[3] = "save" => status'[a[1]] # "sent")
    <3>1. a = <<k, updates + 1, "count">> /\ Exists(k) /\ updates < MaxUpdates
      BY <2>2, <1>6 DEF UpdateItem
    <3>2. updates + 1 \in 1..MaxUpdates /\ Exists(k)'
      BY <1>1, <1>4, <3>1, KotAssumption DEF TypeOK, Onward
    <3> QED
      BY <3>1, <3>2
  <2>3. ASSUME a \notin autos, AutoComplete
        PROVE  /\ a \in Kots \X (1..MaxUpdates) \X {"count", "load", "save", "failed"}
               /\ Exists(a[1])' /\ (a[3] = "save" => status'[a[1]] # "sent")
    <3>1. PICK g \in autos : AutoCount(g) \/ AutoLoad(g) \/ AutoSave(g)
      BY <2>3 DEF AutoComplete
    <3>2. \/ a \in {<<g[1], g[2], "load">>, <<g[1], g[2], "failed">>}
          \/ a = <<g[1], g[2], "save">> /\ status[g[1]] = "in_progress"
      <4>1. \/ autos' = autos \ {g} \/ AutoStep(g, "load") \/ AutoStep(g, "failed")
            \/ AutoStep(g, "save") /\ status[g[1]] = "in_progress"
        BY <3>1 DEF AutoCount, AutoLoad, AutoSave, AutoFails, End
      <4> QED
        BY <1>6, <2>3, <4>1 DEF AutoStep
    <3>3. g[1] \in Kots /\ g[2] \in 1..MaxUpdates /\ Exists(g[1])
      BY <1>1 DEF TypeOK, AutosInv
    <3> QED
      BY <1>4, <3>2, <3>3 DEF Onward, Exists
  <2> QED
    BY <1>6, <2>1, <2>2, <2>3 DEF OtherOrderEvent, vars
<1>7. AutosInv'
  BY <1>6 DEF AutosInv
<1>8. /\ item' \in [Kots -> [Items -> ItemStatuses]] /\ orderStatus' \in [Orders -> OrderFSM.states]
      /\ updates' \in 0..MaxUpdates
  <2>1. CASE UNCHANGED <<item, orderStatus, updates>>
    BY <1>1, <2>1 DEF TypeOK
  <2>2. ASSUME NEW k \in Kots, NEW i \in Items, NEW s \in ItemStatuses, UpdateItem(k, i, s)
        PROVE  /\ item' \in [Kots -> [Items -> ItemStatuses]] /\ orderStatus' \in [Orders -> OrderFSM.states]
               /\ updates' \in 0..MaxUpdates
    BY <1>1, <2>2, KotAssumption DEF UpdateItem, TypeOK
  <2>3. ASSUME NEW o \in Orders, NEW e, OtherOrderEvent(o, e)
        PROVE  /\ item' \in [Kots -> [Items -> ItemStatuses]] /\ orderStatus' \in [Orders -> OrderFSM.states]
               /\ updates' \in 0..MaxUpdates
    BY <1>1, <2>3, OrderTargets DEF OtherOrderEvent, TypeOK, rows
  <2> QED
    BY <2>1, <2>2, <2>3 DEF AutoComplete, AutoCount, AutoLoad, AutoSave, AutoFails, vars, rows
<1>9. TypeOK'
  <2>1. autos' \subseteq Kots \X (1..MaxUpdates) \X {"count", "load", "save", "failed"}
    BY <1>6
  <2> QED
    BY <1>1, <1>2, <1>4, <1>8, <2>1 DEF TypeOK
<1> QED
  BY <1>4, <1>5, <1>7, <1>9 DEF KotInv

(* Every step keeps the invariant and the life of tickets. *)
LEMMA KotStep == KotInv /\ [Next]_vars => KotInv' /\ Lawful
<1> SUFFICES ASSUME KotInv, [Next]_vars PROVE KotInv' /\ Lawful
  OBVIOUS
<1>1. ASSUME UNCHANGED status PROVE Lawful
  BY <1>1 DEF Lawful, Exists
<1>2. ASSUME NEW h \in Handlers, Continue(h) PROVE KotInv' /\ Lawful
  BY <1>1, <1>2, LoadSteps, SaveSteps, InsertSteps DEF Continue
<1> QED
  BY <1>1, <1>2, LoadSteps, OtherSteps DEF Next, Refused

(* The types of rows, copies and goroutines. *)
THEOREM KotTypes == Spec => []TypeOK
<1>1. KotInv => TypeOK
  BY DEF KotInv
<1> QED
  BY KotInit, KotStep, <1>1, PTL DEF Spec

(* A ticket is not completed before it was started and never goes back to   *)
(* sent, whatever copies are saved in whatever order. *)
THEOREM TicketsStartFirst == Spec => NoStartSkipped
<1>1. KotInv /\ [Next]_vars => [Lawful]_vars
  BY KotStep
<1> QED
  BY KotInit, KotStep, <1>1, PTL DEF Spec, NoStartSkipped, Lawful
=============================================================================
