----------------------------- MODULE ServicesProofs -----------------------------
(***************************************************************************)
(* Components of Services, each for every value of its constants.  A        *)
(* behaviour in which one of them runs takes steps of that component only,  *)
(* so its invariant is proved about the component and then about Spec.      *)
(***************************************************************************)
EXTENDS Services, FiniteSetTheorems, TLAPS

(* A component counts as this module does. *)
LEMMA SameCardinality ==
    ASSUME NEW S
    PROVE  /\ Su!Cardinality(S) = Cardinality(S)
           /\ Ra!Cardinality(S) = Cardinality(S)
           /\ Ac!Cardinality(S) = Cardinality(S)
           /\ Ra!IsFiniteSet(S) = IsFiniteSet(S)
           /\ Ac!IsFiniteSet(S) = IsFiniteSet(S)
BY DEF Su!Cardinality, Ra!Cardinality, Ac!Cardinality, Cardinality, Ra!IsFiniteSet, Ac!IsFiniteSet, IsFiniteSet

-----------------------------------------------------------------------------
(* Order submission. *)

(* Where a call is before its transaction. *)
Started == {"gateway", "validate", "transaction"}

(* A call has a key once it has been submitted, and an order only after it  *)
(* has answered; a goroutine caches only what has been committed. *)
CallInv(c) ==
    /\ pc[c] = "new" => key[c] = None /\ answer[c] = None /\ c \notin caching
    /\ pc[c] # "new" => key[c] \in OrderKeys
    /\ c \in orders => pc[c] = "answered"
    /\ c \in caching => c \in orders
    /\ pc[c] = "transaction" => (seen[c] = "available" \/ Su!Table(c) = None)

(* An app that waits has one call of a key open. *)
OneOpen ==
    ~overlap => \A c, d \in Calls :
        pc[c] \in Started /\ key[d] = key[c] /\ d # c => pc[d] \in {"answered", "gone"} /\ d \notin caching

(* While nothing is lost, an order is about to be cached or is cached, so   *)
(* that a call which got past the cache is the first of its key. *)
OrderKnown ==
    ~overlap /\ faults = 0 =>
        /\ \A c \in orders : c \in caching \/ cache[key[c]] # None
        /\ \A c \in Calls, d \in orders :
             (pc[c] \in {"validate", "transaction"} \/ c \in orders) /\ key[c] = key[d] => c = d

(* The inductive invariant. *)
SubmitInv ==
    /\ Su!TypeOK /\ Su!AnswersAreCommitted
    /\ \A c \in Calls : CallInv(c)
    /\ OneOpen /\ OrderKnown

(* A table's machine seats guests at an available table only, and none of   *)
(* the events of the front of house takes it out of service. *)
LEMMA TableTargets ==
    ASSUME NEW s, NEW e, Su!Can(Su!TableFSM, s, e)
    PROVE  /\ e = "seat" => s = "available"
           /\ e # "disable" => Su!Target(Su!TableFSM, s, e) \in Su!TableFSM.states \ {"out_of_service"}
<1>1. PICK t \in Su!TableFSM.trans : t[1] = s /\ t[2] = e /\ t[3] = Su!Target(Su!TableFSM, s, e)
  BY DEF Su!Can, Su!CanTransition, Su!Target, Su!Lookup
<1> QED
  BY <1>1 DEF Su!TableFSM, Su!Definition, Su!FromEach

(* The invariant holds initially. *)
LEMMA SubmitInit == Su!Init => SubmitInv
<1> SUFFICES ASSUME Su!Init PROVE SubmitInv
  OBVIOUS
<1>1. {"available", "occupied"} \subseteq Su!TableFSM.states \ {"out_of_service"}
  BY DEF Su!TableFSM, Su!Definition
<1>2. Su!TypeOK
  BY <1>1, ServicesAssumption DEF Su!Init, Su!TypeOK, Su!SubmitAssumption
<1>3. Su!AnswersAreCommitted
  BY DEF Su!Init, Su!AnswersAreCommitted
<1>4. \A c \in Calls : CallInv(c)
  BY DEF Su!Init, CallInv
<1>5. OneOpen /\ OrderKnown
  BY DEF Su!Init, OneOpen, OrderKnown, Started
<1> QED
  BY <1>2, <1>3, <1>4, <1>5 DEF SubmitInv

(* Types are kept. *)
LEMMA SubmitTypes == SubmitInv /\ [Su!Next]_(Su!vars) => (Su!TypeOK)'
<1> SUFFICES ASSUME SubmitInv, [Su!Next]_(Su!vars) PROVE (Su!TypeOK)'
  OBVIOUS
<1> USE DEF SubmitInv, Su!TypeOK
<1>1. SubmitFaults \in Nat
  BY ServicesAssumption DEF Su!SubmitAssumption
<1>2. ASSUME NEW c \in Calls, NEW k \in OrderKeys, Su!Submit(c, k) PROVE (Su!TypeOK)'
  BY <1>2 DEF Su!Submit, Su!Goto, Su!inputs
<1>3. ASSUME NEW c \in Calls, Su!Gateway(c) PROVE (Su!TypeOK)'
  <2>1. key[c] \in OrderKeys
    BY <1>3 DEF Su!Gateway, CallInv
  <2> QED
    BY <1>3, <2>1 DEF Su!Gateway, Su!Goto, Su!inputs
<1>4. ASSUME NEW c \in Calls, Su!Validate(c) PROVE (Su!TypeOK)'
  <2>1. key[c] \in OrderKeys
    BY <1>4 DEF Su!Validate, CallInv
  <2>2. seen' \in [Calls -> {"none", "available"}]
    BY <1>4, <2>1, TableTargets DEF Su!Validate, Su!Table
  <2> QED
    BY <1>4, <2>2 DEF Su!Validate, Su!Goto, Su!inputs
<1>5. ASSUME NEW c \in Calls, Su!Transaction(c) PROVE (Su!TypeOK)'
  <2>1. "occupied" \in Su!TableFSM.states \ {"out_of_service"}
    BY DEF Su!TableFSM, Su!Definition
  <2>2. tableStatus' \in [Tables -> Su!TableFSM.states \ {"out_of_service"}]
    BY <1>5, <2>1 DEF Su!Transaction
  <2> QED
    BY <1>5, <2>2 DEF Su!Transaction, Su!Goto, Su!inputs
<1>6. ASSUME NEW c \in Calls, Su!CacheAnswer(c) PROVE (Su!TypeOK)'
  BY <1>6 DEF Su!CacheAnswer, Su!inputs
<1>7. ASSUME NEW t \in Tables, Su!FrontOfHouse(t) PROVE (Su!TypeOK)'
  <2>1. PICK e \in {"seat", "reserve", "arrive", "release", "clean"} :
           /\ Su!Can(Su!TableFSM, tableStatus[t], e)
           /\ tableStatus' = [tableStatus EXCEPT ![t] = Su!Target(Su!TableFSM, tableStatus[t], e)]
    BY <1>7 DEF Su!FrontOfHouse
  <2>2. Su!Target(Su!TableFSM, tableStatus[t], e) \in Su!TableFSM.states \ {"out_of_service"}
    BY <2>1, TableTargets
  <2> QED
    BY <1>7, <2>1, <2>2 DEF Su!FrontOfHouse, Su!inputs
<1>8. ASSUME Su!Fault PROVE (Su!TypeOK)'
  BY <1>1, <1>8 DEF Su!Fault, Su!Goto, Su!inputs
<1>9. CASE UNCHANGED Su!vars
  BY <1>9 DEF Su!vars, Su!inputs
<1> QED
  BY <1>2, <1>3, <1>4, <1>5, <1>6, <1>7, <1>8, <1>9 DEF Su!Next, Su!Continue

(* What is answered or cached stays committed, and a call's own facts hold. *)
LEMMA SubmitCommitted ==
    SubmitInv /\ [Su!Next]_(Su!vars) => (Su!AnswersAreCommitted /\ \A c \in Calls : CallInv(c))'
<1> SUFFICES ASSUME SubmitInv, [Su!Next]_(Su!vars)
             PROVE  (Su!AnswersAreCommitted /\ \A c \in Calls : CallInv(c))'
  OBVIOUS
<1> USE DEF SubmitInv, Su!TypeOK, Su!AnswersAreCommitted, CallInv, Su!CallsOf, Su!Table
<1>0. None \notin OrderKeys /\ None \notin Calls
  BY ServicesAssumption DEF Su!SubmitAssumption
<1>1. ASSUME NEW c \in Calls, NEW k \in OrderKeys, Su!Submit(c, k)
      PROVE  (Su!AnswersAreCommitted /\ \A d \in Calls : CallInv(d))'
  BY <1>0, <1>1 DEF Su!Submit, Su!Goto, Su!inputs
<1>2. ASSUME NEW c \in Calls, Su!Gateway(c)
      PROVE  (Su!AnswersAreCommitted /\ \A d \in Calls : CallInv(d))'
  BY <1>0, <1>2 DEF Su!Gateway, Su!Goto, Su!inputs
<1>3. ASSUME NEW c \in Calls, Su!Validate(c)
      PROVE  (Su!AnswersAreCommitted /\ \A d \in Calls : CallInv(d))'
  BY <1>0, <1>3, TableTargets DEF Su!Validate, Su!Goto, Su!inputs
<1>4. ASSUME NEW c \in Calls, Su!Transaction(c)
      PROVE  (Su!AnswersAreCommitted /\ \A d \in Calls : CallInv(d))'
  BY <1>0, <1>4 DEF Su!Transaction, Su!Goto, Su!inputs
<1>5. ASSUME NEW c \in Calls, Su!CacheAnswer(c)
      PROVE  (Su!AnswersAreCommitted /\ \A d \in Calls : CallInv(d))'
  BY <1>0, <1>5 DEF Su!CacheAnswer, Su!inputs
<1>6. ASSUME NEW t \in Tables, Su!FrontOfHouse(t)
      PROVE  (Su!AnswersAreCommitted /\ \A d \in Calls : CallInv(d))'
  BY <1>6 DEF Su!FrontOfHouse, Su!inputs
<1>7. ASSUME Su!Fault
      PROVE  (Su!AnswersAreCommitted /\ \A d \in Calls : CallInv(d))'
  BY <1>0, <1>7 DEF Su!Fault, Su!Goto, Su!inputs
<1>8. CASE UNCHANGED Su!vars
  BY <1>8 DEF Su!vars, Su!inputs
<1> QED
  BY <1>1, <1>2, <1>3, <1>4, <1>5, <1>6, <1>7, <1>8 DEF Su!Next, Su!Continue

(* One call of a key is open, and what has been ordered is known. *)
LEMMA SubmitSerial == SubmitInv /\ [Su!Next]_(Su!vars) => (OneOpen /\ OrderKnown)'
<1> SUFFICES ASSUME SubmitInv, [Su!Next]_(Su!vars) PROVE (OneOpen /\ OrderKnown)'
  OBVIOUS
<1> USE DEF SubmitInv, Su!TypeOK, CallInv, OneOpen, OrderKnown, Started
<1>0. None \notin OrderKeys /\ None \notin Calls /\ SubmitFaults \in Nat
  BY ServicesAssumption DEF Su!SubmitAssumption
<1>1. ASSUME NEW c \in Calls, NEW k \in OrderKeys, Su!Submit(c, k) PROVE (OneOpen /\ OrderKnown)'
  <2>1. ~overlap => \A d \in Calls : key[d] = k => pc[d] \in {"answered", "gone"} /\ d \notin caching
    BY <1>1 DEF Su!Submit, Su!Open, Su!CallsOf
  <2>2. OneOpen'
    BY <1>0, <1>1, <2>1 DEF Su!Submit, Su!Goto, Su!inputs
  <2>3. OrderKnown'
    BY <1>0, <1>1 DEF Su!Submit, Su!Goto, Su!inputs
  <2> QED
    BY <2>2, <2>3
<1>2. ASSUME NEW c \in Calls, Su!Gateway(c) PROVE (OneOpen /\ OrderKnown)'
  <2>1. OneOpen'
    BY <1>2 DEF Su!Gateway, Su!Goto, Su!inputs
  <2>2. OrderKnown'
    BY <1>0, <1>2 DEF Su!Gateway, Su!Goto, Su!inputs
  <2> QED
    BY <2>1, <2>2
<1>3. ASSUME NEW c \in Calls, Su!Validate(c) PROVE (OneOpen /\ OrderKnown)'
  <2>1. OneOpen'
    BY <1>3 DEF Su!Validate, Su!Goto, Su!inputs
  <2>2. OrderKnown'
    BY <1>0, <1>3 DEF Su!Validate, Su!Goto, Su!inputs
  <2> QED
    BY <2>1, <2>2
<1>4. ASSUME NEW c \in Calls, Su!Transaction(c) PROVE (OneOpen /\ OrderKnown)'
  <2>1. OneOpen'
    BY <1>4 DEF Su!Transaction, Su!Goto, Su!inputs
  <2>2. OrderKnown'
    BY <1>0, <1>4 DEF Su!Transaction, Su!Goto, Su!inputs
  <2> QED
    BY <2>1, <2>2
<1>5. ASSUME NEW c \in Calls, Su!CacheAnswer(c) PROVE (OneOpen /\ OrderKnown)'
  BY <1>0, <1>5 DEF Su!CacheAnswer, Su!inputs
<1>6. ASSUME NEW t \in Tables, Su!FrontOfHouse(t) PROVE (OneOpen /\ OrderKnown)'
  BY <1>6 DEF Su!FrontOfHouse, Su!inputs
<1>7. ASSUME Su!Fault PROVE (OneOpen /\ OrderKnown)'
  <2>1. faults' # 0
    BY <1>0, <1>7 DEF Su!Fault
  <2>2. OneOpen'
    BY <1>7 DEF Su!Fault, Su!Goto, Su!inputs
  <2> QED
    BY <2>1, <2>2
<1>8. CASE UNCHANGED Su!vars
  BY <1>8 DEF Su!vars, Su!inputs
<1> QED
  BY <1>1, <1>2, <1>3, <1>4, <1>5, <1>6, <1>7, <1>8 DEF Su!Next, Su!Continue

(* The invariant gives what is promised: of a key's orders any two are one. *)
LEMMA SubmitPromise == SubmitInv => Su!SubmitSound
<1>1. ASSUME SubmitInv, ~overlap, faults = 0, NEW k \in OrderKeys
      PROVE  Cardinality(orders \cap Su!CallsOf(k)) <= 1
  <2>1. \A c, d \in orders \cap Su!CallsOf(k) : c = d
    BY <1>1 DEF SubmitInv, OrderKnown, Su!CallsOf
  <2>2. CASE orders \cap Su!CallsOf(k) = {}
    BY <2>2, FS_EmptySet
  <2>3. CASE \E c : c \in orders \cap Su!CallsOf(k)
    <3>1. PICK c : c \in orders \cap Su!CallsOf(k)
      BY <2>3
    <3>2. orders \cap Su!CallsOf(k) = {c} /\ Cardinality({c}) = 1
      BY <2>1, <3>1, FS_Singleton
    <3> QED
      BY ONLY <3>2
  <2> QED
    BY <2>2, <2>3
<1>2. SubmitInv => Su!PatientAppPlacesOneOrder
  BY <1>1, SameCardinality DEF Su!PatientAppPlacesOneOrder
<1> QED
  BY <1>2 DEF SubmitInv, Su!SubmitSound

(* A behaviour of order submission steps as OrderSubmit does. *)
LEMMA SubmitRuns == part = "submit" /\ [Next]_all => part' = "submit" /\ [Su!Next]_(Su!vars)
BY DEF Next, all, Su!vars, Su!inputs

(* A key places one order for an app that waits for its answers, and what a *)
(* call answers with has been committed for its key (Order.go, layers 1-3), *)
(* for every number of calls, keys, tables and faults. *)
THEOREM OrdersPlacedOnce == Spec => []SubmitSound
<1> DEFINE Inv == part = "submit" => SubmitInv
<1>1. Init => Inv
  BY SubmitInit DEF Init
<1>2. Inv /\ [Next]_all => Inv'
  <2> SUFFICES ASSUME Inv, [Next]_all, part' = "submit" PROVE SubmitInv'
    OBVIOUS
  <2>1. part = "submit"
    BY DEF Next, all
  <2> QED
    BY <2>1, SubmitRuns, SubmitTypes, SubmitCommitted, SubmitSerial DEF SubmitInv
<1>3. Inv => SubmitSound
  BY SubmitPromise DEF SubmitSound
<1> QED
  BY <1>1, <1>2, <1>3, PTL DEF Spec

-----------------------------------------------------------------------------
(* Startup. *)

(* What a pod knows of the rows from the step it is at. *)
PodInv(p) ==
    /\ \A i \in 1..Len(SystemRoles) : i < seeding[p] => SystemRoles[i] \in rows
    /\ pc[p] \notin {"findTenant", "createTenant", "serving"} => "tenant" \in rows
    /\ pc[p] = "createSeed" => seeding[p] <= Len(SystemRoles)
    /\ pc[p] \in {"findRole", "findAssigned", "assign"} => "user" \in rows
    /\ pc[p] \in {"findAssigned", "assign"} => St!Superadmin \in rows
    /\ faults = 0 /\ pc[p] \in {"findUser", "createUser", "findRole"} => St!Superadmin \in rows
    /\ faults = 0 /\ pc[p] = "serving" => "tenant" \in rows

(* The pods that will still make a missing role, the missing user and the   *)
(* missing assignment: whoever is refused a row leaves the rest to the pod  *)
(* that made it, which is still at work or starts anew. *)
MakesRoles(p) ==
    pc[p] \in {"findTenant", "findSeed"} \/ (pc[p] = "createSeed" /\ SystemRoles[seeding[p]] \notin rows)
MakesUser(p) == pc[p] \in {"findTenant", "findSeed", "createSeed", "findUser", "createUser"}
MakesAssignment(p) ==
    \/ pc[p] \in {"findTenant", "findSeed", "createSeed", "findUser", "findRole", "findAssigned", "assign"}
    \/ pc[p] = "createUser" /\ "user" \notin rows

(* Nothing missing is left to nobody. *)
SomebodyMakes ==
    faults = 0 /\ "tenant" \in rows =>
        /\ (\E r \in St!Roles : r \notin rows) => \E p \in Handlers : MakesRoles(p)
        /\ "user" \notin rows => \E p \in Handlers : MakesUser(p)
        /\ "assigned" \notin rows => \E p \in Handlers : MakesAssignment(p)

(* The steps of a pod. *)
PodSteps == {"findTenant", "createTenant", "findSeed", "createSeed", "findUser", "createUser", "findRole",
             "findAssigned", "assign", "serving"}

(* The inductive invariant. *)
StartupInv ==
    /\ St!TypeOK /\ pc \in [Handlers -> PodSteps] /\ faults \in Nat
    /\ \A p \in Handlers : PodInv(p)
    /\ SomebodyMakes

(* What the assumptions say of the roles. *)
LEMMA RolesNamed ==
    /\ Handlers # {} /\ Len(SystemRoles) \in Nat \ {0}
    /\ \A i \in 1..Len(SystemRoles) : SystemRoles[i] \in St!Roles
    /\ \A r \in St!Roles : \E i \in 1..Len(SystemRoles) : r = SystemRoles[i]
    /\ St!Superadmin \in St!Roles /\ St!Superadmin = SystemRoles[1]
    /\ St!Roles \cap {"tenant", "user", "assigned"} = {}
    /\ MaxFaults \in Nat
<1>1. /\ SystemRoles \in Seq(St!Roles) /\ SystemRoles # <<>> /\ Handlers # {}
      /\ St!Roles \cap {"tenant", "user", "assigned"} = {} /\ MaxFaults \in Nat
  BY ServicesAssumption DEF St!StartupAssumption
<1>2. DOMAIN SystemRoles = 1..Len(SystemRoles) /\ Len(SystemRoles) \in Nat /\ Len(SystemRoles) # 0
  BY <1>1
<1> QED
  BY <1>1, <1>2 DEF St!Roles, St!Superadmin

(* The invariant holds initially. *)
LEMMA StartupInit == St!Init => StartupInv
BY RolesNamed DEF St!Init, StartupInv, St!TypeOK, PodInv, SomebodyMakes, PodSteps

(* Types are kept, and so is what a pod knows. *)
LEMMA StartupTypes ==
    StartupInv /\ [St!Next]_(St!startup) =>
        (St!TypeOK /\ pc \in [Handlers -> PodSteps] /\ faults \in Nat /\ \A p \in Handlers : PodInv(p))'
<1> DEFINE Inv == St!TypeOK /\ pc \in [Handlers -> PodSteps] /\ faults \in Nat /\ \A p \in Handlers : PodInv(p)
<1> SUFFICES ASSUME StartupInv, [St!Next]_(St!startup) PROVE Inv'
  OBVIOUS
<1> USE RolesNamed DEF StartupInv, St!TypeOK, PodInv, PodSteps
<1>1. ASSUME NEW p \in Handlers, St!FindTenant(p) PROVE Inv'
  BY <1>1 DEF St!FindTenant, St!Lookup, St!Goto
<1>2. ASSUME NEW p \in Handlers, St!CreateTenant(p) PROVE Inv'
  <2> USE <1>2 DEF St!CreateTenant, St!Insert, St!Goto
  <2>1. rows \subseteq rows' /\ pc' \in [Handlers -> PodSteps] /\ faults' \in Nat
    BY SMTT(30)
  <2>2. (St!TypeOK)'
    OBVIOUS
  <2>3. PodInv(p)'
    OBVIOUS
  <2>4. ASSUME NEW q \in Handlers \ {p} PROVE PodInv(q)'
    <3>1. pc'[q] = pc[q] /\ seeding'[q] = seeding[q] /\ (faults' = 0 => faults = 0)
      OBVIOUS
    <3> QED
      BY <2>1, <3>1
  <2> QED
    BY <2>1, <2>2, <2>3, <2>4
<1>3. ASSUME NEW p \in Handlers, St!FindSeed(p) PROVE Inv'
  <2> USE <1>3 DEF St!FindSeed, St!AllSeeded, St!NextRole, St!Goto
  <2>0. /\ rows' = rows /\ (faults' = faults \/ faults' = faults + 1)
        /\ \E step \in {"findSeed", "createSeed", "findUser"} : pc' = [pc EXCEPT ![p] = step]
    OBVIOUS
  <2>1. rows \subseteq rows' /\ pc' \in [Handlers -> PodSteps] /\ faults' \in Nat
    BY ONLY <2>0, StartupInv DEF StartupInv, PodSteps
  <2>2. (St!TypeOK)'
    OBVIOUS
  <2>3. PodInv(p)'
    OBVIOUS
  <2>4. ASSUME NEW q \in Handlers \ {p} PROVE PodInv(q)'
    <3>1. pc'[q] = pc[q] /\ seeding'[q] = seeding[q] /\ (faults' = 0 => faults = 0)
      OBVIOUS
    <3> QED
      BY <2>1, <3>1
  <2> QED
    BY <2>1, <2>2, <2>3, <2>4
<1>4. ASSUME NEW p \in Handlers, St!CreateSeed(p) PROVE Inv'
  <2> USE <1>4 DEF St!CreateSeed, St!NextRole, St!Goto
  <2>1. rows \subseteq rows' /\ pc' \in [Handlers -> PodSteps] /\ faults' \in Nat
    OBVIOUS
  <2>a. "tenant" \in rows /\ seeding[p] \in 1..Len(SystemRoles) /\ SystemRoles[seeding[p]] \in St!Roles
    OBVIOUS
  <2>b. rows' = rows \/ rows' = rows \cup {SystemRoles[seeding[p]]}
    OBVIOUS
  <2>c. seeding' = seeding \/ seeding' = [seeding EXCEPT ![p] = seeding[p] + 1]
    OBVIOUS
  <2>d. seeding' \in [Handlers -> 1..Len(SystemRoles) + 1]
    BY ONLY <2>a, <2>c, StartupInv, RolesNamed, p \in Handlers, SMTT(30) DEF StartupInv, St!TypeOK
  <2>e. /\ rows' \subseteq {"tenant", "user", "assigned"} \cup St!Roles
        /\ "assigned" \in rows' => {"user", St!Superadmin} \subseteq rows'
        /\ rows' # {} => "tenant" \in rows'
    BY ONLY <2>a, <2>b, StartupInv, RolesNamed DEF StartupInv, St!TypeOK
  <2>2. (St!TypeOK)'
    BY ONLY <2>d, <2>e DEF St!TypeOK, St!Superadmin
  <2>3. PodInv(p)'
    BY SMTT(30)
  <2>4. ASSUME NEW q \in Handlers \ {p} PROVE PodInv(q)'
    <3>1. pc'[q] = pc[q] /\ seeding'[q] = seeding[q] /\ (faults' = 0 => faults = 0)
      OBVIOUS
    <3> QED
      BY <2>1, <3>1
  <2> QED
    BY <2>1, <2>2, <2>3, <2>4
<1>5. ASSUME NEW p \in Handlers, St!FindUser(p) PROVE Inv'
  BY <1>5 DEF St!FindUser, St!Lookup, St!Goto
<1>6. ASSUME NEW p \in Handlers, St!CreateUser(p) PROVE Inv'
  <2> USE <1>6 DEF St!CreateUser, St!Insert, St!Goto
  <2>1. rows \subseteq rows' /\ pc' \in [Handlers -> PodSteps] /\ faults' \in Nat
    OBVIOUS
  <2>0. "tenant" \in rows /\ seeding' = seeding /\ (rows' = rows \/ rows' = rows \cup {"user"})
    OBVIOUS
  <2>2. (St!TypeOK)'
    BY ONLY <2>0, StartupInv DEF StartupInv, St!TypeOK
  <2>3. PodInv(p)'
    OBVIOUS
  <2>4. ASSUME NEW q \in Handlers \ {p} PROVE PodInv(q)'
    <3>1. pc'[q] = pc[q] /\ seeding'[q] = seeding[q] /\ (faults' = 0 => faults = 0)
      OBVIOUS
    <3> QED
      BY <2>1, <3>1
  <2> QED
    BY <2>1, <2>2, <2>3, <2>4
<1>7. ASSUME NEW p \in Handlers, St!FindRole(p) PROVE Inv'
  BY <1>7, SMTT(30) DEF St!FindRole, St!Lookup, St!Goto
<1>8. ASSUME NEW p \in Handlers, St!FindAssigned(p) PROVE Inv'
  BY <1>8 DEF St!FindAssigned, St!Lookup, St!Goto
<1>9. ASSUME NEW p \in Handlers, St!Assign(p) PROVE Inv'
  <2> USE <1>9 DEF St!Assign, St!Insert, St!Goto
  <2>1. rows \subseteq rows' /\ pc' \in [Handlers -> PodSteps] /\ faults' \in Nat
    OBVIOUS
  <2>2. (St!TypeOK)'
    OBVIOUS
  <2>3. PodInv(p)'
    OBVIOUS
  <2>4. ASSUME NEW q \in Handlers \ {p} PROVE PodInv(q)'
    <3>1. pc'[q] = pc[q] /\ seeding'[q] = seeding[q] /\ (faults' = 0 => faults = 0)
      OBVIOUS
    <3> QED
      BY <2>1, <3>1
  <2> QED
    BY <2>1, <2>2, <2>3, <2>4
<1>10. ASSUME NEW p \in Handlers, St!Crash(p) PROVE Inv'
  BY <1>10 DEF St!Crash
<1>11. CASE UNCHANGED St!startup
  BY <1>11 DEF St!startup
<1> QED
  BY <1>1, <1>2, <1>3, <1>4, <1>5, <1>6, <1>7, <1>8, <1>9, <1>10, <1>11 DEF St!Next

(* Whatever is missing, somebody still makes it. *)
LEMMA StartupMakes == StartupInv /\ [St!Next]_(St!startup) => SomebodyMakes'
<1> SUFFICES ASSUME StartupInv, [St!Next]_(St!startup), faults' = 0, "tenant" \in rows' PROVE SomebodyMakes'
  BY DEF SomebodyMakes
<1> USE RolesNamed DEF StartupInv, St!TypeOK, PodInv, PodSteps
<1> USE DEF SomebodyMakes, MakesRoles, MakesUser, MakesAssignment
<1>1. ASSUME NEW p \in Handlers, St!FindTenant(p) PROVE SomebodyMakes'
  BY <1>1 DEF St!FindTenant, St!Lookup, St!Goto
<1>2. ASSUME NEW p \in Handlers, St!CreateTenant(p) PROVE SomebodyMakes'
  <2>1. /\ faults = 0 /\ rows' = rows \cup {"tenant"} /\ pc[p] = "createTenant" /\ seeding' = seeding
        /\ pc' = [pc EXCEPT ![p] = IF "tenant" \in rows THEN "serving" ELSE "findSeed"]
    BY <1>2 DEF St!CreateTenant, St!Insert, St!Goto
  <2>2. SomebodyMakes
    OBVIOUS
  <2>3. \A q \in Handlers \ {p} : pc'[q] = pc[q] /\ seeding'[q] = seeding[q]
    BY <2>1
  <2>4. CASE "tenant" \in rows
    BY ONLY <2>1, <2>2, <2>3, <2>4 DEF SomebodyMakes, MakesRoles, MakesUser, MakesAssignment
  <2>5. CASE "tenant" \notin rows
    <3>1. pc'[p] = "findSeed"
      BY <2>1, <2>5
    <3> QED
      BY ONLY <3>1, p \in Handlers DEF SomebodyMakes, MakesRoles, MakesUser, MakesAssignment
  <2> QED
    BY <2>4, <2>5
<1>3. ASSUME NEW p \in Handlers, St!FindSeed(p) PROVE SomebodyMakes'
  <2>1. /\ faults = 0 /\ rows' = rows /\ pc[p] = "findSeed"
        /\ \/ St!AllSeeded(p) /\ pc' = [pc EXCEPT ![p] = "findUser"] /\ seeding' = seeding
           \/ pc' = [pc EXCEPT ![p] = "findSeed"] /\ seeding' = [seeding EXCEPT ![p] = @ + 1]
           \/ SystemRoles[seeding[p]] \notin rows /\ pc' = [pc EXCEPT ![p] = "createSeed"] /\ seeding' = seeding
    BY <1>3 DEF St!FindSeed, St!NextRole, St!Goto
  <2>2. SomebodyMakes /\ "tenant" \in rows
    BY <2>1
  <2>3. St!AllSeeded(p) => \A r \in St!Roles : r \in rows
    BY DEF St!AllSeeded
  <2>4. \A q \in Handlers \ {p} : pc'[q] = pc[q] /\ seeding'[q] = seeding[q]
    BY <2>1
  <2>5. MakesUser(p)' /\ MakesAssignment(p)' /\ (MakesRoles(p)' \/ \A r \in St!Roles : r \in rows)
    BY <2>1, <2>3
  <2>6. (\E r \in St!Roles : r \notin rows') => \E q \in Handlers : MakesRoles(q)'
    BY ONLY <2>1, <2>2, <2>4, <2>5, p \in Handlers DEF SomebodyMakes, MakesRoles
  <2> QED
    BY ONLY <2>5, <2>6, p \in Handlers DEF SomebodyMakes
<1>4. ASSUME NEW p \in Handlers, St!CreateSeed(p) PROVE SomebodyMakes'
  <2> DEFINE role == SystemRoles[seeding[p]]
  <2>1. /\ faults = 0 /\ pc[p] = "createSeed"
        /\ \/ rows' = rows \cup {role} /\ role \notin rows
              /\ pc' = [pc EXCEPT ![p] = "findSeed"] /\ seeding' = [seeding EXCEPT ![p] = @ + 1]
           \/ role \in rows /\ rows' = rows /\ pc' = [pc EXCEPT ![p] = "findUser"] /\ seeding' = seeding
    BY <1>4 DEF St!CreateSeed, St!NextRole, St!Goto
  <2>2. SomebodyMakes /\ "tenant" \in rows /\ role \in St!Roles
    BY <2>1
  <2>3. \A q \in Handlers \ {p} : pc'[q] = pc[q] /\ seeding'[q] = seeding[q]
    BY <2>1
  <2>4. MakesUser(p)' /\ MakesAssignment(p)'
    BY <2>1
  <2>5. CASE pc' = [pc EXCEPT ![p] = "findSeed"]
    BY ONLY <2>4, <2>5, StartupInv, p \in Handlers DEF StartupInv, SomebodyMakes, MakesRoles
  <2>6. CASE role \in rows /\ rows' = rows /\ pc' = [pc EXCEPT ![p] = "findUser"]
    <3>1. ASSUME NEW r \in St!Roles, r \notin rows' PROVE \E q \in Handlers : MakesRoles(q)'
      <4>1. PICK q \in Handlers : MakesRoles(q)
        BY ONLY <2>1, <2>2, <2>6, <3>1 DEF SomebodyMakes
      <4>2. q # p
        BY ONLY <4>1, <2>1, <2>6 DEF MakesRoles
      <4>3. MakesRoles(q)'
        BY ONLY <4>1, <4>2, <2>3, <2>6 DEF MakesRoles
      <4> QED
        BY ONLY <4>3, q \in Handlers
    <3> QED
      BY ONLY <2>4, <3>1, p \in Handlers DEF SomebodyMakes
  <2> QED
    BY <2>1, <2>5, <2>6
<1>5. ASSUME NEW p \in Handlers, St!FindUser(p) PROVE SomebodyMakes'
  <2>1. /\ faults = 0 /\ rows' = rows /\ pc[p] = "findUser" /\ seeding' = seeding
        /\ pc' = [pc EXCEPT ![p] = IF "user" \in rows THEN "findRole" ELSE "createUser"]
    BY <1>5 DEF St!FindUser, St!Lookup, St!Goto
  <2>2. SomebodyMakes /\ "tenant" \in rows
    BY <2>1
  <2>3. \A q \in Handlers \ {p} : pc'[q] = pc[q] /\ seeding'[q] = seeding[q]
    BY <2>1
  <2>4. MakesAssignment(p)' /\ ("user" \notin rows => MakesUser(p)') /\ ~MakesRoles(p)
    BY <2>1
  <2>5. (\E r \in St!Roles : r \notin rows') => \E q \in Handlers : MakesRoles(q)'
    BY ONLY <2>1, <2>2, <2>3, <2>4 DEF SomebodyMakes, MakesRoles
  <2> QED
    BY ONLY <2>1, <2>4, <2>5, p \in Handlers DEF SomebodyMakes
<1>6. ASSUME NEW p \in Handlers, St!CreateUser(p) PROVE SomebodyMakes'
  <2>1. /\ faults = 0 /\ rows' = rows \cup {"user"} /\ pc[p] = "createUser" /\ seeding' = seeding
        /\ pc' = [pc EXCEPT ![p] = IF "user" \in rows THEN "serving" ELSE "findRole"]
    BY <1>6 DEF St!CreateUser, St!Insert, St!Goto
  <2>2. SomebodyMakes /\ "tenant" \in rows
    BY <2>1
  <2>3. \A q \in Handlers \ {p} : pc'[q] = pc[q] /\ seeding'[q] = seeding[q]
    BY <2>1
  <2>4. (\E r \in St!Roles : r \notin rows') => \E q \in Handlers : MakesRoles(q)'
    <3> SUFFICES ASSUME NEW r \in St!Roles, r \notin rows' PROVE \E q \in Handlers : MakesRoles(q)'
      OBVIOUS
    <3>1. PICK q \in Handlers : MakesRoles(q)
      BY ONLY <2>1, <2>2, r \in St!Roles, r \notin rows' DEF SomebodyMakes
    <3>2. q # p /\ pc'[q] = pc[q] /\ seeding'[q] = seeding[q]
      BY ONLY <3>1, <2>1, <2>3 DEF MakesRoles
    <3>3. SystemRoles[seeding[q]] # "user" \/ pc[q] # "createSeed"
      BY DEF PodInv
    <3>4. MakesRoles(q)'
      BY ONLY <3>1, <3>2, <3>3, <2>1 DEF MakesRoles
    <3> QED
      BY ONLY <3>4, q \in Handlers
  <2>5. "assigned" \notin rows' => \E q \in Handlers : MakesAssignment(q)'
    <3>1. CASE "user" \in rows
      BY ONLY <3>1, <2>1, <2>2, <2>3 DEF SomebodyMakes, MakesAssignment
    <3>2. CASE "user" \notin rows
      <4>1. pc'[p] = "findRole"
        BY <2>1, <3>2
      <4> QED
        BY ONLY <4>1, p \in Handlers DEF MakesAssignment
    <3> QED
      BY <3>1, <3>2
  <2> QED
    BY ONLY <2>1, <2>4, <2>5 DEF SomebodyMakes
<1>7. ASSUME NEW p \in Handlers, St!FindRole(p) PROVE SomebodyMakes'
  <2>1. /\ faults = 0 /\ rows' = rows /\ pc[p] = "findRole" /\ seeding' = seeding /\ "user" \in rows
        /\ pc' = [pc EXCEPT ![p] = "findAssigned"]
    BY <1>7 DEF St!FindRole, St!Lookup, St!Goto
  <2>2. SomebodyMakes /\ "tenant" \in rows
    BY <2>1
  <2>3. \A q \in Handlers \ {p} : pc'[q] = pc[q] /\ seeding'[q] = seeding[q]
    BY <2>1
  <2>4. (\E r \in St!Roles : r \notin rows') => \E q \in Handlers : MakesRoles(q)'
    BY ONLY <2>1, <2>2, <2>3 DEF SomebodyMakes, MakesRoles
  <2>5. MakesAssignment(p)'
    BY ONLY <2>1, StartupInv, p \in Handlers DEF MakesAssignment, StartupInv
  <2> QED
    BY ONLY <2>1, <2>4, <2>5, p \in Handlers DEF SomebodyMakes
<1>8. ASSUME NEW p \in Handlers, St!FindAssigned(p) PROVE SomebodyMakes'
  <2>1. /\ faults = 0 /\ rows' = rows /\ pc[p] = "findAssigned" /\ seeding' = seeding /\ "user" \in rows
        /\ pc' = [pc EXCEPT ![p] = IF "assigned" \in rows THEN "serving" ELSE "assign"]
    BY <1>8 DEF St!FindAssigned, St!Lookup, St!Goto
  <2>2. SomebodyMakes /\ "tenant" \in rows
    BY <2>1
  <2>3. \A q \in Handlers \ {p} : pc'[q] = pc[q] /\ seeding'[q] = seeding[q]
    BY <2>1
  <2>4. (\E r \in St!Roles : r \notin rows') => \E q \in Handlers : MakesRoles(q)'
    BY ONLY <2>1, <2>2, <2>3 DEF SomebodyMakes, MakesRoles
  <2>5. "assigned" \notin rows' => MakesAssignment(p)'
    BY ONLY <2>1, StartupInv, p \in Handlers DEF MakesAssignment, StartupInv
  <2> QED
    BY ONLY <2>1, <2>4, <2>5, p \in Handlers DEF SomebodyMakes
<1>9. ASSUME NEW p \in Handlers, St!Assign(p) PROVE SomebodyMakes'
  <2>1. /\ faults = 0 /\ rows' = rows \cup {"assigned"} /\ pc[p] = "assign" /\ seeding' = seeding
        /\ pc' = [pc EXCEPT ![p] = "serving"]
    BY <1>9 DEF St!Assign, St!Insert, St!Goto
  <2>2. SomebodyMakes /\ "tenant" \in rows /\ "user" \in rows
    BY <2>1
  <2>3. \A q \in Handlers \ {p} : pc'[q] = pc[q] /\ seeding'[q] = seeding[q]
    BY <2>1
  <2>4. (\E r \in St!Roles : r \notin rows') => \E q \in Handlers : MakesRoles(q)'
    <3> SUFFICES ASSUME NEW r \in St!Roles, r \notin rows' PROVE \E q \in Handlers : MakesRoles(q)'
      OBVIOUS
    <3>1. PICK q \in Handlers : MakesRoles(q)
      BY ONLY <2>1, <2>2, r \in St!Roles, r \notin rows' DEF SomebodyMakes
    <3>2. q # p /\ pc'[q] = pc[q] /\ seeding'[q] = seeding[q]
      BY ONLY <3>1, <2>1, <2>3 DEF MakesRoles
    <3>3. SystemRoles[seeding[q]] # "assigned" \/ pc[q] # "createSeed"
      BY DEF PodInv
    <3>4. MakesRoles(q)'
      BY ONLY <3>1, <3>2, <3>3, <2>1 DEF MakesRoles
    <3> QED
      BY ONLY <3>4, q \in Handlers
  <2> QED
    BY ONLY <2>1, <2>2, <2>4 DEF SomebodyMakes
<1>10. ASSUME NEW p \in Handlers, St!Crash(p) PROVE SomebodyMakes'
  BY <1>10 DEF St!Crash
<1>11. CASE UNCHANGED St!startup
  BY <1>11 DEF St!startup
<1> QED
  BY <1>1, <1>2, <1>3, <1>4, <1>5, <1>6, <1>7, <1>8, <1>9, <1>10, <1>11 DEF St!Next

(* A behaviour of startup steps as Startup does. *)
LEMMA StartupRuns == part = "startup" /\ [Next]_all => part' = "startup" /\ [St!Next]_(St!startup)
BY DEF Next, all, St!startup

(* Without database errors, when every pod serves there are the tenant, the *)
(* roles and a super admin with his role (main.go, rbac.go), for every      *)
(* number of pods, roles and crashes. *)
THEOREM PodsServeSeeded == Spec => []StartupSound
<1> DEFINE Inv == part = "startup" => StartupInv
<1>1. Init => Inv
  BY StartupInit DEF Init
<1>2. Inv /\ [Next]_all => Inv'
  <2> SUFFICES ASSUME Inv, [Next]_all, part' = "startup" PROVE StartupInv'
    OBVIOUS
  <2>1. part = "startup"
    BY DEF Next, all
  <2> QED
    BY <2>1, StartupRuns, StartupTypes, StartupMakes DEF StartupInv
<1>3. Inv => StartupSound
  <2> SUFFICES ASSUME StartupInv, faults = 0, \A p \in Handlers : pc[p] = "serving"
               PROVE  rows = {"tenant", "user", "assigned"} \cup St!Roles
    BY DEF StartupInv, StartupSound, St!StartupSound, St!BootedMeansSeeded
  <2>1. "tenant" \in rows
    BY RolesNamed DEF StartupInv, PodInv
  <2> QED
    BY <2>1 DEF StartupInv, SomebodyMakes, MakesRoles, MakesUser, MakesAssignment, St!TypeOK
<1> QED
  BY <1>1, <1>2, <1>3, PTL DEF Spec

-----------------------------------------------------------------------------
(* The rate limiter. *)

(* The steps of a request, and the requests at one of them. *)
RateSteps == {"idle", "prune", "add", "card", "incr", "del"}
At(step) == {h \in Handlers : pc[h] = step}

(* What the sorted sets hold. *)
Entries == [id : 1..RateRequests, at : 1..now]

(* A request is stamped with this second or the last; once it has added     *)
(* itself it stays until its stamp leaves the window. *)
JobInv(h) ==
    pc[h] # "idle" =>
        /\ job[h].id \in 1..RateRequests /\ job[h].at \in 1..now /\ job[h].at >= now - 1
        /\ pc[h] = "card" /\ job[h].at > now - Window =>
             [id |-> job[h].id, at |-> job[h].at] \in zset[job[h].key]

(* What passed is still counted until it leaves the window. *)
Kept ==
    /\ \A k \in Ra!Keys : \A e \in passed[k] : e.at > now - Window => e \in zset[k]
    /\ \A s \in accepted : s > now - Window => s \in logins

(* Types, of which the sets are finite. *)
RateTypes ==
    /\ Ra!TypeOK
    /\ zset \in [Ra!Keys -> SUBSET Entries] /\ passed \in [Ra!Keys -> SUBSET Entries]
    /\ \A k \in Ra!Keys : IsFiniteSet(zset[k])
    /\ pc \in [Handlers -> RateSteps]
    /\ job \in [Handlers -> [id : Nat, at : Nat, key : Ra!Keys]]
    /\ rejected \in Nat /\ alerts \in Nat /\ arrived \in Nat /\ faults \in Nat

(* Alerts come in groups of at most one per handler, and each group has     *)
(* used up a threshold of rejections; the group in the making has not reset *)
(* the counter yet. *)
Groups(g) ==
    /\ rejected >= Cardinality(At("incr")) + abuse + AbuseThreshold * g
    /\ alerts <= Cardinality(Handlers) * g + IF abuse >= AbuseThreshold THEN Cardinality(At("del")) ELSE 0
AlertsGrouped == \E g \in Nat : Groups(g)

(* The inductive invariant. *)
RateInv ==
    /\ RateTypes /\ \A h \in Handlers : JobInv(h)
    /\ Kept /\ Ra!WindowRespected /\ AlertsGrouped

(* What the assumptions say of the limits. *)
LEMMA LimitsGiven ==
    /\ IsFiniteSet(Handlers) /\ Cardinality(Handlers) \in Nat /\ Cardinality(Handlers) # 0
    /\ Limit \in [Ra!Keys -> Nat] /\ LoginLimit \in Nat /\ Window \in Nat /\ AbuseThreshold \in Nat
    /\ RateRequests \in Nat /\ MaxFaults \in Nat /\ Seconds \in Nat \ {0}
<1>1. /\ Ra!IsFiniteSet(Handlers) /\ Handlers # {} /\ Limit \in [Ra!Keys -> Nat]
      /\ {LoginLimit, Window, AbuseThreshold, RateRequests, MaxFaults} \subseteq Nat /\ Seconds \in Nat \ {0}
  BY ServicesAssumption DEF Ra!RateLimitAssumption
<1>2. IsFiniteSet(Handlers)
  BY <1>1, SameCardinality
<1> QED
  BY <1>1, <1>2, FS_CardinalityType, FS_EmptySet

(* The requests at a step, when one of them goes on. *)
LEMMA AtSteps ==
    ASSUME RateTypes, NEW h \in Handlers, NEW to \in RateSteps, pc' = [pc EXCEPT ![h] = to], NEW step \in RateSteps
    PROVE  /\ IsFiniteSet(At(step)) /\ Cardinality(At(step)) \in 0..Cardinality(Handlers)
           /\ IsFiniteSet(At(step)') /\ Cardinality(At(step)') \in Nat
           /\ to = step /\ pc[h] # step => Cardinality(At(step)') = Cardinality(At(step)) + 1
           /\ to # step /\ pc[h] = step => Cardinality(At(step)') = Cardinality(At(step)) - 1
           /\ to # step /\ pc[h] # step => Cardinality(At(step)') = Cardinality(At(step))
<1>1. IsFiniteSet(At(step)) /\ Cardinality(At(step)) \in 0..Cardinality(Handlers)
  BY LimitsGiven, FS_Subset, FS_CardinalityType, At(step) \subseteq Handlers DEF At
<1>2. At(step)' = IF to = step THEN At(step) \cup {h} ELSE At(step) \ {h}
  BY DEF At, RateTypes
<1>3. h \in At(step) <=> pc[h] = step
  BY DEF At
<1>4. /\ IsFiniteSet(At(step) \cup {h}) /\ IsFiniteSet(At(step) \ {h})
      /\ h \notin At(step) => Cardinality(At(step) \cup {h}) = Cardinality(At(step)) + 1
      /\ h \in At(step) => Cardinality(At(step) \ {h}) = Cardinality(At(step)) - 1
      /\ h \notin At(step) => At(step) \ {h} = At(step)
      /\ h \in At(step) => At(step) \cup {h} = At(step)
  BY <1>1, FS_AddElement, FS_RemoveElement
<1>5. IsFiniteSet(At(step)') /\ Cardinality(At(step)') \in Nat
  BY <1>2, <1>4, FS_CardinalityType
<1> QED
  BY <1>1, <1>2, <1>3, <1>4, <1>5

(* A product grows by its factor. *)
LEMMA OneMore == ASSUME NEW a \in Nat, NEW g \in Nat PROVE a * (g + 1) = a * g + a /\ a * g \in Nat
OBVIOUS

(* Products keep the order. *)
LEMMA TimesMonotone == ASSUME NEW a \in Nat, NEW m \in Int, NEW n \in Int, m <= n PROVE a * m <= a * n
<1>1. a * (n - m) >= 0
  OBVIOUS
<1>2. a * (n - m) = a * n - a * m
  OBVIOUS
<1> QED
  BY <1>1, <1>2

(* Groups of h that have a members are at least a / h, rounded up. *)
LEMMA GroupsNeeded ==
    ASSUME NEW a \in Nat, NEW h \in Nat \ {0}, NEW g \in Nat, a <= h * g PROVE (a + h - 1) \div h <= g
<1> DEFINE q == (a + h - 1) \div h
<1>1. q \in Int /\ h * q <= a + h - 1
  OBVIOUS
<1>2. q >= g + 1 => h * (g + 1) <= h * q
  BY <1>1, TimesMonotone
<1>3. h * (g + 1) = h * g + h
  BY OneMore
<1> QED
  BY <1>1, <1>2, <1>3

(* The empty limiter. *)
LEMMA RateInit == Ra!Init => RateInv
<1> SUFFICES ASSUME Ra!Init PROVE RateInv
  OBVIOUS
<1> USE LimitsGiven DEF Ra!Init
<1>1. RateTypes
  BY FS_EmptySet DEF RateTypes, Ra!TypeOK, Ra!NoJob, RateSteps, Entries, Ra!Keys
<1>2. Kept /\ \A h \in Handlers : JobInv(h)
  BY DEF Kept, JobInv
<1>3. Ra!WindowRespected
  <2>1. Ra!Cardinality({}) = 0
    BY FS_EmptySet, SameCardinality
  <2>2. ASSUME NEW t \in 1..Seconds, NEW k \in Ra!Keys
        PROVE  /\ {p \in passed[k] : t - (Window - 1) < p.at /\ p.at <= t} = {}
               /\ {s \in accepted : t - Window < s /\ s <= t} = {}
               /\ Limit[k] >= 0
    OBVIOUS
  <2> QED
    BY <2>1, <2>2 DEF Ra!WindowRespected, Ra!Keys
<1>4. AlertsGrouped
  <2>1. At("incr") = {} /\ Cardinality(At("incr")) = 0 /\ At("del") = {} /\ Cardinality(At("del")) = 0
    BY FS_EmptySet DEF At
  <2>2. AbuseThreshold * 0 = 0 /\ Cardinality(Handlers) * 0 = 0
    OBVIOUS
  <2> QED
    BY <2>1, <2>2 DEF AlertsGrouped, Groups
<1> QED
  BY <1>1, <1>2, <1>3, <1>4 DEF RateInv

(* Whoever counts a rejection has been rejected. *)
LEMMA AbuseRoom ==
    ASSUME RateInv, NEW h \in Handlers, pc[h] = "incr" PROVE abuse + 1 <= rejected
<1>1. IsFiniteSet(At("incr")) /\ Cardinality(At("incr")) \in Nat /\ Cardinality(At("incr")) # 0
  BY LimitsGiven, FS_Subset, FS_CardinalityType, FS_EmptySet, h \in At("incr"), At("incr") \subseteq Handlers DEF At
<1>2. PICK g \in Nat : Groups(g)
  BY DEF RateInv, AlertsGrouped
<1>3. AbuseThreshold * g \in Nat
  BY LimitsGiven
<1> QED
  <2>1. rejected >= Cardinality(At("incr")) + abuse + AbuseThreshold * g
    BY <1>2 DEF Groups
  <2>2. abuse \in Int /\ rejected \in Int
    BY DEF RateInv, RateTypes, Ra!TypeOK
  <2> QED
    BY ONLY <1>1, <1>3, <2>1, <2>2

(* A request that does not move keeps its invariant while what its window   *)
(* counts is kept. *)
LEMMA OtherJobs ==
    ASSUME NEW h \in Handlers, NEW step, RateInv, now' = now,
           pc' = [pc EXCEPT ![h] = step], \A q \in Handlers \ {h} : job'[q] = job[q],
           \A k \in Ra!Keys : \A e \in zset[k] : e.at > now - Window => e \in zset'[k]
    PROVE  \A q \in Handlers \ {h} : JobInv(q)'
<1> SUFFICES ASSUME NEW q \in Handlers \ {h} PROVE JobInv(q)'
  OBVIOUS
<1>1. pc'[q] = pc[q] /\ job'[q] = job[q] /\ JobInv(q) /\ job[q].key \in Ra!Keys
  BY DEF RateInv, RateTypes
<1>2. [id |-> job[q].id, at |-> job[q].at].at = job[q].at
  OBVIOUS
<1> QED
  BY ONLY <1>1, <1>2, now' = now, \A k \in Ra!Keys : \A e \in zset[k] : e.at > now - Window => e \in zset'[k] DEF JobInv

(* Types, the jobs and what is kept. *)
LEMMA RateKeeps ==
    RateInv /\ [Ra!Next]_(Ra!windows) => (RateTypes /\ Kept /\ \A h \in Handlers : JobInv(h))'
<1> DEFINE Inv == RateTypes /\ Kept /\ \A h \in Handlers : JobInv(h)
<1> SUFFICES ASSUME RateInv, [Ra!Next]_(Ra!windows) PROVE Inv'
  OBVIOUS
<1> USE LimitsGiven DEF RateInv, RateTypes, RateSteps, Entries, Ra!TypeOK, Kept, JobInv, Ra!Keys, Ra!Goto, Ra!Return, Ra!NoJob
<1>1. ASSUME NEW h \in Handlers, Ra!Arrive(h) PROVE Inv'
  <2>1. /\ pc' = [pc EXCEPT ![h] = "prune"] /\ arrived' = arrived + 1 /\ arrived < RateRequests
        /\ job' = [job EXCEPT ![h] = [id |-> arrived + 1, at |-> now, key |-> "user"]]
        /\ UNCHANGED <<now, zset, logins, abuse, faults, passed, accepted, rejected, alerts>>
    BY ONLY <1>1 DEF Ra!Arrive, Ra!Goto
  <2>2. RateTypes'
    BY <2>1
  <2>3. Kept'
    BY <2>1
  <2>4. pc'[h] = "prune" /\ job'[h].id = arrived + 1 /\ job'[h].at = now /\ job'[h].key = "user"
    BY <2>1
  <2>5. JobInv(h)'
    BY <2>1, <2>4
  <2>6. \A q \in Handlers \ {h} : JobInv(q)'
    BY <2>1, OtherJobs
  <2> QED
    BY <2>2, <2>3, <2>5, <2>6
<1>2. ASSUME NEW h \in Handlers, Ra!Prune(h) PROVE Inv'
  <2> DEFINE k == job[h].key
             kept == {e \in zset[k] : e.at > job[h].at - Window}
  <2>1. /\ pc[h] = "prune" /\ pc' = [pc EXCEPT ![h] = "add"] /\ zset' = [zset EXCEPT ![k] = kept]
        /\ UNCHANGED <<now, logins, abuse, job, arrived, faults, passed, accepted, rejected, alerts>>
    BY <1>2 DEF Ra!Prune
  <2>2. job[h].at \in 1..now /\ now \in Nat /\ k \in Ra!Keys /\ zset[k] \subseteq Entries
    <3>1. now \in Nat /\ k \in Ra!Keys /\ zset[k] \subseteq Entries /\ JobInv(h)
      BY ONLY RateInv, h \in Handlers DEF RateInv, RateTypes, Ra!TypeOK
    <3> QED
      BY ONLY <3>1, <2>1 DEF JobInv
  <2>3. IsFiniteSet(kept) /\ kept \subseteq zset[k]
    BY <2>2, FS_Subset
  <2>4. \A e \in zset[k] : e.at > now - Window => e \in kept
    BY <2>2
  <2>5. /\ zset' \in [Ra!Keys -> SUBSET Entries]
        /\ \A l \in Ra!Keys : zset'[l] \subseteq zset[l] /\ IsFiniteSet(zset'[l])
        /\ \A l \in Ra!Keys : \A e \in zset[l] : e.at > now - Window => e \in zset'[l]
    BY <2>1, <2>2, <2>3, <2>4
  <2>6. RateTypes'
    BY <2>1, <2>5
  <2>7. Kept'
    BY <2>1, <2>5
  <2>8. JobInv(h)'
    BY <2>1
  <2>9. \A q \in Handlers \ {h} : JobInv(q)'
    BY <2>1, <2>5, OtherJobs
  <2> QED
    BY <2>6, <2>7, <2>8, <2>9
<1>3. ASSUME NEW h \in Handlers, Ra!Add(h) PROVE Inv'
  <2> DEFINE k == job[h].key
             new == [id |-> job[h].id, at |-> job[h].at]
  <2>1. /\ pc[h] = "add" /\ pc' = [pc EXCEPT ![h] = "card"] /\ zset' = [zset EXCEPT ![k] = zset[k] \cup {new}]
        /\ UNCHANGED <<now, logins, abuse, job, arrived, faults, passed, accepted, rejected, alerts>>
    BY <1>3 DEF Ra!Add
  <2>2. k \in Ra!Keys /\ new \in Entries
    BY <2>1
  <2>3. IsFiniteSet(zset[k] \cup {new})
    <3>1. IsFiniteSet(zset[k])
      BY ONLY <2>2, RateInv DEF RateInv, RateTypes
    <3> QED
      BY ONLY <3>1, FS_AddElement
  <2>4. /\ zset' \in [Ra!Keys -> SUBSET Entries]
        /\ \A l \in Ra!Keys : zset[l] \subseteq zset'[l] /\ IsFiniteSet(zset'[l])
        /\ new \in zset'[k]
    BY <2>1, <2>2, <2>3
  <2>5. RateTypes'
    BY <2>1, <2>4
  <2>6. Kept'
    BY <2>1, <2>4
  <2>7. JobInv(h)'
    BY <2>1, <2>4
  <2>8. \A q \in Handlers \ {h} : JobInv(q)'
    BY <2>1, <2>4, OtherJobs
  <2> QED
    BY <2>5, <2>6, <2>7, <2>8
<1>4. ASSUME NEW h \in Handlers, Ra!Enforce(h) PROVE Inv'
  <2> DEFINE k == job[h].key
             new == [id |-> job[h].id, at |-> job[h].at]
  <2>1. PICK step, j :
          /\ pc[h] = "card" /\ pc' = [pc EXCEPT ![h] = step] /\ job' = [job EXCEPT ![h] = j]
          /\ \/ step = "idle" /\ j = Ra!NoJob
             \/ step = "incr" /\ j = job[h]
             \/ step = "prune" /\ j = [job[h] EXCEPT !.key = "tenant"]
          /\ rejected' \in {rejected, rejected + 1}
          /\ passed' = passed \/ passed' = [passed EXCEPT ![k] = passed[k] \cup {new}]
          /\ UNCHANGED <<now, zset, logins, abuse, arrived, faults, accepted, alerts>>
    <3> DEFINE moved == [job[h] EXCEPT !.key = "tenant"]
    <3>1. job = [job EXCEPT ![h] = job[h]]
      OBVIOUS
    <3>2. rejected + 0 = rejected
      OBVIOUS
    <3>3. /\ pc[h] = "card" /\ rejected' \in {rejected, rejected + 1}
          /\ passed' = passed \/ passed' = [passed EXCEPT ![k] = passed[k] \cup {new}]
          /\ UNCHANGED <<now, zset, logins, abuse, arrived, faults, accepted, alerts>>
      BY ONLY <1>4, <3>2 DEF Ra!Enforce, Ra!Goto, Ra!Return
    <3>4. \/ pc' = [pc EXCEPT ![h] = "idle"] /\ job' = [job EXCEPT ![h] = Ra!NoJob]
          \/ pc' = [pc EXCEPT ![h] = "incr"] /\ job' = [job EXCEPT ![h] = job[h]]
          \/ pc' = [pc EXCEPT ![h] = "prune"] /\ job' = [job EXCEPT ![h] = moved]
      BY ONLY <1>4, <3>1 DEF Ra!Enforce, Ra!Goto, Ra!Return
    <3> QED
      BY ONLY <3>3, <3>4
  <2>2. /\ job[h] \in [id : Nat, at : Nat, key : Ra!Keys] /\ k \in Ra!Keys /\ job[h].at \in 1..now
        /\ job[h].at > now - Window => new \in zset[k]
        /\ new \in Entries /\ new.at = job[h].at
    BY <2>1
  <2>3. /\ j \in [id : Nat, at : Nat, key : Ra!Keys]
        /\ step # "idle" => j.id = job[h].id /\ j.at = job[h].at
    BY ONLY <2>1, <2>2 DEF Ra!NoJob, Ra!Keys
  <2>4. passed' \in [Ra!Keys -> SUBSET Entries]
    BY <2>1, <2>2
  <2>5. RateTypes'
    <3>1. pc' \in [Handlers -> RateSteps] /\ job' \in [Handlers -> [id : Nat, at : Nat, key : Ra!Keys]]
      BY <2>1, <2>3
    <3> QED
      BY <2>1, <2>4, <3>1
  <2>6. Kept'
    BY <2>1, <2>2
  <2>7. JobInv(h)'
    BY <2>1, <2>2, <2>3
  <2>8. \A q \in Handlers \ {h} : JobInv(q)'
    BY <2>1, OtherJobs
  <2> QED
    BY <2>5, <2>6, <2>7, <2>8
<1>5. ASSUME NEW h \in Handlers, Ra!FailsOpen(h) PROVE Inv'
  BY <1>5 DEF Ra!FailsOpen
<1>6. ASSUME NEW h \in Handlers, Ra!TrackAbuse(h) PROVE Inv'
  <2>1. /\ pc[h] = "incr" /\ abuse' = abuse + 1 /\ alerts' \in {alerts, alerts + 1}
        /\ \/ pc' = [pc EXCEPT ![h] = "del"] /\ job' = job
           \/ pc' = [pc EXCEPT ![h] = "idle"] /\ job' = [job EXCEPT ![h] = Ra!NoJob]
        /\ UNCHANGED <<now, zset, logins, arrived, faults, passed, accepted, rejected>>
    BY <1>6 DEF Ra!TrackAbuse
  <2>2. abuse + 1 <= rejected
    BY <2>1, AbuseRoom
  <2>3. pc' \in [Handlers -> RateSteps] /\ job' \in [Handlers -> [id : Nat, at : Nat, key : Ra!Keys]]
    <3>1. Ra!NoJob \in [id : Nat, at : Nat, key : Ra!Keys]
      OBVIOUS
    <3>2. pc \in [Handlers -> RateSteps] /\ job \in [Handlers -> [id : Nat, at : Nat, key : Ra!Keys]]
      BY ONLY RateInv DEF RateInv, RateTypes
    <3> QED
      BY ONLY <3>1, <3>2, <2>1 DEF RateSteps
  <2>4. RateTypes'
    BY <2>1, <2>2, <2>3
  <2>5. Kept'
    BY <2>1
  <2>6. JobInv(h)'
    BY <2>1
  <2>7. \A q \in Handlers \ {h} : JobInv(q)'
    BY <2>1, OtherJobs
  <2> QED
    BY <2>4, <2>5, <2>6, <2>7
<1>7. ASSUME NEW h \in Handlers, Ra!ResetAbuse(h) PROVE Inv'
  BY <1>7 DEF Ra!ResetAbuse
<1>8. CASE Ra!Login
  <2> DEFINE fresh == {s \in logins : s > now - Window}
  <2>1. /\ \/ logins' = fresh /\ accepted' = accepted
           \/ logins' = fresh \cup {now} /\ accepted' = accepted \cup {now}
        /\ UNCHANGED <<now, zset, abuse, pc, job, arrived, faults, passed, rejected, alerts>>
    BY <1>8 DEF Ra!Login
  <2>2. now \in 1..now /\ fresh \subseteq accepted
    <3>1. now \in 1..Seconds /\ logins \subseteq accepted /\ Seconds \in Nat
      BY ONLY RateInv, LimitsGiven DEF RateInv, RateTypes, Ra!TypeOK
    <3> QED
      BY ONLY <3>1
  <2>3. RateTypes'
    BY <2>1, <2>2
  <2>4. Kept'
    BY <2>1, <2>2
  <2>5. \A q \in Handlers : JobInv(q)'
    BY <2>1
  <2> QED
    BY <2>3, <2>4, <2>5
<1>9. CASE Ra!Tick
  BY <1>9 DEF Ra!Tick
<1>10. CASE UNCHANGED Ra!windows
  BY <1>10 DEF Ra!windows
<1> QED
  BY <1>1, <1>2, <1>3, <1>4, <1>5, <1>6, <1>7, <1>8, <1>9, <1>10 DEF Ra!Next

(* What a window lets through. *)
LEMMA RateWindow == RateInv /\ [Ra!Next]_(Ra!windows) => Ra!WindowRespected'
<1> SUFFICES ASSUME RateInv, [Ra!Next]_(Ra!windows) PROVE Ra!WindowRespected'
  OBVIOUS
<1>1. ASSUME UNCHANGED <<passed, accepted>> PROVE Ra!WindowRespected'
  BY <1>1 DEF RateInv, Ra!WindowRespected
<1>2. ASSUME NEW h \in Handlers, Ra!Enforce(h) PROVE Ra!WindowRespected'
  <2> DEFINE k == job[h].key
             e == [id |-> job[h].id, at |-> job[h].at]
             In(t, S) == {p \in S : t - (Window - 1) < p.at /\ p.at <= t}
  <2>1. CASE UNCHANGED passed
    BY <1>1, <1>2, <2>1 DEF Ra!Enforce
  <2>2. CASE Ra!Remaining(k) >= 0 /\ passed' = [passed EXCEPT ![k] = @ \cup {e}]
    <3>1. /\ k \in Ra!Keys /\ zset[k] \subseteq Entries /\ passed[k] \subseteq Entries /\ e \in Entries
          /\ IsFiniteSet(zset[k]) /\ e.at = job[h].at /\ e.at >= now - 1 /\ now \in Nat
          /\ passed \in [Ra!Keys -> SUBSET Entries]
      <4>1. /\ pc[h] = "card" /\ k \in Ra!Keys /\ zset[k] \in SUBSET Entries /\ passed[k] \in SUBSET Entries
            /\ passed \in [Ra!Keys -> SUBSET Entries] /\ IsFiniteSet(zset[k]) /\ now \in Nat
        BY <1>2 DEF Ra!Enforce, RateInv, RateTypes, Ra!TypeOK
      <4>2. job[h].id \in 1..RateRequests /\ job[h].at \in 1..now /\ job[h].at >= now - 1
        BY <4>1 DEF RateInv, JobInv
      <4> QED
        BY <4>1, <4>2 DEF Entries
    <3>2. Cardinality(zset[k]) \in Nat /\ Cardinality(zset[k]) <= Limit[k]
      BY <2>2, <3>1, LimitsGiven, SameCardinality, FS_CardinalityType DEF Ra!Remaining
    <3>3. ASSUME NEW t \in 1..Seconds PROVE Ra!Cardinality(In(t, passed[k] \cup {e})) <= Limit[k]
      <4>1. CASE e \notin In(t, {e})
        <5>1. In(t, passed[k] \cup {e}) = In(t, passed[k])
          BY <4>1
        <5> QED
          BY <5>1, <3>1 DEF RateInv, Ra!WindowRespected
      <4>2. CASE e \in In(t, {e})
        <5>1. \A p \in In(t, passed[k] \cup {e}) : p.at > now - Window
          BY <4>2, <3>1, LimitsGiven DEF Entries
        <5>2. e.at > now - Window => e \in zset[k]
          BY <1>2, <3>1 DEF Ra!Enforce, RateInv, JobInv
        <5>3. In(t, passed[k] \cup {e}) \subseteq zset[k]
          BY <5>1, <5>2, <3>1 DEF RateInv, Kept
        <5>4. Cardinality(In(t, passed[k] \cup {e})) <= Cardinality(zset[k]) /\ Cardinality(In(t, passed[k] \cup {e})) \in Nat
          BY <5>3, <3>1, FS_Subset, FS_CardinalityType
        <5> QED
          BY <5>4, <3>2, <3>1, LimitsGiven, SameCardinality
      <4> QED
        BY <4>1, <4>2
    <3>4. accepted' = accepted /\ passed'[k] = passed[k] \cup {e} /\ \A l \in Ra!Keys \ {k} : passed'[l] = passed[l]
      BY <1>2, <2>2, <3>1 DEF Ra!Enforce
    <3> QED
      BY <3>3, <3>4 DEF RateInv, Ra!WindowRespected
  <2> QED
    BY <1>2, <2>1, <2>2, LimitsGiven, SameCardinality, FS_CardinalityType
       DEF Ra!Enforce, Ra!Remaining, RateInv, RateTypes
<1>3. CASE Ra!Login
  <2> DEFINE fresh == {s \in logins : s > now - Window}
             In(t, S) == {s \in S : t - Window < s /\ s <= t}
  <2>1. CASE accepted' = accepted
    BY <1>1, <1>3, <2>1 DEF Ra!Login
  <2>2. CASE ~(Ra!Cardinality(fresh) >= LoginLimit) /\ accepted' = accepted \cup {now}
    <3>1. now \in Nat /\ accepted \subseteq 1..now /\ logins \subseteq accepted /\ IsFiniteSet(fresh)
      <4>1. now \in Nat /\ accepted \subseteq 1..now /\ logins \subseteq accepted
        BY DEF RateInv, RateTypes, Ra!TypeOK
      <4>2. IsFiniteSet(1..now) /\ fresh \subseteq 1..now
        BY <4>1, FS_Interval, 1 \in Int, now \in Int
      <4> QED
        BY <4>1, <4>2, FS_Subset
    <3>2. Cardinality(fresh) \in Nat /\ Cardinality(fresh) < LoginLimit
      BY <2>2, <3>1, LimitsGiven, SameCardinality, FS_CardinalityType
    <3>3. IsFiniteSet(fresh \cup {now}) /\ Cardinality(fresh \cup {now}) <= LoginLimit /\ Cardinality(fresh \cup {now}) \in Nat
      <4>1. /\ IsFiniteSet(fresh \cup {now})
            /\ Cardinality(fresh \cup {now}) = Cardinality(fresh) \/ Cardinality(fresh \cup {now}) = Cardinality(fresh) + 1
        BY ONLY <3>1, FS_AddElement
      <4> QED
        BY ONLY <4>1, <3>2, LimitsGiven
    <3>4. ASSUME NEW t \in 1..Seconds PROVE Ra!Cardinality(In(t, accepted \cup {now})) <= LoginLimit
      <4>1. CASE now \notin In(t, {now})
        <5>1. In(t, accepted \cup {now}) = In(t, accepted)
          BY <4>1
        <5> QED
          BY <5>1 DEF RateInv, Ra!WindowRespected
      <4>2. CASE now \in In(t, {now})
        <5>1. In(t, accepted \cup {now}) \subseteq fresh \cup {now}
          <6>1. \A s \in accepted : s > now - Window => s \in logins
            BY DEF RateInv, Kept
          <6>2. \A s \in accepted : s > t - Window => s > now - Window
            BY <4>2, <3>1, LimitsGiven
          <6> QED
            BY <6>1, <6>2
        <5>2. Cardinality(In(t, accepted \cup {now})) <= Cardinality(fresh \cup {now}) /\ Cardinality(In(t, accepted \cup {now})) \in Nat
          BY <5>1, <3>3, FS_Subset, FS_CardinalityType
        <5> QED
          BY <5>2, <3>3, LimitsGiven, SameCardinality
      <4> QED
        BY <4>1, <4>2
    <3>5. passed' = passed
      BY <1>3 DEF Ra!Login
    <3> QED
      BY <2>2, <3>4, <3>5 DEF RateInv, Ra!WindowRespected
  <2> QED
    BY <1>3, <2>1, <2>2 DEF Ra!Login
<1> QED
  BY <1>1, <1>2, <1>3 DEF Ra!Next, Ra!windows, Ra!Arrive, Ra!Prune, Ra!Add, Ra!FailsOpen, Ra!TrackAbuse, Ra!ResetAbuse, Ra!Tick

(* Where the counter of rejections stands against the alerts. *)
LEMMA RateGroups == RateInv /\ [Ra!Next]_(Ra!windows) => AlertsGrouped'
<1> SUFFICES ASSUME RateInv, [Ra!Next]_(Ra!windows) PROVE AlertsGrouped'
  OBVIOUS
<1> DEFINE H == Cardinality(Handlers)
           I == Cardinality(At("incr"))
           D == Cardinality(At("del"))
<1>1. PICK g \in Nat : Groups(g)
  BY DEF RateInv, AlertsGrouped
<1>2. RateTypes /\ abuse \in Nat /\ rejected \in Nat /\ alerts \in Nat /\ pc \in [Handlers -> RateSteps]
  BY DEF RateInv, RateTypes, Ra!TypeOK
<1>3. /\ H \in Nat /\ AbuseThreshold \in Nat /\ AbuseThreshold * g \in Nat /\ H * g \in Nat
      /\ AbuseThreshold * (g + 1) = AbuseThreshold * g + AbuseThreshold /\ H * (g + 1) = H * g + H
  BY LimitsGiven, OneMore
<1>4. I \in Nat /\ D \in 0..H
  <2>1. IsFiniteSet(Handlers) /\ At("incr") \subseteq Handlers /\ At("del") \subseteq Handlers
    BY LimitsGiven DEF At
  <2> QED
    BY ONLY <2>1, FS_Subset, FS_CardinalityType
<1>5. ASSUME UNCHANGED <<abuse, alerts>>, rejected' >= rejected, At("del")' = At("del"), I' <= I + rejected' - rejected,
             rejected' \in Nat, I' \in Nat
      PROVE  Groups(g)'
  BY ONLY <1>1, <1>2, <1>3, <1>4, <1>5 DEF Groups
<1>6. ASSUME UNCHANGED <<pc, abuse, alerts, rejected>> PROVE AlertsGrouped'
  BY <1>1, <1>6 DEF AlertsGrouped, Groups, At
<1>7. ASSUME NEW h \in Handlers, NEW to \in RateSteps, to \notin {"incr", "del"}, pc[h] \notin {"incr", "del"},
             pc' = [pc EXCEPT ![h] = to], UNCHANGED <<abuse, alerts>>, rejected' \in Nat, rejected' >= rejected
      PROVE  AlertsGrouped'
  <2>1. At("incr")' = At("incr") /\ At("del")' = At("del")
    BY <1>2, <1>7 DEF At
  <2> QED
    BY <1>2, <1>4, <1>5, <1>7, <2>1 DEF AlertsGrouped
<1>8. ASSUME NEW h \in Handlers, Ra!Enforce(h) PROVE AlertsGrouped'
  <2>1. pc[h] = "card" /\ UNCHANGED <<abuse, alerts>>
    BY <1>8 DEF Ra!Enforce
  <2>2. CASE pc' = [pc EXCEPT ![h] = "incr"] /\ rejected' = rejected + 1
    <3>1. I' \in Nat /\ I' = I + 1
      BY <1>2, <2>1, <2>2, AtSteps DEF RateSteps
    <3>2. At("del")' = At("del")
      BY <1>2, <2>1, <2>2 DEF At
    <3> QED
      BY ONLY <1>2, <1>4, <1>5, <2>1, <2>2, <3>1, <3>2, g \in Nat DEF AlertsGrouped
  <2>3. CASE pc' \in {[pc EXCEPT ![h] = "idle"], [pc EXCEPT ![h] = "prune"]} /\ rejected' = rejected
    BY <1>2, <1>7, <2>1, <2>3 DEF RateSteps
  <2> QED
    BY <1>2, <1>8, <2>2, <2>3 DEF Ra!Enforce, Ra!Goto, Ra!Return
<1>9. ASSUME NEW h \in Handlers, Ra!TrackAbuse(h) PROVE AlertsGrouped'
  <2>1. /\ pc[h] = "incr" /\ abuse' = abuse + 1 /\ rejected' = rejected
        /\ \/ abuse + 1 >= AbuseThreshold /\ alerts' = alerts + 1 /\ pc' = [pc EXCEPT ![h] = "del"]
           \/ ~(abuse + 1 >= AbuseThreshold) /\ alerts' = alerts /\ pc' = [pc EXCEPT ![h] = "idle"]
    BY <1>9 DEF Ra!TrackAbuse, Ra!Goto, Ra!Return
  <2>2. CASE pc' = [pc EXCEPT ![h] = "del"] /\ abuse + 1 >= AbuseThreshold /\ alerts' = alerts + 1
    <3>1. I' \in Nat /\ I' = I - 1 /\ D' \in Nat /\ D' = D + 1
      BY <1>2, <2>1, <2>2, AtSteps DEF RateSteps
    <3>2. Groups(g)'
      BY ONLY <1>1, <1>2, <1>3, <1>4, <2>1, <2>2, <3>1 DEF Groups
    <3> QED
      BY <3>2 DEF AlertsGrouped
  <2>3. CASE pc' = [pc EXCEPT ![h] = "idle"] /\ ~(abuse + 1 >= AbuseThreshold) /\ alerts' = alerts
    <3>1. I' \in Nat /\ I' = I - 1
      BY <1>2, <2>1, <2>3, AtSteps DEF RateSteps
    <3>2. Groups(g)'
      BY ONLY <1>1, <1>2, <1>3, <1>4, <2>1, <2>3, <3>1 DEF Groups
    <3> QED
      BY <3>2 DEF AlertsGrouped
  <2> QED
    BY <2>1, <2>2, <2>3
<1>10. ASSUME NEW h \in Handlers, Ra!ResetAbuse(h) PROVE AlertsGrouped'
  <2>1. /\ pc[h] = "del" /\ abuse' = 0 /\ rejected' = rejected /\ alerts' = alerts /\ pc' = [pc EXCEPT ![h] = "idle"]
    BY <1>10 DEF Ra!ResetAbuse, Ra!Goto, Ra!Return
  <2>2. I' = I /\ D' \in Nat
    BY <1>2, <2>1, AtSteps DEF RateSteps
  <2>3. CASE abuse >= AbuseThreshold
    <3>1. Groups(g + 1)'
      BY ONLY <1>1, <1>2, <1>3, <1>4, <2>1, <2>2, <2>3 DEF Groups
    <3> QED
      BY <3>1, g + 1 \in Nat DEF AlertsGrouped
  <2>4. CASE ~(abuse >= AbuseThreshold)
    <3>1. Groups(g)'
      BY ONLY <1>1, <1>2, <1>3, <1>4, <2>1, <2>2, <2>4 DEF Groups
    <3> QED
      BY <3>1 DEF AlertsGrouped
  <2> QED
    BY <2>3, <2>4
<1>11. ASSUME NEW h \in Handlers, Ra!Arrive(h) \/ Ra!Prune(h) \/ Ra!Add(h) \/ Ra!FailsOpen(h) PROVE AlertsGrouped'
  <2>1. /\ UNCHANGED <<abuse, alerts, rejected>> /\ pc[h] \in {"idle", "prune", "add", "card"}
        /\ \E to \in {"idle", "prune", "add", "card"} : pc' = [pc EXCEPT ![h] = to]
    BY <1>11 DEF Ra!Arrive, Ra!Prune, Ra!Add, Ra!FailsOpen, Ra!Goto, Ra!Return
  <2>2. PICK to \in {"idle", "prune", "add", "card"} : pc' = [pc EXCEPT ![h] = to]
    BY <2>1
  <2>3. rejected' \in Nat /\ rejected' >= rejected /\ to \in RateSteps /\ to \notin {"incr", "del"} /\ pc[h] \notin {"incr", "del"}
    BY ONLY <1>2, <2>1, to \in {"idle", "prune", "add", "card"} DEF RateSteps
  <2> QED
    BY ONLY <1>7, <2>1, <2>2, <2>3, h \in Handlers
<1> QED
  BY <1>6, <1>8, <1>9, <1>10, <1>11 DEF Ra!Next, Ra!windows, Ra!Login, Ra!Tick

(* A behaviour of the limiter steps as RateLimit does. *)
LEMMA RateRuns == part = "rateLimit" /\ [Next]_all => part' = "rateLimit" /\ [Ra!Next]_(Ra!windows)
BY DEF Next, all, Ra!windows

(* However the pipelines of requests interleave, a window lets no more      *)
(* through than its limit, the script no more seconds than its own, and     *)
(* every alert has a threshold of rejections behind it, per group of        *)
(* handlers (ratelimit.go, auth.go), for every limit, window and number of  *)
(* handlers. *)
THEOREM WindowsHold == Spec => []RateLimitSound
<1> DEFINE Inv == part = "rateLimit" => RateInv
<1>1. Init => Inv
  BY RateInit DEF Init
<1>2. Inv /\ [Next]_all => Inv'
  <2> SUFFICES ASSUME Inv, [Next]_all, part' = "rateLimit" PROVE RateInv'
    OBVIOUS
  <2>1. part = "rateLimit"
    BY DEF Next, all
  <2> QED
    BY <2>1, RateRuns, RateKeeps, RateWindow, RateGroups DEF RateInv
<1>3. Inv => RateLimitSound
  <2> SUFFICES ASSUME RateInv PROVE Ra!AlertsEarned
    BY DEF RateInv, RateTypes, RateLimitSound, Ra!RateLimitSound
  <2> DEFINE H == Cardinality(Handlers)
             needed == (alerts + H - 1) \div H
  <2>1. PICK g \in Nat : Groups(g)
    BY DEF RateInv, AlertsGrouped
  <2>2. /\ abuse \in Nat /\ rejected \in Nat /\ alerts \in Nat /\ H \in Nat \ {0} /\ AbuseThreshold \in Nat
        /\ AbuseThreshold * g \in Nat /\ H * g \in Nat
        /\ AbuseThreshold * (g + 1) = AbuseThreshold * g + AbuseThreshold /\ H * (g + 1) = H * g + H
    BY LimitsGiven, OneMore DEF RateInv, RateTypes, Ra!TypeOK
  <2>3. Cardinality(At("incr")) \in Nat /\ Cardinality(At("del")) \in 0..H
    <3>1. IsFiniteSet(Handlers) /\ At("incr") \subseteq Handlers /\ At("del") \subseteq Handlers
      BY LimitsGiven DEF At
    <3> QED
      BY ONLY <3>1, FS_Subset, FS_CardinalityType
  <2>4. PICK n \in Nat : rejected >= AbuseThreshold * n /\ alerts <= H * n
    <3>1. CASE abuse >= AbuseThreshold
      <4>1. rejected >= AbuseThreshold * (g + 1) /\ alerts <= H * (g + 1)
        BY ONLY <2>1, <2>2, <2>3, <3>1 DEF Groups
      <4> QED
        BY <4>1, g + 1 \in Nat
    <3>2. CASE ~(abuse >= AbuseThreshold)
      <4>1. rejected >= AbuseThreshold * g /\ alerts <= H * g
        BY ONLY <2>1, <2>2, <2>3, <3>2 DEF Groups
      <4> QED
        BY <4>1
    <3> QED
      BY <3>1, <3>2
  <2>5. needed <= n /\ needed \in Int
    BY ONLY <2>2, <2>4, n \in Nat, GroupsNeeded
  <2>6. AbuseThreshold * needed <= AbuseThreshold * n
    BY ONLY <2>2, <2>5, n \in Nat, TimesMonotone
  <2>7. rejected >= AbuseThreshold * needed
    <3>1. AbuseThreshold * n \in Int /\ AbuseThreshold * needed \in Int
      BY <2>2, <2>5
    <3> QED
      BY ONLY <2>2, <2>4, <2>6, <3>1
  <2> QED
    BY <2>7, SameCardinality DEF Ra!AlertsEarned
<1> QED
  BY <1>1, <1>2, <1>3, PTL DEF Spec

-----------------------------------------------------------------------------
(* The response cache. *)

(* Whose answers are cached under what, and what an answer is. *)
CacheKeys == Users \X Resources
Bodies == [user : Users, res : Resources, version : Nat, at : Nat]


(* A context is at a request, and a goroutine does one of three things. *)
Requests == [id : Nat, user : Users \cup {None}, res : Resources \cup {None}]
Turns == [pc : {"idle", "lookup", "read", "write"}, request : Requests, body : Bodies \cup {None}]
Goroutines == [do : {"store", "scan", "del"}, id : Nat, on : Handlers, user : Users, res : Resources,
               body : Bodies \cup {None}, found : SUBSET CacheKeys]

(* Types. *)
CacheTypes ==
    /\ redis \in [CacheKeys -> {None} \cup [body : Bodies, until : Nat]]
    /\ version \in [Resources -> Nat] /\ changed \in [Resources -> Nat]
    /\ ctx \in [Handlers -> Turns] /\ loose \subseteq Goroutines
    /\ time \in Nat /\ requests \in Nat /\ faults \in Nat /\ late \in BOOLEAN

(* Who is at work, or has a goroutine, has a user and a resource. *)
Asked ==
    /\ \A c \in Handlers : ctx[c].pc # "idle" => ctx[c].request.user \in Users /\ ctx[c].request.res \in Resources
    /\ \A g \in loose : ctx[g.on].request.res \in Resources

(* What an answer says was so when it was read. *)
WasTrue(b) == b.at <= time /\ (b.version = version[b.res] \/ b.at <= changed[b.res])

(* An entry that no late goroutine has stored is its user's answer for its  *)
(* resource, and lives for as long as it may since it was read. *)
EntryInv(k) ==
    redis[k] # None =>
        /\ redis[k].until <= time + ResponseTTL
        /\ ~late => /\ WasTrue(redis[k].body) /\ redis[k].until <= redis[k].body.at + ResponseTTL
                    /\ redis[k].body.user = k[1] /\ redis[k].body.res = k[2]

(* So it is with what is about to be stored, which was just read. *)
StoreInv(g) ==
    g.do = "store" => /\ g.body \in Bodies /\ WasTrue(g.body) /\ g.body.at = time
                      /\ g.body.user = g.user /\ g.body.res = g.res

(* While requests and their goroutines take turns: one request is at work,  *)
(* reads are alone, a store is alone, and no context is reused. *)
TakeTurns ==
    ~overlap =>
        /\ \A c, d \in Handlers : ctx[c].pc # "idle" /\ ctx[d].pc # "idle" => c = d
        /\ \A c \in Handlers : ctx[c].pc \in {"lookup", "read"} => loose = {}
        /\ \A g \in loose : /\ ~Re!Reused(g)
                            /\ g.do = "store" => \A c \in Handlers : ctx[c].pc = "idle"

(* An entry an invalidation has yet to delete. *)
Doomed(k) == \E g \in loose : g.res = k[2] /\ (g.do = "scan" \/ (g.do = "del" /\ k \in g.found))

(* Every other entry is current, and nobody is about to change what it      *)
(* shows. *)
Current ==
    ~overlap /\ faults = 0 =>
        /\ \A k \in CacheKeys : redis[k] # None /\ ~Doomed(k) =>
             /\ redis[k].body.version = version[k[2]]
             /\ \A c \in Handlers : ctx[c].pc = "write" => ctx[c].request.res # k[2]
        /\ \A g \in loose : g.do = "store" => g.body.version = version[g.res]

(* The inductive invariant. *)
CacheInv ==
    /\ CacheTypes /\ Asked
    /\ \A k \in CacheKeys : EntryInv(k)
    /\ \A g \in loose : StoreInv(g)
    /\ TakeTurns /\ Current
    /\ Re!SerialHitIsCurrent /\ Re!StaleWithinTTL /\ Re!AnswersArePrivate

(* The empty cache. *)
LEMMA CacheInit == Re!Init => CacheInv
<1> SUFFICES ASSUME Re!Init PROVE CacheInv
  OBVIOUS
<1>1. Re!Idle \in Turns
  BY DEF Re!Idle, Re!NoRequest, Turns, Requests
<1>2. CacheTypes
  BY <1>1 DEF Re!Init, CacheTypes, CacheKeys
<1>3. \A k \in CacheKeys : redis[k] = None
  BY DEF Re!Init, CacheKeys
<1>4. \A c \in Handlers : ctx[c].pc = "idle"
  BY DEF Re!Init, Re!Idle
<1>5. loose = {} /\ hit = None
  BY DEF Re!Init
<1> QED
  BY <1>2, <1>3, <1>4, <1>5 DEF CacheInv, Asked, EntryInv, StoreInv, TakeTurns, Current, Re!SerialHitIsCurrent,
     Re!StaleWithinTTL, Re!AnswersArePrivate

(* What the assumptions say of the time to live. *)
LEMMA TtlGiven == ResponseTTL \in Nat /\ MaxFaults \in Nat
BY ServicesAssumption DEF Re!ResponseCacheAssumption

(* A request that arrives is the context's; nobody else's changes. *)
LEMMA BeginShape ==
    ASSUME CacheInv, NEW c \in Handlers, NEW u \in Users, NEW r \in Resources, NEW step \in {"lookup", "write"},
           Re!Begin(c, step, u, r)
    PROVE  /\ ctx[c].pc = "idle" /\ (overlap \/ (loose = {} /\ \A d \in Handlers : ctx[d].pc = "idle"))
           /\ ctx' \in [Handlers -> Turns] /\ requests + 1 \in Nat
           /\ ctx'[c].pc = step
           /\ ctx'[c].request.id = requests + 1 /\ ctx'[c].request.user = u /\ ctx'[c].request.res = r
           /\ \A d \in Handlers \ {c} : ctx'[d] = ctx[d]
           /\ requests' = requests + 1 /\ UNCHANGED <<overlap, version, changed, redis, time, faults, late>>
<1>1. ctx \in [Handlers -> Turns] /\ requests \in Nat
  BY DEF CacheInv, CacheTypes
<1>2. [pc |-> step, request |-> [id |-> requests + 1, user |-> u, res |-> r], body |-> None] \in Turns
  BY <1>1 DEF Turns, Requests
<1> QED
  BY ONLY <1>1, <1>2, Re!Begin(c, step, u, r), c \in Handlers DEF Re!Begin

(* A mutation starts its invalidation. *)
LEMMA MutateShape ==
    ASSUME CacheInv, NEW c \in Handlers, NEW u \in Users, NEW r \in Resources, Re!Mutate(c, u, r)
    PROVE  /\ Re!Begin(c, "write", u, r) /\ hit' = None
           /\ \E new \in Goroutines :
                /\ loose' = loose \cup {new}
                /\ new.do = "scan" /\ new.id = requests + 1 /\ new.on = c /\ new.user = u /\ new.res = r
<1> DEFINE new == [do |-> "scan", id |-> requests + 1, on |-> c, user |-> u, res |-> r, body |-> None, found |-> {}]
<1>1. new \in Goroutines
  BY DEF Goroutines, CacheInv, CacheTypes
<1>2. Re!Begin(c, "write", u, r) /\ hit' = None /\ loose' = loose \cup {new}
  BY DEF Re!Mutate
<1> QED
  BY ONLY <1>1, <1>2

(* A lookup ends the request with what is cached, or sends it to its        *)
(* handler. *)
LEMMA LookupShape ==
    ASSUME CacheInv, NEW c \in Handlers, Re!Lookup(c)
    PROVE  LET k == <<ctx[c].request.user, ctx[c].request.res>>
           IN  /\ ctx[c].pc = "lookup" /\ k \in CacheKeys /\ k[2] = ctx[c].request.res /\ k[1] = ctx[c].request.user
               /\ ctx' \in [Handlers -> Turns] /\ \A d \in Handlers \ {c} : ctx'[d] = ctx[d]
               /\ ctx'[c].request = ctx[c].request /\ ctx'[c].pc \in {"idle", "read"}
               /\ ctx'[c].pc = "idle" \/ hit' = None
               /\ faults' \in Nat /\ (faults' = 0 => faults = 0)
               /\ UNCHANGED <<overlap, version, changed, redis, loose, time, requests, late>>
               /\ hit' = None \/ (/\ redis[k] # None /\ time < redis[k].until
                                  /\ hit' = [user |-> k[1], res |-> k[2], body |-> redis[k].body])
<1> DEFINE q == ctx[c].request
           k == <<q.user, q.res>>
           e == redis[k]
<1>1. ctx \in [Handlers -> Turns] /\ ctx[c] \in Turns /\ faults \in Nat
  BY DEF CacheInv, CacheTypes
<1>2. ctx[c].pc = "lookup" /\ q.user \in Users /\ q.res \in Resources
  BY DEF Re!Lookup, CacheInv, Asked
<1>3. k \in CacheKeys /\ k[1] = q.user /\ k[2] = q.res
  BY <1>2 DEF CacheKeys
<1>4. e \in {None} \cup [body : Bodies, until : Nat]
  BY <1>3 DEF CacheInv, CacheTypes
<1>5. UNCHANGED <<overlap, version, changed, redis, loose, time, requests, late>>
  BY DEF Re!Lookup
<1>6. CASE /\ e # None /\ time < e.until /\ hit' = [user |-> q.user, res |-> q.res, body |-> e.body]
           /\ ctx' = [ctx EXCEPT ![c].pc = "idle", ![c].body = e.body] /\ UNCHANGED faults
  <2>1. e.body \in Bodies
    BY <1>4, <1>6
  <2>2. /\ ctx' \in [Handlers -> Turns] /\ \A d \in Handlers \ {c} : ctx'[d] = ctx[d]
        /\ ctx'[c].request = q /\ ctx'[c].pc = "idle"
    BY ONLY <1>1, <1>6, <2>1, c \in Handlers DEF Turns
  <2> QED
    BY ONLY <1>1, <1>2, <1>3, <1>5, <1>6, <2>2
<1>7. CASE /\ UNCHANGED faults \/ faults' = faults + 1
           /\ ctx' = [ctx EXCEPT ![c].pc = "read"] /\ hit' = None
  <2>1. /\ ctx' \in [Handlers -> Turns] /\ \A d \in Handlers \ {c} : ctx'[d] = ctx[d]
        /\ ctx'[c].request = q /\ ctx'[c].pc = "read"
    BY ONLY <1>1, <1>7, c \in Handlers DEF Turns
  <2> QED
    BY ONLY <1>1, <1>2, <1>3, <1>5, <1>7, <2>1
<1> QED
  BY <1>6, <1>7 DEF Re!Lookup

(* A handler answers with what there is, and starts the goroutine that      *)
(* stores it, or does not. *)
LEMMA ReadShape ==
    ASSUME CacheInv, NEW c \in Handlers, Re!Read(c)
    PROVE  \E new \in Goroutines :
             /\ ctx[c].pc = "read" /\ ctx[c].request.res \in Resources
             /\ ctx' \in [Handlers -> Turns] /\ \A d \in Handlers \ {c} : ctx'[d] = ctx[d]
             /\ ctx'[c].request = ctx[c].request /\ ctx'[c].pc = "idle"
             /\ loose' = loose \/ loose' = loose \cup {new}
             /\ new.do = "store" /\ new.on = c /\ new.id = ctx[c].request.id
             /\ new.user = ctx[c].request.user /\ new.res = ctx[c].request.res
             /\ new.body \in Bodies /\ new.body.user = new.user /\ new.body.res = new.res
             /\ new.body.version = version[new.res] /\ new.body.at = time
             /\ hit' = None /\ UNCHANGED <<overlap, version, changed, redis, time, requests, faults, late>>
<1> DEFINE q == ctx[c].request
           body == [user |-> q.user, res |-> q.res, version |-> version[q.res], at |-> time]
           new == [do |-> "store", id |-> q.id, on |-> c, user |-> q.user, res |-> q.res, body |-> body, found |-> {}]
<1>1. ctx \in [Handlers -> Turns] /\ ctx[c] \in Turns /\ time \in Nat
  BY DEF CacheInv, CacheTypes
<1>2. ctx[c].pc = "read" /\ q.user \in Users /\ q.res \in Resources /\ q.id \in Nat /\ version[q.res] \in Nat
  BY <1>1 DEF Re!Read, CacheInv, Asked, CacheTypes, Turns, Requests
<1>3. body \in Bodies
  BY ONLY <1>1, <1>2 DEF Bodies
<1>4. new \in Goroutines
  BY ONLY <1>2, <1>3, c \in Handlers DEF Goroutines
<1>5. /\ ctx' = [ctx EXCEPT ![c].pc = "idle", ![c].body = body] /\ loose' \in {loose, loose \cup {new}}
      /\ hit' = None /\ UNCHANGED <<overlap, version, changed, redis, time, requests, faults, late>>
  BY ONLY Re!Read(c) DEF Re!Read, Re!Spawn
<1>6. /\ ctx' \in [Handlers -> Turns] /\ \A d \in Handlers \ {c} : ctx'[d] = ctx[d]
      /\ ctx'[c].request = q /\ ctx'[c].pc = "idle"
  BY ONLY <1>1, <1>3, <1>5, c \in Handlers DEF Turns
<1> QED
  BY ONLY <1>2, <1>3, <1>4, <1>5, <1>6

(* A store puts one answer, its own unless the context has been reused. *)
LEMMA StoreShape ==
    ASSUME CacheInv, NEW g \in loose, Re!Store(g)
    PROVE  /\ g.do = "store" /\ <<g.user, g.res>> \in CacheKeys /\ loose' = loose \ {g}
           /\ late' = (late \/ Re!Reused(g)) /\ late' \in BOOLEAN
           /\ hit' = None /\ UNCHANGED <<overlap, version, changed, ctx, time, requests>>
           /\ faults' \in Nat /\ (faults' = 0 => faults = 0)
           /\ redis' \in [CacheKeys -> {None} \cup [body : Bodies, until : Nat]]
           /\ \A k \in CacheKeys :
                \/ redis'[k] = redis[k]
                \/ /\ k[1] = g.user /\ k[2] = g.res
                   /\ \E b \in Bodies : /\ redis'[k] = [body |-> b, until |-> time + ResponseTTL]
                                        /\ ~Re!Reused(g) => b = g.body
<1>1. g \in Goroutines /\ time \in Nat /\ faults \in Nat /\ redis \in [CacheKeys -> {None} \cup [body : Bodies, until : Nat]]
  BY DEF CacheInv, CacheTypes
<1>2. g.do = "store" /\ <<g.user, g.res>> \in CacheKeys /\ g.body \in Bodies
  BY <1>1 DEF Re!Store, Goroutines, CacheKeys, CacheInv, StoreInv
<1>3. /\ loose' = loose \ {g} /\ late' = (late \/ Re!Reused(g)) /\ late' \in BOOLEAN
      /\ hit' = None /\ UNCHANGED <<overlap, version, changed, ctx, time, requests>>
  BY DEF Re!Store, Re!Ran
<1>4. CASE redis' = redis /\ faults' = faults + 1
  BY ONLY <1>1, <1>2, <1>3, <1>4
<1>5. CASE /\ UNCHANGED faults
           /\ \E b \in {g.body} \cup (IF Re!Reused(g) THEN {ctx[g.on].body} \ {None} ELSE {}) :
                redis' = [redis EXCEPT ![<<g.user, g.res>>] = [body |-> b, until |-> time + ResponseTTL]]
  <2>1. PICK b \in {g.body} \cup (IF Re!Reused(g) THEN {ctx[g.on].body} \ {None} ELSE {}) :
          redis' = [redis EXCEPT ![<<g.user, g.res>>] = [body |-> b, until |-> time + ResponseTTL]]
    BY <1>5
  <2>2. ctx[g.on].body \in Bodies \cup {None}
    BY <1>1 DEF Goroutines, CacheInv, CacheTypes, Turns
  <2>3. b \in Bodies /\ (~Re!Reused(g) => b = g.body)
    BY ONLY <1>2, <2>2, b \in {g.body} \cup (IF Re!Reused(g) THEN {ctx[g.on].body} \ {None} ELSE {})
  <2>4. [body |-> b, until |-> time + ResponseTTL] \in [body : Bodies, until : Nat]
    BY ONLY <1>1, <2>3, TtlGiven
  <2>5. ASSUME NEW k \in CacheKeys, k = <<g.user, g.res>> PROVE k[1] = g.user /\ k[2] = g.res
    BY ONLY <2>5
  <2> QED
    BY ONLY <1>1, <1>2, <1>3, <1>5, <2>1, <2>3, <2>4, <2>5
<1> QED
  BY <1>4, <1>5 DEF Re!Store

(* The goroutine a scan becomes. *)
LEMMA DelRecord ==
    ASSUME NEW g \in Goroutines, NEW found \in SUBSET CacheKeys
    PROVE  LET n == [g EXCEPT !.do = "del", !.found = found]
           IN  /\ n \in Goroutines /\ n.do = "del" /\ n.found = found
               /\ n.id = g.id /\ n.on = g.on /\ n.user = g.user /\ n.res = g.res
BY DEF Goroutines

(* A scan goes on to delete every entry of the resource it looked for,      *)
(* which is its own unless the context has been reused. *)
LEMMA ScanShape ==
    ASSUME CacheInv, NEW g \in loose, Re!Scan(g)
    PROVE  /\ g.do = "scan" /\ late' = (late \/ Re!Reused(g)) /\ late' \in BOOLEAN
           /\ hit' = None /\ UNCHANGED <<overlap, version, changed, redis, ctx, time, requests>>
           /\ faults' \in Nat /\ (faults' = 0 => faults = 0)
           /\ \/ loose' = loose \ {g} /\ faults' = faults + 1
              \/ \E found \in SUBSET CacheKeys :
                   /\ loose' = (loose \ {g}) \cup (IF found = {} THEN {} ELSE {[g EXCEPT !.do = "del", !.found = found]})
                   /\ ~Re!Reused(g) => found = {k \in CacheKeys : k[2] = g.res /\ redis[k] # None}
<1>1. g \in Goroutines /\ faults \in Nat
  BY DEF CacheInv, CacheTypes
<1>2. /\ g.do = "scan" /\ late' = (late \/ Re!Reused(g)) /\ late' \in BOOLEAN
      /\ hit' = None /\ UNCHANGED <<overlap, version, changed, redis, ctx, time, requests>>
  BY DEF Re!Scan, Re!Ran
<1>3. PICK res \in {g.res} \cup (IF Re!Reused(g) THEN {ctx[g.on].request.res} ELSE {}) :
        LET found == {k \in Re!Related(g.user, res) : redis[k] # None}
        IN  \/ /\ loose' = (loose \ {g}) \cup (IF found = {} THEN {} ELSE {[g EXCEPT !.do = "del", !.found = found]})
               /\ UNCHANGED faults
            \/ faults < MaxFaults /\ faults' = faults + 1 /\ loose' = loose \ {g}
  BY ONLY Re!Scan(g) DEF Re!Scan
<1>4. res \in Resources /\ (~Re!Reused(g) => res = g.res)
  BY <1>1 DEF Goroutines, CacheInv, Asked
<1> DEFINE gone == {k \in CacheKeys : k[2] = res /\ redis[k] # None}
<1>5. {k \in Re!Related(g.user, res) : redis[k] # None} = gone
  BY <1>4 DEF Re!Related, CacheKeys
<1>6. gone \in SUBSET CacheKeys /\ (~Re!Reused(g) => gone = {k \in CacheKeys : k[2] = g.res /\ redis[k] # None})
  BY ONLY <1>4
<1>7. \/ loose' = loose \ {g} /\ faults' = faults + 1
      \/ loose' = (loose \ {g}) \cup (IF gone = {} THEN {} ELSE {[g EXCEPT !.do = "del", !.found = gone]}) /\ faults' = faults
  BY ONLY <1>3, <1>5
<1>8. CASE loose' = loose \ {g} /\ faults' = faults + 1
  BY ONLY <1>1, <1>2, <1>8
<1>9. CASE loose' = (loose \ {g}) \cup (IF gone = {} THEN {} ELSE {[g EXCEPT !.do = "del", !.found = gone]}) /\ faults' = faults
  <2> HIDE DEF gone
  <2>1. /\ gone \in SUBSET CacheKeys
        /\ loose' = (loose \ {g}) \cup (IF gone = {} THEN {} ELSE {[g EXCEPT !.do = "del", !.found = gone]})
        /\ ~Re!Reused(g) => gone = {k \in CacheKeys : k[2] = g.res /\ redis[k] # None}
    BY <1>6, <1>9
  <2> QED
    BY ONLY <1>1, <1>2, <1>9, <2>1, Zenon
<1> QED
  BY <1>7, <1>8, <1>9

(* A deletion removes what its scan found, or fails. *)
LEMMA DelShape ==
    ASSUME CacheInv, NEW g \in loose, Re!Del(g)
    PROVE  /\ g.do = "del" /\ loose' = loose \ {g} /\ late' = (late \/ Re!Reused(g)) /\ late' \in BOOLEAN
           /\ hit' = None /\ UNCHANGED <<overlap, version, changed, ctx, time, requests>>
           /\ faults' \in Nat /\ (faults' = 0 => faults = 0)
           /\ redis' \in [CacheKeys -> {None} \cup [body : Bodies, until : Nat]]
           /\ \A k \in CacheKeys : redis'[k] = None \/ redis'[k] = redis[k]
           /\ faults' = 0 => \A k \in CacheKeys : k \in g.found => redis'[k] = None
<1>1. faults \in Nat /\ redis \in [CacheKeys -> {None} \cup [body : Bodies, until : Nat]]
  BY DEF CacheInv, CacheTypes
<1>2. /\ g.do = "del" /\ loose' = loose \ {g} /\ late' = (late \/ Re!Reused(g)) /\ late' \in BOOLEAN
      /\ hit' = None /\ UNCHANGED <<overlap, version, changed, ctx, time, requests>>
  BY DEF Re!Del, Re!Ran
<1>3. \/ redis' = [k \in DOMAIN redis |-> IF k \in g.found THEN None ELSE redis[k]] /\ faults' = faults
      \/ faults' = faults + 1 /\ redis' = redis
  BY ONLY Re!Del(g) DEF Re!Del
<1> QED
  BY ONLY <1>1, <1>2, <1>3

(* A mutation counts up what its resource shows. *)
LEMMA WriteShape ==
    ASSUME CacheInv, NEW c \in Handlers, Re!Write(c)
    PROVE  LET r == ctx[c].request.res
           IN  /\ ctx[c].pc = "write" /\ r \in Resources
               /\ ctx' \in [Handlers -> Turns] /\ \A d \in Handlers \ {c} : ctx'[d] = ctx[d]
               /\ ctx'[c].request = ctx[c].request /\ ctx'[c].pc = "idle"
               /\ version' \in [Resources -> Nat] /\ changed' \in [Resources -> Nat] /\ changed'[r] = time
               /\ \A q \in Resources \ {r} : version'[q] = version[q] /\ changed'[q] = changed[q]
               /\ hit' = None /\ UNCHANGED <<overlap, redis, loose, time, requests, faults, late>>
<1> DEFINE r == ctx[c].request.res
<1>1. /\ ctx \in [Handlers -> Turns] /\ time \in Nat
      /\ version \in [Resources -> Nat] /\ changed \in [Resources -> Nat]
  BY DEF CacheInv, CacheTypes
<1>2. /\ ctx[c].pc = "write" /\ ctx' = [ctx EXCEPT ![c].pc = "idle"]
      /\ version' = [version EXCEPT ![r] = @ + 1] /\ changed' = [changed EXCEPT ![r] = time]
      /\ hit' = None /\ UNCHANGED <<overlap, redis, loose, time, requests, faults, late>>
  BY DEF Re!Write
<1>3. r \in Resources
  BY <1>2 DEF CacheInv, Asked
<1>4. /\ ctx' \in [Handlers -> Turns] /\ \A d \in Handlers \ {c} : ctx'[d] = ctx[d]
      /\ ctx'[c].request = ctx[c].request /\ ctx'[c].pc = "idle"
  BY ONLY <1>1, <1>2, c \in Handlers DEF Turns
<1>5. /\ version' \in [Resources -> Nat] /\ changed' \in [Resources -> Nat] /\ changed'[r] = time
      /\ \A q \in Resources \ {r} : version'[q] = version[q] /\ changed'[q] = changed[q]
  BY ONLY <1>1, <1>2, <1>3
<1> QED
  BY ONLY <1>2, <1>3, <1>4, <1>5

(* Whoever wants to can have a resource's entries deleted. *)
LEMMA InvalidateShape ==
    ASSUME CacheInv, NEW r \in Resources, Re!InvalidateCache(r)
    PROVE  /\ loose = {} /\ hit' = None
           /\ UNCHANGED <<overlap, version, changed, ctx, loose, time, requests, faults, late>>
           /\ redis' \in [CacheKeys -> {None} \cup [body : Bodies, until : Nat]]
           /\ \A k \in CacheKeys : redis'[k] = None \/ redis'[k] = redis[k]
<1>1. redis \in [CacheKeys -> {None} \cup [body : Bodies, until : Nat]]
  BY DEF CacheInv, CacheTypes
<1>2. /\ loose = {} /\ hit' = None /\ redis' = [k \in DOMAIN redis |-> IF k[2] = r THEN None ELSE redis[k]]
      /\ UNCHANGED <<overlap, version, changed, ctx, loose, time, requests, faults, late>>
  BY DEF Re!InvalidateCache
<1> QED
  BY ONLY <1>1, <1>2

(* Types. *)
LEMMA CacheTyped == CacheInv /\ [Re!Next]_(Re!web) => (CacheTypes /\ Asked)'
<1> DEFINE Inv == CacheTypes /\ Asked
<1> SUFFICES ASSUME CacheInv, [Re!Next]_(Re!web) PROVE Inv'
  OBVIOUS
<1>0. Inv
  BY DEF CacheInv
<1>a. \A g \in loose : g \in Goroutines /\ g.on \in Handlers
  BY <1>0 DEF CacheTypes, Goroutines
<1>1. ASSUME NEW c \in Handlers, NEW u \in Users, NEW r \in Resources, Re!Get(c, u, r) PROVE Inv'
  <2>1. Re!Begin(c, "lookup", u, r) /\ loose' = loose
    BY <1>1 DEF Re!Get
  <2> QED
    <3>1. /\ ctx' \in [Handlers -> Turns] /\ requests' \in Nat /\ ctx'[c].request.user = u /\ ctx'[c].request.res = r
          /\ \A d \in Handlers \ {c} : ctx'[d] = ctx[d]
          /\ UNCHANGED <<version, changed, redis, time, faults, late>>
      BY ONLY <2>1, "lookup" \in {"lookup", "write"}, "write" \in {"lookup", "write"}, CacheInv, c \in Handlers, u \in Users, r \in Resources, BeginShape
    <3> QED
      BY ONLY <1>0, <1>a, <2>1, <3>1, u \in Users, r \in Resources DEF CacheTypes, Asked
<1>2. ASSUME NEW c \in Handlers, NEW u \in Users, NEW r \in Resources, Re!Mutate(c, u, r) PROVE Inv'
  <2>1. PICK new \in Goroutines : Re!Begin(c, "write", u, r) /\ loose' = loose \cup {new} /\ new.on = c
    BY ONLY <1>2, CacheInv, c \in Handlers, u \in Users, r \in Resources, MutateShape
  <2> QED
    <3>1. /\ ctx' \in [Handlers -> Turns] /\ requests' \in Nat /\ ctx'[c].request.user = u /\ ctx'[c].request.res = r
          /\ \A d \in Handlers \ {c} : ctx'[d] = ctx[d]
          /\ UNCHANGED <<version, changed, redis, time, faults, late>>
      BY ONLY <2>1, "lookup" \in {"lookup", "write"}, "write" \in {"lookup", "write"}, CacheInv, c \in Handlers, u \in Users, r \in Resources, BeginShape
    <3> QED
      BY ONLY <1>0, <1>a, <2>1, <3>1, u \in Users, r \in Resources DEF CacheTypes, Asked
<1>3. ASSUME NEW c \in Handlers, Re!Lookup(c) PROVE Inv'
  BY ONLY <1>0, <1>a, <1>3, CacheInv, c \in Handlers, LookupShape DEF CacheTypes, Asked
<1>4. ASSUME NEW c \in Handlers, Re!Read(c) PROVE Inv'
  BY ONLY <1>0, <1>a, <1>4, CacheInv, c \in Handlers, ReadShape DEF CacheTypes, Asked
<1>5. ASSUME NEW c \in Handlers, Re!Write(c) PROVE Inv'
  BY ONLY <1>0, <1>a, <1>5, CacheInv, c \in Handlers, WriteShape DEF CacheTypes, Asked
<1>6. ASSUME NEW g \in loose, Re!Store(g) PROVE Inv'
  BY ONLY <1>0, <1>6, CacheInv, g \in loose, StoreShape DEF CacheTypes, Asked
<1>7. ASSUME NEW g \in loose, Re!Scan(g) PROVE Inv'
  <2>1. ASSUME NEW found \in SUBSET CacheKeys
        PROVE  /\ [g EXCEPT !.do = "del", !.found = found] \in Goroutines
               /\ [g EXCEPT !.do = "del", !.found = found].on = g.on
    BY <1>a DEF Goroutines
  <2>2. loose' \subseteq Goroutines /\ \A n \in loose' : \E m \in loose : n.on = m.on
    <3>1. CASE loose' = loose \ {g}
      BY ONLY <1>a, <3>1
    <3>2. CASE \E found \in SUBSET CacheKeys :
                 loose' = (loose \ {g}) \cup (IF found = {} THEN {} ELSE {[g EXCEPT !.do = "del", !.found = found]})
      <4>1. PICK found \in SUBSET CacheKeys :
              loose' = (loose \ {g}) \cup (IF found = {} THEN {} ELSE {[g EXCEPT !.do = "del", !.found = found]})
        BY <3>2
      <4> DEFINE del == [g EXCEPT !.do = "del", !.found = found]
      <4>2. del \in Goroutines /\ del.on = g.on /\ (loose' = loose \ {g} \/ loose' = (loose \ {g}) \cup {del})
        BY <2>1, <4>1
      <4> HIDE DEF del
      <4> QED
        BY ONLY <1>a, <4>2, g \in loose
    <3> QED
      BY ONLY <1>7, <3>1, <3>2, CacheInv, g \in loose, ScanShape
  <2> QED
    BY ONLY <1>0, <1>7, <2>2, CacheInv, g \in loose, ScanShape DEF CacheTypes, Asked
<1>8. ASSUME NEW g \in loose, Re!Del(g) PROVE Inv'
  BY ONLY <1>0, <1>8, CacheInv, g \in loose, DelShape DEF CacheTypes, Asked
<1>9. ASSUME NEW r \in Resources, Re!InvalidateCache(r) PROVE Inv'
  BY ONLY <1>0, <1>9, CacheInv, r \in Resources, InvalidateShape DEF CacheTypes, Asked
<1>10. CASE Re!Tick
  BY <1>0, <1>10 DEF Re!Tick, CacheTypes, Asked
<1>11. CASE UNCHANGED Re!web
  BY <1>0, <1>11 DEF Re!web, CacheTypes, Asked
<1> QED
  BY <1>1, <1>2, <1>3, <1>4, <1>5, <1>6, <1>7, <1>8, <1>9, <1>10, <1>11 DEF Re!Next

(* What is stored and what is about to be. *)
LEMMA CacheEntries ==
    CacheInv /\ [Re!Next]_(Re!web) => ((\A k \in CacheKeys : EntryInv(k)) /\ \A g \in loose : StoreInv(g))'
<1> DEFINE Inv == (\A k \in CacheKeys : EntryInv(k)) /\ \A g \in loose : StoreInv(g)
<1> SUFFICES ASSUME CacheInv, [Re!Next]_(Re!web) PROVE Inv'
  OBVIOUS
<1>0. Inv /\ CacheTypes
  BY DEF CacheInv
<1>a. \A g \in loose : g \in Goroutines
  BY <1>0 DEF CacheTypes
<1>b. /\ \A b \in Bodies : b.res \in Resources /\ b.at \in Nat /\ b.version \in Nat
      /\ \A k \in CacheKeys : redis[k] # None => redis[k].body \in Bodies /\ redis[k].until \in Nat
  BY <1>0 DEF CacheTypes, Bodies
<1>c. time \in Nat /\ ResponseTTL \in Nat
  BY <1>0, TtlGiven DEF CacheTypes
<1>d. ASSUME UNCHANGED <<version, changed, time>> PROVE \A b \in Bodies : WasTrue(b)' = WasTrue(b)
  BY ONLY <1>d DEF WasTrue
<1>1. ASSUME UNCHANGED <<version, changed, redis, time, late>>, \A g \in loose' : g \in loose \/ StoreInv(g)' PROVE Inv'
  BY ONLY <1>0, <1>1, <1>d DEF EntryInv, StoreInv, WasTrue
<1>2. ASSUME UNCHANGED <<version, changed, time>>, late' = FALSE => late = FALSE, late \in BOOLEAN, late' \in BOOLEAN,
             \A k \in CacheKeys : redis'[k] = None \/ redis'[k] = redis[k], loose' \subseteq loose
      PROVE  Inv'
  BY ONLY <1>0, <1>2, <1>d DEF EntryInv, StoreInv, WasTrue
<1>3. ASSUME NEW c \in Handlers, NEW u \in Users, NEW r \in Resources, Re!Get(c, u, r) PROVE Inv'
  <2>1. Re!Begin(c, "lookup", u, r) /\ loose' = loose
    BY <1>3 DEF Re!Get
  <2> QED
    BY ONLY <1>1, <2>1 DEF Re!Begin
<1>4. ASSUME NEW c \in Handlers, NEW u \in Users, NEW r \in Resources, Re!Mutate(c, u, r) PROVE Inv'
  <2>1. PICK new \in Goroutines : Re!Begin(c, "write", u, r) /\ loose' = loose \cup {new} /\ new.do = "scan"
    BY ONLY <1>4, CacheInv, c \in Handlers, u \in Users, r \in Resources, MutateShape
  <2>2. StoreInv(new)'
    BY ONLY <2>1 DEF StoreInv
  <2> QED
    BY ONLY <1>1, <2>1, <2>2 DEF Re!Begin
<1>5. ASSUME NEW c \in Handlers, Re!Lookup(c) PROVE Inv'
  BY ONLY <1>1, <1>5 DEF Re!Lookup
<1>6. ASSUME NEW c \in Handlers, Re!Read(c) PROVE Inv'
  <2>1. PICK new \in Goroutines :
          /\ loose' = loose \/ loose' = loose \cup {new}
          /\ new.body \in Bodies /\ new.body.user = new.user /\ new.body.res = new.res
          /\ new.body.version = version[new.res] /\ new.body.at = time
          /\ UNCHANGED <<version, changed, redis, time, late>>
    BY ONLY <1>6, CacheInv, c \in Handlers, ReadShape
  <2>2. StoreInv(new)'
    BY ONLY <1>c, <2>1 DEF StoreInv, WasTrue
  <2> QED
    BY ONLY <1>1, <2>1, <2>2
<1>7. ASSUME NEW c \in Handlers, Re!Write(c) PROVE Inv'
  <2> DEFINE r == ctx[c].request.res
  <2>1. /\ r \in Resources /\ changed'[r] = time
        /\ \A q \in Resources \ {r} : version'[q] = version[q] /\ changed'[q] = changed[q]
        /\ UNCHANGED <<redis, loose, time, late>>
    BY ONLY <1>7, CacheInv, c \in Handlers, WriteShape
  <2>2. \A b \in Bodies : WasTrue(b) => WasTrue(b)'
    BY ONLY <1>b, <1>c, <2>1 DEF WasTrue
  <2> QED
    BY ONLY <1>0, <1>b, <2>1, <2>2 DEF EntryInv, StoreInv
<1>8. ASSUME NEW g \in loose, Re!Store(g) PROVE Inv'
  <2>1. /\ g.do = "store" /\ loose' = loose \ {g} /\ late' = (late \/ Re!Reused(g))
        /\ UNCHANGED <<version, changed, time>>
    BY ONLY <1>8, CacheInv, g \in loose, StoreShape
  <2>2. ASSUME NEW k \in CacheKeys PROVE EntryInv(k)'
    <3>1. CASE redis'[k] = redis[k]
      BY ONLY <1>0, <1>b, <1>d, <2>1, <3>1, k \in CacheKeys DEF EntryInv
    <3>2. CASE /\ k[1] = g.user /\ k[2] = g.res
               /\ \E b \in Bodies : /\ redis'[k] = [body |-> b, until |-> time + ResponseTTL]
                                    /\ ~Re!Reused(g) => b = g.body
      <4>1. PICK b \in Bodies : /\ redis'[k] = [body |-> b, until |-> time + ResponseTTL]
                                /\ ~Re!Reused(g) => b = g.body
        BY <3>2
      <4>2. redis'[k].body = b /\ redis'[k].until = time + ResponseTTL /\ (~late' => b = g.body)
        <5>1. redis'[k].body = b /\ redis'[k].until = time + ResponseTTL
          BY ONLY <4>1
        <5>2. ~late' => b = g.body
          BY ONLY <4>1, <2>1, Zenon
        <5> QED
          BY <5>1, <5>2
      <4>3. /\ g.body \in Bodies /\ WasTrue(g.body)' /\ g.body.at = time /\ g.body.user = g.user /\ g.body.res = g.res
        BY <1>0, <1>d, <2>1 DEF StoreInv
      <4> QED
        <5>1. redis'[k].until <= time' + ResponseTTL
          BY ONLY <1>c, <2>1, <4>2
        <5>2. ~late' => /\ redis'[k].body = g.body /\ redis'[k].until <= redis'[k].body.at + ResponseTTL
                        /\ redis'[k].body.user = k[1] /\ redis'[k].body.res = k[2]
          BY ONLY <1>c, <3>2, <4>2, <4>3
        <5>3. ~late' => WasTrue(redis[k].body)'
          BY ONLY <4>3, <5>2 DEF WasTrue
        <5> QED
          BY ONLY <5>1, <5>2, <5>3 DEF EntryInv
    <3> QED
      BY ONLY <1>8, <3>1, <3>2, CacheInv, g \in loose, k \in CacheKeys, StoreShape
  <2>3. \A n \in loose' : StoreInv(n)'
    BY ONLY <1>0, <1>d, <2>1 DEF StoreInv
  <2> QED
    BY <2>2, <2>3
<1>9. ASSUME NEW g \in loose, Re!Scan(g) PROVE Inv'
  <2>1. \A n \in loose' : n \in loose \/ n.do # "store"
    <3>1. ASSUME NEW found \in SUBSET CacheKeys PROVE [g EXCEPT !.do = "del", !.found = found].do # "store"
      BY <1>a DEF Goroutines
    <3> QED
      BY ONLY <1>9, <3>1, CacheInv, g \in loose, ScanShape
  <2>2. late' = (late \/ Re!Reused(g)) /\ UNCHANGED <<version, changed, redis, time>>
    BY ONLY <1>9, CacheInv, g \in loose, ScanShape
  <2> QED
    BY ONLY <1>0, <1>b, <1>d, <2>1, <2>2 DEF EntryInv, StoreInv
<1>10. ASSUME NEW g \in loose, Re!Del(g) PROVE Inv'
  BY ONLY <1>0, <1>2, <1>10, CacheInv, g \in loose, DelShape DEF CacheTypes
<1>11. ASSUME NEW r \in Resources, Re!InvalidateCache(r) PROVE Inv'
  BY ONLY <1>0, <1>2, <1>11, CacheInv, r \in Resources, InvalidateShape DEF CacheTypes
<1>12. CASE Re!Tick
  <2>1. time' = time + 1 /\ loose' = {} /\ UNCHANGED <<version, changed, redis, late>>
    BY <1>12 DEF Re!Tick
  <2>2. \A b \in Bodies : WasTrue(b) => WasTrue(b)'
    BY ONLY <1>b, <1>c, <2>1 DEF WasTrue
  <2> QED
    BY ONLY <1>0, <1>b, <1>c, <2>1, <2>2 DEF EntryInv
<1>13. CASE UNCHANGED Re!web
  BY ONLY <1>1, <1>13 DEF Re!web
<1> QED
  BY <1>3, <1>4, <1>5, <1>6, <1>7, <1>8, <1>9, <1>10, <1>11, <1>12, <1>13 DEF Re!Next

(* Requests and goroutines go on taking turns. *)
LEMMA CacheTurns == CacheInv /\ [Re!Next]_(Re!web) => TakeTurns'
<1> SUFFICES ASSUME CacheInv, [Re!Next]_(Re!web), ~overlap' PROVE TakeTurns'
  BY DEF TakeTurns
<1>0. ~overlap /\ TakeTurns
  <2>1. overlap' = overlap
    BY ONLY [Re!Next]_(Re!web), ZenonT(60) DEF Re!Next, Re!web, Re!Get, Re!Mutate, Re!Begin, Re!Lookup, Re!Read, Re!Write, Re!Store,
       Re!Scan, Re!Del, Re!Ran, Re!InvalidateCache, Re!Tick
  <2> QED
    BY <2>1, SMTT(30) DEF CacheInv
<1>1. /\ \A c, d \in Handlers : ctx[c].pc # "idle" /\ ctx[d].pc # "idle" => c = d
      /\ \A c \in Handlers : ctx[c].pc \in {"lookup", "read"} => loose = {}
      /\ \A g \in loose : ~Re!Reused(g) /\ (g.do = "store" => \A c \in Handlers : ctx[c].pc = "idle")
  BY <1>0 DEF TakeTurns
<1>2. \A g \in loose : g \in Goroutines
  BY DEF CacheInv, CacheTypes
<1>3. ASSUME NEW c \in Handlers, NEW u \in Users, NEW r \in Resources, Re!Get(c, u, r) PROVE TakeTurns'
  <2>1. Re!Begin(c, "lookup", u, r) /\ loose' = loose
    BY <1>3 DEF Re!Get
  <2>2. /\ loose = {} /\ \A d \in Handlers : ctx[d].pc = "idle"
        /\ \A d \in Handlers \ {c} : ctx'[d] = ctx[d]
    BY ONLY <1>0, <2>1, "lookup" \in {"lookup", "write"}, CacheInv, c \in Handlers, u \in Users, r \in Resources, BeginShape
  <2> QED
    BY ONLY <2>1, <2>2 DEF TakeTurns
<1>4. ASSUME NEW c \in Handlers, NEW u \in Users, NEW r \in Resources, Re!Mutate(c, u, r) PROVE TakeTurns'
  <2>1. PICK new \in Goroutines :
          /\ Re!Begin(c, "write", u, r) /\ loose' = loose \cup {new}
          /\ new.do = "scan" /\ new.on = c /\ new.id = requests + 1
    BY ONLY <1>4, CacheInv, c \in Handlers, u \in Users, r \in Resources, MutateShape
  <2>2. /\ loose = {} /\ \A d \in Handlers : ctx[d].pc = "idle"
        /\ \A d \in Handlers \ {c} : ctx'[d] = ctx[d]
        /\ ctx'[c].pc = "write" /\ ctx'[c].request.id = requests + 1
    BY ONLY <1>0, <2>1, "write" \in {"lookup", "write"}, CacheInv, c \in Handlers, u \in Users, r \in Resources, BeginShape
  <2>3. ~Re!Reused(new)'
    BY ONLY <2>1, <2>2 DEF Re!Reused
  <2> QED
    BY ONLY <2>1, <2>2, <2>3 DEF TakeTurns
<1>5. ASSUME NEW c \in Handlers, Re!Lookup(c) PROVE TakeTurns'
  <2>1. /\ ctx[c].pc = "lookup" /\ \A d \in Handlers \ {c} : ctx'[d] = ctx[d]
        /\ ctx'[c].pc \in {"idle", "read"} /\ loose' = loose
    BY ONLY <1>5, CacheInv, c \in Handlers, LookupShape
  <2>2. loose = {} /\ \A d \in Handlers \ {c} : ctx'[d].pc = "idle"
    BY ONLY <1>1, <2>1, c \in Handlers
  <2> QED
    BY ONLY <2>1, <2>2 DEF TakeTurns
<1>6. ASSUME NEW c \in Handlers, Re!Read(c) PROVE TakeTurns'
  <2>1. PICK new \in Goroutines :
          /\ ctx[c].pc = "read" /\ \A d \in Handlers \ {c} : ctx'[d] = ctx[d]
          /\ ctx'[c].request = ctx[c].request /\ ctx'[c].pc = "idle"
          /\ loose' = loose \/ loose' = loose \cup {new}
          /\ new.on = c /\ new.id = ctx[c].request.id
    BY ONLY <1>6, CacheInv, c \in Handlers, ReadShape
  <2>2. loose = {} /\ \A d \in Handlers : ctx'[d].pc = "idle"
    BY ONLY <1>1, <2>1, c \in Handlers
  <2>3. ~Re!Reused(new)'
    BY ONLY <2>1 DEF Re!Reused
  <2> QED
    BY ONLY <2>1, <2>2, <2>3 DEF TakeTurns
<1>7. ASSUME NEW c \in Handlers, Re!Write(c) PROVE TakeTurns'
  <2>1. /\ ctx[c].pc = "write" /\ \A d \in Handlers \ {c} : ctx'[d] = ctx[d]
        /\ ctx'[c].request = ctx[c].request /\ ctx'[c].pc = "idle" /\ loose' = loose
    BY ONLY <1>7, CacheInv, c \in Handlers, WriteShape
  <2>2. \A d \in Handlers : ctx'[d].pc = "idle" /\ ctx'[d].request = ctx[d].request
    BY ONLY <1>1, <2>1, c \in Handlers
  <2>3. \A g \in loose : ~Re!Reused(g)' /\ g.on \in Handlers
    BY ONLY <1>1, <1>2, <2>2 DEF Re!Reused, Goroutines
  <2> QED
    BY ONLY <2>1, <2>2, <2>3 DEF TakeTurns
<1>8. ASSUME ctx' = ctx, loose' \subseteq loose PROVE TakeTurns'
  BY ONLY <1>1, <1>8 DEF TakeTurns, Re!Reused
<1>9. ASSUME NEW g \in loose, Re!Store(g) PROVE TakeTurns'
  BY ONLY <1>8, <1>9, CacheInv, g \in loose, StoreShape
<1>10. ASSUME NEW g \in loose, Re!Scan(g) PROVE TakeTurns'
  <2>1. g \in Goroutines /\ g.do = "scan" /\ ctx' = ctx
    BY ONLY <1>2, <1>10, CacheInv, g \in loose, ScanShape
  <2>2. CASE loose' = loose \ {g}
    BY ONLY <1>8, <2>1, <2>2
  <2>3. CASE \E found \in SUBSET CacheKeys :
               loose' = (loose \ {g}) \cup (IF found = {} THEN {} ELSE {[g EXCEPT !.do = "del", !.found = found]})
    <3>0. PICK found \in SUBSET CacheKeys :
            loose' = (loose \ {g}) \cup (IF found = {} THEN {} ELSE {[g EXCEPT !.do = "del", !.found = found]})
      BY <2>3
    <3>1. PICK n \in Goroutines : loose' \subseteq (loose \ {g}) \cup {n} /\ n.do = "del" /\ n.on = g.on /\ n.id = g.id
      <4> DEFINE del == [g EXCEPT !.do = "del", !.found = found]
      <4>1. del \in Goroutines /\ del.do = "del" /\ del.on = g.on /\ del.id = g.id
        BY ONLY <2>1, found \in SUBSET CacheKeys, DelRecord, Zenon
      <4>2. loose' \subseteq (loose \ {g}) \cup {del}
        BY ONLY <3>0
      <4> HIDE DEF del
      <4> QED
        BY ONLY <4>1, <4>2
    <3>2. ~Re!Reused(n)'
      BY ONLY <1>1, <2>1, <3>1, g \in loose DEF Re!Reused
    <3>3. \A m \in loose : ~Re!Reused(m)'
      BY ONLY <1>1, <2>1 DEF Re!Reused
    <3>4. \A c \in Handlers : ctx'[c].pc \notin {"lookup", "read"}
      BY ONLY <1>1, <2>1, g \in loose
    <3>5. \A m \in loose' : m \in loose \/ m = n
      BY ONLY <3>1
    <3>6. \A m \in loose' : ~Re!Reused(m)' /\ (m.do = "store" => \A c \in Handlers : ctx'[c].pc = "idle")
      BY ONLY <1>1, <2>1, <3>1, <3>2, <3>3, <3>5
    <3> QED
      BY ONLY <1>1, <2>1, <3>4, <3>6 DEF TakeTurns
  <2> QED
    BY ONLY <1>10, <2>2, <2>3, CacheInv, g \in loose, ScanShape
<1>11. ASSUME NEW g \in loose, Re!Del(g) PROVE TakeTurns'
  BY ONLY <1>8, <1>11, CacheInv, g \in loose, DelShape
<1>12. ASSUME NEW r \in Resources, Re!InvalidateCache(r) PROVE TakeTurns'
  BY ONLY <1>8, <1>12, CacheInv, r \in Resources, InvalidateShape
<1>13. CASE Re!Tick \/ UNCHANGED Re!web
  BY ONLY <1>8, <1>13 DEF Re!web, Re!Tick
<1> QED
  BY <1>3, <1>4, <1>5, <1>6, <1>7, <1>9, <1>10, <1>11, <1>12, <1>13 DEF Re!Next

(* What is cached stays current or doomed. *)
LEMMA CacheCurrent == CacheInv /\ [Re!Next]_(Re!web) => Current'
<1> SUFFICES ASSUME CacheInv, [Re!Next]_(Re!web), ~overlap', faults' = 0 PROVE Current'
  BY DEF Current
<1>0. ~overlap /\ faults = 0
  <2>1. overlap' = overlap /\ (faults' = faults \/ faults' = faults + 1)
    BY ONLY [Re!Next]_(Re!web), ZenonT(60) DEF Re!Next, Re!web, Re!Get, Re!Mutate, Re!Begin, Re!Lookup, Re!Read, Re!Write, Re!Store,
       Re!Scan, Re!Del, Re!Ran, Re!InvalidateCache, Re!Tick
  <2>2. faults \in Nat
    BY DEF CacheInv, CacheTypes
  <2> QED
    BY ONLY <2>1, <2>2, ~overlap', faults' = 0
<1>1. /\ \A c, d \in Handlers : ctx[c].pc # "idle" /\ ctx[d].pc # "idle" => c = d
      /\ \A c \in Handlers : ctx[c].pc \in {"lookup", "read"} => loose = {}
      /\ \A g \in loose : ~Re!Reused(g) /\ (g.do = "store" => \A c \in Handlers : ctx[c].pc = "idle")
  BY <1>0 DEF CacheInv, TakeTurns
<1>2. /\ \A k \in CacheKeys : redis[k] # None /\ ~Doomed(k) =>
           /\ redis[k].body.version = version[k[2]]
           /\ \A c \in Handlers : ctx[c].pc = "write" => ctx[c].request.res # k[2]
      /\ \A g \in loose : g.do = "store" => g.body.version = version[g.res]
  BY <1>0 DEF CacheInv, Current
<1>a. /\ \A g \in loose : g \in Goroutines
      /\ \A k \in CacheKeys : k[2] \in Resources
  BY DEF CacheInv, CacheTypes, CacheKeys
<1>b. ASSUME NEW c \in Handlers, ctx'[c].pc # "write", \A d \in Handlers \ {c} : ctx'[d] = ctx[d],
             UNCHANGED <<redis, version, loose>>
      PROVE  Current'
  BY ONLY <1>2, <1>b DEF Current, Doomed
<1>3. ASSUME NEW c \in Handlers, NEW u \in Users, NEW r \in Resources, Re!Get(c, u, r) PROVE Current'
  <2>1. Re!Begin(c, "lookup", u, r) /\ loose' = loose
    BY <1>3 DEF Re!Get
  <2>2. /\ ctx'[c].pc = "lookup" /\ \A d \in Handlers \ {c} : ctx'[d] = ctx[d]
        /\ UNCHANGED <<redis, version>>
    BY ONLY <2>1, "lookup" \in {"lookup", "write"}, CacheInv, c \in Handlers, u \in Users, r \in Resources, BeginShape
  <2> QED
    BY ONLY <1>b, <2>1, <2>2, c \in Handlers
<1>4. ASSUME NEW c \in Handlers, NEW u \in Users, NEW r \in Resources, Re!Mutate(c, u, r) PROVE Current'
  <2>1. PICK new \in Goroutines :
          Re!Begin(c, "write", u, r) /\ loose' = loose \cup {new} /\ new.do = "scan" /\ new.res = r
    BY ONLY <1>4, CacheInv, c \in Handlers, u \in Users, r \in Resources, MutateShape
  <2>2. /\ loose = {} /\ \A d \in Handlers : ctx[d].pc = "idle"
        /\ \A d \in Handlers \ {c} : ctx'[d] = ctx[d]
        /\ ctx'[c].request.res = r /\ UNCHANGED <<redis, version>>
    BY ONLY <1>0, <2>1, "write" \in {"lookup", "write"}, CacheInv, c \in Handlers, u \in Users, r \in Resources, BeginShape
  <2>3. \A k \in CacheKeys : ~Doomed(k) /\ (~Doomed(k)' => k[2] # r)
    BY ONLY <2>1, <2>2 DEF Doomed
  <2> QED
    BY ONLY <1>2, <2>1, <2>2, <2>3 DEF Current
<1>5. ASSUME NEW c \in Handlers, Re!Lookup(c) PROVE Current'
  <2>1. /\ \A d \in Handlers \ {c} : ctx'[d] = ctx[d]
        /\ ctx'[c].pc \in {"idle", "read"} /\ UNCHANGED <<redis, version, loose>>
    BY ONLY <1>5, CacheInv, c \in Handlers, LookupShape
  <2> QED
    BY ONLY <1>b, <2>1, c \in Handlers
<1>6. ASSUME NEW c \in Handlers, Re!Read(c) PROVE Current'
  <2>1. PICK new \in Goroutines :
          /\ ctx[c].pc = "read" /\ \A d \in Handlers \ {c} : ctx'[d] = ctx[d]
          /\ ctx'[c].pc = "idle" /\ (loose' = loose \/ loose' = loose \cup {new})
          /\ new.do = "store" /\ new.body.version = version[new.res] /\ UNCHANGED <<version, redis>>
    BY ONLY <1>6, CacheInv, c \in Handlers, ReadShape
  <2>2. ctx'[c].pc = "idle" /\ (loose' = loose \/ loose' = loose \cup {new}) /\ UNCHANGED <<version, redis>>
    BY ONLY <1>6, <2>1, CacheInv, c \in Handlers, ReadShape
  <2>3. loose = {} /\ \A k \in CacheKeys : ~Doomed(k)
    BY ONLY <1>1, <2>1, c \in Handlers DEF Doomed
  <2> QED
    BY ONLY <1>2, <2>1, <2>2, <2>3 DEF Current
<1>7. ASSUME NEW c \in Handlers, Re!Write(c) PROVE Current'
  <2> DEFINE r == ctx[c].request.res
  <2>1. /\ ctx[c].pc = "write" /\ r \in Resources /\ \A d \in Handlers \ {c} : ctx'[d] = ctx[d]
        /\ ctx'[c].pc = "idle" /\ \A q \in Resources \ {r} : version'[q] = version[q]
        /\ UNCHANGED <<redis, loose>>
    BY ONLY <1>7, CacheInv, c \in Handlers, WriteShape
  <2>2. \A g \in loose : g.do # "store"
    BY ONLY <1>1, <2>1, c \in Handlers
  <2>3. \A k \in CacheKeys : redis[k] # None /\ ~Doomed(k) => version'[k[2]] = version[k[2]]
    BY ONLY <1>a, <1>2, <2>1, c \in Handlers
  <2>4. \A k \in CacheKeys : Doomed(k)' = Doomed(k)
    BY ONLY <2>1 DEF Doomed
  <2> QED
    BY ONLY <1>2, <2>1, <2>2, <2>3, <2>4, c \in Handlers DEF Current
<1>8. ASSUME NEW g \in loose, Re!Store(g) PROVE Current'
  <2>1. g.do = "store" /\ loose' = loose \ {g} /\ UNCHANGED <<version, ctx>>
    BY ONLY <1>8, CacheInv, g \in loose, StoreShape
  <2>2. ASSUME NEW k \in CacheKeys, redis'[k] # None, ~Doomed(k)' PROVE redis'[k].body.version = version[k[2]]
    <3>1. CASE redis'[k] = redis[k]
      <4>1. ~Doomed(k)
        BY ONLY <2>1, <2>2 DEF Doomed
      <4> QED
        BY ONLY <1>2, <2>2, <3>1, <4>1, k \in CacheKeys
    <3>2. CASE /\ k[1] = g.user /\ k[2] = g.res
               /\ \E b \in Bodies : /\ redis'[k] = [body |-> b, until |-> time + ResponseTTL]
                                    /\ ~Re!Reused(g) => b = g.body
      <4>1. redis'[k].body = g.body
        BY ONLY <1>1, <3>2, g \in loose
      <4> QED
        BY ONLY <1>2, <2>1, <3>2, <4>1, g \in loose
    <3> QED
      BY ONLY <1>8, <3>1, <3>2, CacheInv, g \in loose, k \in CacheKeys, StoreShape
  <2>3. \A c \in Handlers : ctx'[c].pc = "idle"
    BY ONLY <1>1, <2>1, g \in loose
  <2> QED
    BY ONLY <1>2, <2>1, <2>2, <2>3 DEF Current
<1>9. ASSUME NEW g \in loose, Re!Scan(g) PROVE Current'
  <2>1. /\ g \in Goroutines /\ g.do = "scan" /\ ~Re!Reused(g) /\ UNCHANGED <<redis, version, ctx>>
        /\ faults' # faults + 1
    <3>1. g.do = "scan" /\ UNCHANGED <<redis, version, ctx>>
      BY ONLY <1>9, CacheInv, g \in loose, ScanShape
    <3>2. faults' # faults + 1
      BY <1>0
    <3> QED
      BY ONLY <1>1, <1>a, <3>1, <3>2, g \in loose
  <2>2. PICK found \in SUBSET CacheKeys :
          /\ loose' = (loose \ {g}) \cup (IF found = {} THEN {} ELSE {[g EXCEPT !.do = "del", !.found = found]})
          /\ found = {k \in CacheKeys : k[2] = g.res /\ redis[k] # None}
    BY ONLY <1>9, <2>1, CacheInv, g \in loose, ScanShape, Zenon
  <2> DEFINE del == [g EXCEPT !.do = "del", !.found = found]
  <2>3. del.do = "del" /\ del.found = found /\ del.res = g.res
    BY ONLY <2>1, found \in SUBSET CacheKeys, DelRecord, Zenon
  <2>4. loose' = (loose \ {g}) \cup (IF found = {} THEN {} ELSE {del})
    BY ONLY <2>2
  <2> HIDE DEF del
  <2>5. ASSUME NEW k \in CacheKeys, redis[k] # None, Doomed(k) PROVE Doomed(k)'
    <3>1. PICK n \in loose : n.res = k[2] /\ (n.do = "scan" \/ (n.do = "del" /\ k \in n.found))
      BY <2>5 DEF Doomed
    <3>2. CASE n # g
      BY ONLY <2>4, <3>1, <3>2 DEF Doomed
    <3>3. CASE n = g
      <4>1. k \in found
        BY ONLY <2>2, <2>5, <3>1, <3>3, k \in CacheKeys
      <4>2. del \in loose'
        BY ONLY <2>4, <4>1
      <4>3. del.res = k[2] /\ del.do = "del" /\ k \in del.found
        BY ONLY <2>3, <3>1, <3>3, <4>1
      <4> QED
        BY ONLY <4>2, <4>3 DEF Doomed
    <3> QED
      BY <3>2, <3>3
  <2>6. \A n \in loose' : n \in loose \/ n.do # "store"
    BY ONLY <2>3, <2>4
  <2> QED
    BY ONLY <1>2, <2>1, <2>5, <2>6 DEF Current
<1>10. ASSUME NEW g \in loose, Re!Del(g) PROVE Current'
  <2>1. /\ g.do = "del" /\ loose' = loose \ {g} /\ UNCHANGED <<version, ctx>>
        /\ \A k \in CacheKeys : (redis'[k] = None \/ redis'[k] = redis[k]) /\ (k \in g.found => redis'[k] = None)
    BY ONLY <1>10, CacheInv, g \in loose, faults' = 0, DelShape
  <2>2. \A k \in CacheKeys : redis'[k] # None /\ Doomed(k) => Doomed(k)'
    BY ONLY <2>1 DEF Doomed
  <2> QED
    BY ONLY <1>2, <2>1, <2>2 DEF Current
<1>11. ASSUME NEW r \in Resources, Re!InvalidateCache(r) PROVE Current'
  <2>1. /\ UNCHANGED <<version, ctx, loose>> /\ \A k \in CacheKeys : redis'[k] = None \/ redis'[k] = redis[k]
    BY ONLY <1>11, CacheInv, r \in Resources, InvalidateShape
  <2> QED
    BY ONLY <1>2, <2>1 DEF Current, Doomed
<1>12. CASE Re!Tick \/ UNCHANGED Re!web
  BY ONLY <1>2, <1>12 DEF Re!web, Re!Tick, Current, Doomed
<1> QED
  BY <1>3, <1>4, <1>5, <1>6, <1>7, <1>8, <1>9, <1>10, <1>11, <1>12 DEF Re!Next

(* What the cache serves. *)
LEMMA CacheHits ==
    CacheInv /\ [Re!Next]_(Re!web) => (Re!SerialHitIsCurrent /\ Re!StaleWithinTTL /\ Re!AnswersArePrivate)'
<1> DEFINE Sound == Re!SerialHitIsCurrent /\ Re!StaleWithinTTL /\ Re!AnswersArePrivate
<1> SUFFICES ASSUME CacheInv, [Re!Next]_(Re!web) PROVE Sound'
  OBVIOUS
<1>1. CASE hit' = None
  BY ONLY <1>1 DEF Re!SerialHitIsCurrent, Re!StaleWithinTTL, Re!AnswersArePrivate
<1>2. CASE UNCHANGED Re!web
  BY <1>2 DEF Re!web, CacheInv, Re!SerialHitIsCurrent, Re!StaleWithinTTL, Re!AnswersArePrivate
<1>3. ASSUME NEW c \in Handlers, Re!Lookup(c), hit' # None PROVE Sound'
  <2> DEFINE k == <<ctx[c].request.user, ctx[c].request.res>>
             b == redis[k].body
  <2>1. /\ ctx[c].pc = "lookup" /\ k \in CacheKeys
        /\ faults' = 0 => faults = 0
        /\ UNCHANGED <<overlap, version, changed, redis, loose, time, requests, late>>
        /\ redis[k] # None /\ time < redis[k].until
        /\ hit' = [user |-> k[1], res |-> k[2], body |-> b]
    BY ONLY <1>3, CacheInv, c \in Handlers, LookupShape
  <2>2. hit'.user = k[1] /\ hit'.res = k[2] /\ hit'.body = b
    BY ONLY <2>1
  <2>3. ~late => WasTrue(b) /\ redis[k].until <= b.at + ResponseTTL /\ b.user = k[1] /\ b.res = k[2]
    BY <2>1 DEF CacheInv, EntryInv
  <2>4. ~overlap /\ faults = 0 => b.version = version[k[2]]
    <3> SUFFICES ASSUME ~overlap, faults = 0 PROVE b.version = version[k[2]]
      OBVIOUS
    <3>1. loose = {}
      BY <2>1 DEF CacheInv, TakeTurns
    <3>2. ~Doomed(k)
      BY <3>1 DEF Doomed
    <3> QED
      BY <2>1, <3>2 DEF CacheInv, Current
  <2>5. /\ b.at \in Nat /\ b.version \in Nat /\ b.res \in Resources /\ changed[b.res] \in Nat
        /\ redis[k].until \in Nat /\ time \in Nat /\ ResponseTTL \in Nat
    <3>1. redis[k] \in [body : Bodies, until : Nat] /\ time \in Nat /\ changed \in [Resources -> Nat]
      BY <2>1, SMTT(30) DEF CacheInv, CacheTypes
    <3> QED
      BY ONLY <3>1, TtlGiven DEF Bodies
  <2>6. ~late => b.version = version[b.res] \/ time < changed[b.res] + ResponseTTL
    BY ONLY <2>1, <2>3, <2>5 DEF WasTrue
  <2>7. Re!SerialHitIsCurrent'
    BY ONLY <2>1, <2>2, <2>4 DEF Re!SerialHitIsCurrent
  <2>8. Re!StaleWithinTTL'
    BY ONLY <2>1, <2>2, <2>6 DEF Re!StaleWithinTTL
  <2>9. Re!AnswersArePrivate'
    BY ONLY <2>1, <2>2, <2>3 DEF Re!AnswersArePrivate
  <2> QED
    BY <2>7, <2>8, <2>9
<1>4. ASSUME Re!Next, ~\E c \in Handlers : Re!Lookup(c) PROVE hit' = None
  BY ONLY <1>4, ZenonT(60) DEF Re!Next, Re!Get, Re!Mutate, Re!Read, Re!Write, Re!Store, Re!Scan, Re!Del, Re!Ran, Re!InvalidateCache, Re!Tick
<1> QED
  BY <1>1, <1>2, <1>3, <1>4

(* A behaviour of the response cache steps as ResponseCache does. *)
LEMMA CacheRuns == part = "responses" /\ [Next]_all => part' = "responses" /\ [Re!Next]_(Re!web)
BY DEF Next, all, Re!web

(* While requests take turns and nothing fails the response cache shows     *)
(* what there is; unless a goroutine reads a reused context, an outdated    *)
(* answer is served within its time to live only, and to its own user       *)
(* (cache.go), for every number of contexts, users and resources. *)
THEOREM CacheServesCurrentAndPrivate == Spec => []ResponseCacheSound
<1> DEFINE Inv == part = "responses" => CacheInv
<1>1. Init => Inv
  BY CacheInit DEF Init
<1>2. Inv /\ [Next]_all => Inv'
  <2> SUFFICES ASSUME Inv, [Next]_all, part' = "responses" PROVE CacheInv'
    OBVIOUS
  <2>1. part = "responses"
    BY DEF Next, all
  <2> QED
    BY <2>1, CacheRuns, CacheTyped, CacheEntries, CacheTurns, CacheCurrent, CacheHits DEF CacheInv
<1>3. Inv => ResponseCacheSound
  <2> SUFFICES ASSUME CacheInv PROVE Re!TypeOK
    BY DEF CacheInv, ResponseCacheSound, Re!ResponseCacheSound
  <2>1. \A c \in Handlers : ctx[c].pc \in {"idle", "lookup", "read", "write"}
    BY DEF CacheInv, CacheTypes, Turns
  <2>2. \A g \in loose : g.do \in {"store", "scan", "del"} /\ g.on \in Handlers
    BY DEF CacheInv, CacheTypes, Goroutines
  <2>3. DOMAIN redis = CacheKeys /\ \A k \in CacheKeys : redis[k] # None => redis[k].until <= time + ResponseTTL
    BY DEF CacheInv, CacheTypes, EntryInv
  <2> QED
    BY ONLY <2>1, <2>2, <2>3 DEF Re!TypeOK
<1> QED
  BY <1>1, <1>2, <1>3, PTL DEF Spec
-----------------------------------------------------------------------------
(* Users, sign-ins and devices. *)

(* What the tables and the requests hold. *)
UserRows == [email : Emails, tenant : Tenants \cup {"signup"}, name : Ac!Names, google : BOOLEAN, deleted : BOOLEAN]
DeviceRows == [device : Devices, count : Nat, trusted : BOOLEAN]
AccountJobs ==
    [email : Emails \cup {None}, tenant : Tenants \cup {None}, name : Ac!Names \cup {None}, row : Nat,
     copy : States \cup DeviceRows \cup {None}]
AddSteps == {"register", "tenant", "name", "create"}
AccountSteps == AddSteps \cup {"idle", "delete", "byGoogle", "byEmail", "link", "device"}

(* Requests under way, those that may add a user with an address, and the   *)
(* callbacks between reading a state and deleting it. *)
Working == {h \in Handlers : pc[h] # "idle"}
Adding(e) == {h \in Handlers : pc[h] \in AddSteps /\ job[h].email = e}
Holding(s) == {h \in Handlers : pc[h] = "delete" /\ job[h].copy = s}
AtOnce == IF overlap THEN Cardinality(Handlers) ELSE 1

(* A row of a device, or a copy of one, lags behind its logins. *)
Lags(d) == d.count < logins[d.device] /\ (d.trusted => logins[d.device] >= TrustAfter + 2)

(* What a request carries from one step to the next. *)
RequestInv(h) ==
    /\ pc[h] \notin {"idle", "device"} => job[h].email \in Emails
    /\ pc[h] = "register" => job[h].tenant \in Tenants
    /\ pc[h] \in {"register", "create"} => job[h].name \in Ac!Names
    /\ pc[h] = "delete" => job[h].copy \in States /\ accepted[job[h].copy] >= 1
    /\ pc[h] = "link" => job[h].row \in DOMAIN users
    /\ pc[h] = "device" =>
         /\ job[h].copy \in DeviceRows
         /\ job[h].row = 0 => job[h].copy.count = 0 /\ ~job[h].copy.trusted
         /\ job[h].row # 0 =>
              /\ job[h].row \in DOMAIN devices /\ Lags(job[h].copy)
              /\ devices[job[h].row].device = job[h].copy.device

(* The types. *)
AccountTypes ==
    /\ overlap \in BOOLEAN /\ users \in Seq(UserRows) /\ signups \in 0..1
    /\ states \in SUBSET States /\ accepted \in [States -> Nat]
    /\ devices \in Seq(DeviceRows) /\ logins \in [Devices -> Nat]
    /\ pc \in [Handlers -> AccountSteps] /\ job \in [Handlers -> AccountJobs]
    /\ requests \in 0..AccountRequests /\ faults \in 0..MaxFaults

(* Every user was added by a request, and requests that take turns are one. *)
AddedByRequests == Len(users) + Cardinality(Working) <= requests
OneWorks == ~overlap => \A g, h \in Working : g = h

(* Who has an address, and who may still get it, is within the requests at  *)
(* once and the lookups that failed; no tenant has him twice. *)
Admitted(e) == Cardinality(Ac!Present(e)) + Cardinality(Adding(e)) <= faults + AtOnce
OncePerTenant ==
    \A m, n \in DOMAIN users : users[m].email = users[n].email /\ m # n => users[m].tenant # users[n].tenant

(* A state that can still be used was used by the callbacks that hold it. *)
StateInv(s) ==
    /\ accepted[s] <= AtOnce
    /\ s \in states => accepted[s] = Cardinality(Holding(s))

(* The inductive invariant. *)
AccountsInv ==
    /\ AccountTypes /\ \A h \in Handlers : RequestInv(h)
    /\ AddedByRequests /\ OneWorks
    /\ \A e \in Emails : Admitted(e)
    /\ OncePerTenant
    /\ \A s \in States : StateInv(s)
    /\ \A n \in DOMAIN devices : Lags(devices[n])

(* What the assumptions say of the accounts. *)
LEMMA AccountsGiven ==
    /\ IsFiniteSet(Handlers) /\ Overlaps \subseteq BOOLEAN
    /\ AccountRequests \in Nat /\ MaxFaults \in Nat /\ TrustAfter \in Nat
BY ServicesAssumption, SameCardinality DEF Ac!AccountsAssumption

(* Sets that differ in one element only count one more or one less. *)
LEMMA CountOne ==
    ASSUME NEW F, IsFiniteSet(F), NEW S \in SUBSET F, NEW T \in SUBSET F, NEW x, S \ {x} = T \ {x}
    PROVE  /\ Cardinality(S) \in Nat /\ Cardinality(T) \in Nat
           /\ Cardinality(T) =
                Cardinality(S) + (IF x \in T THEN 1 ELSE 0) - (IF x \in S THEN 1 ELSE 0)
<1>1. IsFiniteSet(S) /\ IsFiniteSet(T)
  BY FS_Subset
<1>2. /\ Cardinality(S) \in Nat /\ Cardinality(T) \in Nat
  BY <1>1, FS_CardinalityType
<1>3. Cardinality(S \ {x}) = IF x \in S THEN Cardinality(S) - 1 ELSE Cardinality(S)
  BY <1>1, FS_RemoveElement
<1>4. Cardinality(T \ {x}) = IF x \in T THEN Cardinality(T) - 1 ELSE Cardinality(T)
  BY <1>1, FS_RemoveElement
<1> QED
  BY <1>2, <1>3, <1>4

(* How many requests are under way, when one of them moves on. *)
LEMMA WorkingCount ==
    ASSUME AccountTypes, NEW h \in Handlers, NEW step, pc' = [pc EXCEPT ![h] = step]
    PROVE  /\ Cardinality(Working) \in Nat /\ Cardinality(Working)' \in Nat
           /\ Cardinality(Working)' = Cardinality(Working)
                + (IF step # "idle" THEN 1 ELSE 0) - (IF pc[h] # "idle" THEN 1 ELSE 0)
<1>1. IsFiniteSet(Handlers) /\ pc \in [Handlers -> AccountSteps]
  BY AccountsGiven DEF AccountTypes
<1>2. /\ Working \in SUBSET Handlers /\ Working' \in SUBSET Handlers /\ Working \ {h} = Working' \ {h}
      /\ h \in Working <=> pc[h] # "idle"
      /\ h \in Working' <=> step # "idle"
  BY <1>1 DEF Working
<1> QED
  BY ONLY <1>1, <1>2, CountOne

(* What a request counts for at a step. *)
MayAdd(step, j, e) == IF step \in AddSteps /\ j.email = e THEN 1 ELSE 0
Holds(step, j, s) == IF step = "delete" /\ j.copy = s THEN 1 ELSE 0

(* How many requests may add an address, then. *)
LEMMA AddingCount ==
    ASSUME AccountTypes, NEW h \in Handlers, NEW step, NEW j,
           pc' = [pc EXCEPT ![h] = step], job' = [job EXCEPT ![h] = j], NEW e
    PROVE  /\ Cardinality(Adding(e)) \in Nat /\ Cardinality(Adding(e))' \in Nat
           /\ Cardinality(Adding(e))' = Cardinality(Adding(e))
                + MayAdd(step, j, e) - MayAdd(pc[h], job[h], e)
<1>1. IsFiniteSet(Handlers) /\ pc \in [Handlers -> AccountSteps] /\ job \in [Handlers -> AccountJobs]
  BY AccountsGiven DEF AccountTypes
<1>2. /\ Adding(e) \in SUBSET Handlers /\ Adding(e)' \in SUBSET Handlers /\ Adding(e) \ {h} = Adding(e)' \ {h}
      /\ h \in Adding(e) <=> (pc[h] \in AddSteps /\ job[h].email = e)
      /\ h \in Adding(e)' <=> (step \in AddSteps /\ j.email = e)
  BY <1>1 DEF Adding
<1>3. /\ Cardinality(Adding(e)) \in Nat /\ Cardinality(Adding(e)') \in Nat
      /\ Cardinality(Adding(e)') = Cardinality(Adding(e))
           + (IF h \in Adding(e)' THEN 1 ELSE 0) - (IF h \in Adding(e) THEN 1 ELSE 0)
  BY ONLY <1>1, <1>2, CountOne
<1> QED
  BY ONLY <1>2, <1>3 DEF MayAdd

(* How many callbacks hold a state, then. *)
LEMMA HoldingCount ==
    ASSUME AccountTypes, NEW h \in Handlers, NEW step, NEW j,
           pc' = [pc EXCEPT ![h] = step], job' = [job EXCEPT ![h] = j], NEW s
    PROVE  /\ Cardinality(Holding(s)) \in Nat /\ Cardinality(Holding(s))' \in Nat
           /\ Cardinality(Holding(s))' = Cardinality(Holding(s))
                + Holds(step, j, s) - Holds(pc[h], job[h], s)
<1>1. IsFiniteSet(Handlers) /\ pc \in [Handlers -> AccountSteps] /\ job \in [Handlers -> AccountJobs]
  BY AccountsGiven DEF AccountTypes
<1>2. /\ Holding(s) \in SUBSET Handlers /\ Holding(s)' \in SUBSET Handlers /\ Holding(s) \ {h} = Holding(s)' \ {h}
      /\ h \in Holding(s) <=> (pc[h] = "delete" /\ job[h].copy = s)
      /\ h \in Holding(s)' <=> (step = "delete" /\ j.copy = s)
  BY <1>1 DEF Holding
<1>3. /\ Cardinality(Holding(s)) \in Nat /\ Cardinality(Holding(s)') \in Nat
      /\ Cardinality(Holding(s)') = Cardinality(Holding(s))
           + (IF h \in Holding(s)' THEN 1 ELSE 0) - (IF h \in Holding(s) THEN 1 ELSE 0)
  BY ONLY <1>1, <1>2, CountOne
<1> QED
  BY ONLY <1>2, <1>3 DEF Holds

(* Requests of one kind are no more than may run at once. *)
LEMMA WithinAtOnce ==
    OneWorks => \A S \in SUBSET Working : Cardinality(S) \in Nat /\ Cardinality(S) <= AtOnce
<1> SUFFICES ASSUME OneWorks, NEW S \in SUBSET Working PROVE Cardinality(S) \in Nat /\ Cardinality(S) <= AtOnce
  OBVIOUS
<1>1. IsFiniteSet(Handlers) /\ S \in SUBSET Handlers
  BY AccountsGiven DEF Working
<1>2. /\ IsFiniteSet(S) /\ Cardinality(S) \in Nat /\ Cardinality(S) <= Cardinality(Handlers)
  BY ONLY <1>1, FS_Subset, FS_CardinalityType
<1>3. CASE ~overlap
  <2>1. S = {} \/ \E g : S = {g}
    BY <1>3 DEF OneWorks
  <2>2. Cardinality(S) <= 1
    BY ONLY <1>2, <2>1, FS_EmptySet, FS_Singleton
  <2> QED
    BY <1>2, <1>3, <2>2 DEF AtOnce
<1> QED
  BY <1>2, <1>3 DEF AtOnce

(* The invariant holds initially. *)
LEMMA AccountsInit == Ac!Init => AccountsInv
<1> SUFFICES ASSUME Ac!Init PROVE AccountsInv
  OBVIOUS
<1>1. AccountTypes
  BY AccountsGiven DEF Ac!Init, Ac!NoJob, AccountTypes, AccountSteps, AddSteps, AccountJobs
<1>2. /\ Working = {} /\ \A e : Adding(e) = {} /\ Ac!Present(e) = {}
      /\ users = <<>> /\ devices = <<>> /\ requests = 0 /\ faults = 0
    BY DEF Ac!Init, Working, Adding, AddSteps, Ac!Present, Ac!WithEmail
<1>3. Cardinality({}) = 0 /\ Cardinality({}) <= AtOnce /\ AtOnce \in Nat
  <2>1. Cardinality(Handlers) \in Nat /\ Cardinality({}) = 0
    BY AccountsGiven, FS_CardinalityType, FS_EmptySet
  <2> QED
    BY ONLY <2>1 DEF AtOnce
<1>4. AddedByRequests
  <2>1. Len(users) = 0
    BY ONLY <1>2
  <2> QED
    BY ONLY <1>2, <1>3, <2>1 DEF AddedByRequests
<1>5. ASSUME NEW e \in Emails PROVE Admitted(e)
  <2>1. Cardinality(Adding(e)) = 0 /\ Cardinality(Ac!Present(e)) = 0
    BY ONLY <1>2, <1>3
  <2> QED
    BY ONLY <1>2, <1>3, <2>1 DEF Admitted
<1>6. \A s \in States : StateInv(s)
  BY <1>3, FS_EmptySet DEF Ac!Init, StateInv
<1>7. \A h \in Handlers : RequestInv(h)
  BY DEF Ac!Init, RequestInv
<1> QED
  BY <1>1, <1>2, <1>4, <1>5, <1>6, <1>7 DEF AccountsInv, OneWorks, OncePerTenant

(* No step takes a row away, gives a device's row to another device, or     *)
(* counts down. *)
NothingLost ==
    /\ DOMAIN users \subseteq DOMAIN users' /\ DOMAIN devices \subseteq DOMAIN devices'
    /\ \A s \in States : accepted'[s] \in Nat /\ accepted'[s] >= accepted[s]
    /\ \A n \in DOMAIN devices : devices'[n].device = devices[n].device
    /\ \A d \in Devices : logins'[d] \in Nat /\ logins'[d] >= logins[d]

(* What a request carries stays right while others add and count. *)
LEMMA RequestFrame ==
    ASSUME AccountTypes, NEW g \in Handlers, RequestInv(g), pc'[g] = pc[g], job'[g] = job[g], NothingLost
    PROVE  RequestInv(g)'
<1> USE DEF NothingLost
<1>1. CASE pc[g] = "device"
  <2> DEFINE c == job[g].copy
  <2>1. c \in DeviceRows /\ (job[g].row = 0 => c.count = 0 /\ ~c.trusted)
    BY <1>1 DEF RequestInv
  <2>2. ASSUME job[g].row # 0
        PROVE  job[g].row \in DOMAIN devices' /\ Lags(c)' /\ devices'[job[g].row].device = c.device
    <3>1. job[g].row \in DOMAIN devices /\ Lags(c) /\ devices[job[g].row].device = c.device
      BY <1>1, <2>2 DEF RequestInv
    <3>2. /\ c.count \in Nat /\ logins[c.device] \in Nat /\ logins'[c.device] \in Nat
          /\ logins'[c.device] >= logins[c.device] /\ TrustAfter \in Nat
      BY <2>1, AccountsGiven DEF DeviceRows, AccountTypes
    <3>3. c' = c
      OBVIOUS
    <3>4. Lags(c)'
      BY ONLY <3>1, <3>2, <3>3 DEF Lags
    <3> QED
      BY <3>1, <3>4
  <2> QED
    BY <1>1, <2>1, <2>2 DEF RequestInv
<1>2. CASE pc[g] # "device"
  <2>1. pc[g] = "delete" => job[g].copy \in States /\ accepted'[job[g].copy] >= 1
    <3>1. SUFFICES ASSUME pc[g] = "delete" PROVE job[g].copy \in States /\ accepted'[job[g].copy] >= 1
      OBVIOUS
    <3>2. job[g].copy \in States /\ accepted[job[g].copy] >= 1
      BY <3>1 DEF RequestInv
    <3>3. accepted \in [States -> Nat]
      BY DEF AccountTypes
    <3> QED
      BY <3>2, <3>3
  <2> QED
    BY <1>2, <2>1 DEF RequestInv
<1> QED
  BY <1>1, <1>2

(* The same for all requests but the one that moves on. *)
LEMMA RequestsKept ==
    ASSUME AccountTypes, \A g \in Handlers : RequestInv(g), NEW h \in Handlers, NEW step, NEW j,
           pc' = [pc EXCEPT ![h] = step], job' = [job EXCEPT ![h] = j], NothingLost, RequestInv(h)'
    PROVE  \A g \in Handlers : RequestInv(g)'
<1> SUFFICES ASSUME NEW g \in Handlers, g # h PROVE RequestInv(g)'
  OBVIOUS
<1>1. pc'[g] = pc[g] /\ job'[g] = job[g]
  BY DEF AccountTypes
<1> QED
  BY <1>1, RequestFrame

(* The steps of the accounts, one by one. *)
LEMMA AccountsNext ==
    ASSUME Ac!Next
    PROVE  \E h \in Handlers :
          \/ \E e \in Emails, t \in Tenants, f \in Emails, n \in {0, 2} : Ac!RegisterLookup(h, e, t, <<f, n>>)
          \/ \E n \in DOMAIN users : Ac!DeleteUser(h, n)
          \/ \E s \in States : Ac!GoogleLogin(h, s) \/ \E e \in Emails : Ac!Callback(h, s, e)
          \/ Ac!RegisterInsert(h) \/ Ac!DeleteState(h) \/ Ac!ByGoogleId(h) \/ Ac!ByEmail(h) \/ Ac!Link(h)
          \/ Ac!CreateTenant(h) \/ Ac!GenerateUsername(h) \/ Ac!CreateGoogleUser(h)
          \/ \E d \in Devices : Ac!DeviceLookup(h, d)
          \/ Ac!DeviceSave(h)
BY DEF Ac!Next

(* Types are kept, and every request carries what it needs. *)
LEMMA AccountTyped ==
    AccountsInv /\ [Ac!Next]_(Ac!accounts) => (AccountTypes /\ \A h \in Handlers : RequestInv(h))'
<1> SUFFICES ASSUME AccountsInv, [Ac!Next]_(Ac!accounts)
             PROVE  AccountTypes' /\ \A h \in Handlers : RequestInv(h)'
  OBVIOUS
<1>0. AccountTypes /\ \A g \in Handlers : RequestInv(g)
  BY DEF AccountsInv
<1>a. /\ overlap \in BOOLEAN /\ users \in Seq(UserRows) /\ signups \in 0..1
      /\ states \in SUBSET States /\ accepted \in [States -> Nat]
      /\ devices \in Seq(DeviceRows) /\ logins \in [Devices -> Nat]
      /\ pc \in [Handlers -> AccountSteps] /\ job \in [Handlers -> AccountJobs]
      /\ requests \in 0..AccountRequests /\ faults \in 0..MaxFaults
      /\ AccountRequests \in Nat /\ MaxFaults \in Nat
  BY <1>0, AccountsGiven DEF AccountTypes
<1>b. UNCHANGED <<users, accepted, devices, logins>> => NothingLost
  BY ONLY <1>a DEF NothingLost
<1>c. ASSUME NEW found \in BOOLEAN, Ac!NotFound(found) PROVE faults' \in 0..MaxFaults
  BY ONLY <1>a, <1>c DEF Ac!NotFound
<1>d. ASSUME NEW h \in Handlers, Ac!Start(h)
      PROVE  pc[h] = "idle" /\ requests' \in 0..AccountRequests /\ AccountRequests >= 1
  BY ONLY <1>a, <1>d DEF Ac!Start
<1>e. Ac!NoJob = [email |-> None, tenant |-> None, name |-> None, row |-> 0, copy |-> None] /\ Ac!NoJob \in AccountJobs
  BY DEF Ac!NoJob, AccountJobs
<1>f. ASSUME NEW h \in Handlers, pc' = [pc EXCEPT ![h] = "idle"], job' = [job EXCEPT ![h] = Ac!NoJob],
             UNCHANGED <<overlap, states, accepted, devices, logins, requests>>, faults' \in 0..MaxFaults,
             signups' \in 0..1, users' \in Seq(UserRows), DOMAIN users \subseteq DOMAIN users'
      PROVE  AccountTypes' /\ \A g \in Handlers : RequestInv(g)'
  <2>1. AccountTypes'
    BY ONLY <1>a, <1>e, <1>f, h \in Handlers DEF AccountTypes, AccountSteps, AddSteps
  <2>2. RequestInv(h)'
    BY ONLY <1>a, <1>f, h \in Handlers DEF RequestInv
  <2>3. NothingLost
    BY ONLY <1>a, <1>f DEF NothingLost
  <2> QED
    BY ONLY <1>0, <1>f, <2>2, <2>1, <2>3, h \in Handlers, RequestsKept
<1>g. ASSUME NEW h \in Handlers, NEW step \in AccountSteps, NEW j \in AccountJobs,
             pc' = [pc EXCEPT ![h] = step], job' = [job EXCEPT ![h] = j],
             UNCHANGED <<overlap, users, devices, logins>>, faults' \in 0..MaxFaults,
             signups' \in 0..1, requests' \in 0..AccountRequests, states' \in SUBSET States,
             accepted' \in [States -> Nat], \A s \in States : accepted'[s] >= accepted[s], RequestInv(h)'
      PROVE  AccountTypes' /\ \A g \in Handlers : RequestInv(g)'
  <2>1. AccountTypes'
    BY ONLY <1>a, <1>g, h \in Handlers, step \in AccountSteps, j \in AccountJobs DEF AccountTypes
  <2>2. NothingLost
    BY ONLY <1>a, <1>g DEF NothingLost
  <2> QED
    BY ONLY <1>0, <1>g, <2>1, <2>2, h \in Handlers, RequestsKept
<1>k. ASSUME NEW h \in Handlers, NEW step \in AccountSteps, NEW j \in AccountJobs,
             pc' = [pc EXCEPT ![h] = step], job' = [job EXCEPT ![h] = j],
             UNCHANGED <<overlap, users, signups, states, accepted, devices, logins>>,
             faults' \in 0..MaxFaults, requests' \in 0..AccountRequests, RequestInv(h)'
      PROVE  AccountTypes' /\ \A g \in Handlers : RequestInv(g)'
  <2>1. /\ UNCHANGED <<overlap, users, devices, logins>> /\ signups' \in 0..1 /\ states' \in SUBSET States
        /\ accepted' \in [States -> Nat] /\ \A s \in States : accepted'[s] >= accepted[s]
    BY ONLY <1>a, <1>k
  <2> QED
    BY ONLY <1>g, <1>k, <2>1, h \in Handlers, step \in AccountSteps, j \in AccountJobs
<1>l. AccountSteps = {"register", "tenant", "name", "create", "idle", "delete", "byGoogle", "byEmail", "link", "device"}
  BY DEF AccountSteps, AddSteps
<1>h. ASSUME NEW u, u \in UserRows, users' = IF Ac!Refused(u) THEN users ELSE Append(users, u)
      PROVE  users' \in Seq(UserRows) /\ DOMAIN users \subseteq DOMAIN users'
  BY ONLY <1>a, <1>h
<1>i. ASSUME NEW h \in Handlers PROVE RequestInv(h) /\ job[h] \in AccountJobs
  BY <1>a, <1>0, <1>i
<1>1. ASSUME NEW h \in Handlers, NEW e \in Emails, NEW t \in Tenants, NEW f \in Emails, NEW n \in {0, 2},
             Ac!RegisterLookup(h, e, t, <<f, n>>)
      PROVE  AccountTypes' /\ \A g \in Handlers : RequestInv(g)'
  <2>1. PICK j : j = [Ac!NoJob EXCEPT !.email = e, !.tenant = t, !.name = <<f, n>>]
    OBVIOUS
  <2>2. /\ Ac!Start(h) /\ Ac!NotFound(Ac!WithEmail(e) # {})
        /\ pc' = [pc EXCEPT ![h] = "register"] /\ job' = [job EXCEPT ![h] = j]
        /\ UNCHANGED <<overlap, users, signups, states, accepted, devices, logins>>
    BY <1>1, <2>1 DEF Ac!RegisterLookup, Ac!Continue, Ac!Goto
  <2>3. <<f, n>> \in Ac!Names
    BY <1>a, <1>d, <2>2 DEF Ac!Names
  <2>4. j \in AccountJobs /\ j.email = e /\ j.tenant = t /\ j.name = <<f, n>>
    BY ONLY <1>e, <2>1, <2>3, e \in Emails, t \in Tenants DEF AccountJobs
  <2>5. RequestInv(h)'
    BY ONLY <1>a, <2>2, <2>3, <2>4, e \in Emails, t \in Tenants, h \in Handlers DEF RequestInv
  <2>6. faults' \in 0..MaxFaults /\ requests' \in 0..AccountRequests
    BY ONLY <1>c, <1>d, <2>2, h \in Handlers
  <2>7. "register" \in AccountSteps
    BY ONLY <1>l
  <2> QED
    BY ONLY <1>k, <2>2, <2>4, <2>5, <2>6, <2>7, h \in Handlers
<1>2. ASSUME NEW h \in Handlers, Ac!RegisterInsert(h)
      PROVE  AccountTypes' /\ \A g \in Handlers : RequestInv(g)'
  <2>1. PICK u : u = Ac!NewUser(job[h].email, job[h].tenant, job[h].name, FALSE)
    OBVIOUS
  <2>2. /\ pc[h] = "register" /\ pc' = [pc EXCEPT ![h] = "idle"] /\ job' = [job EXCEPT ![h] = Ac!NoJob]
        /\ users' = IF Ac!Refused(u) THEN users ELSE Append(users, u)
        /\ UNCHANGED <<overlap, signups, states, accepted, devices, logins, requests, faults>>
    BY <1>2, <2>1 DEF Ac!RegisterInsert, Ac!Return, Ac!Goto
  <2>3. u \in UserRows
    BY <1>i, <2>1, <2>2 DEF RequestInv, Ac!NewUser, UserRows
  <2> QED
    BY <1>a, <1>f, <1>h, <2>2, <2>3
<1>3. ASSUME NEW h \in Handlers, NEW n \in DOMAIN users, Ac!DeleteUser(h, n)
      PROVE  AccountTypes' /\ \A g \in Handlers : RequestInv(g)'
  <2>1. /\ Ac!Start(h) /\ users' = [users EXCEPT ![n].deleted = TRUE]
        /\ UNCHANGED <<overlap, signups, states, accepted, devices, logins, pc, job, faults>>
    BY <1>3 DEF Ac!DeleteUser
  <2>2. users' \in Seq(UserRows) /\ DOMAIN users' = DOMAIN users
    <3>1. PICK u : u = [users[n] EXCEPT !.deleted = TRUE]
      OBVIOUS
    <3>2. users' = [users EXCEPT ![n] = u] /\ users[n] \in UserRows
      BY <1>a, <2>1, <3>1
    <3>3. u \in UserRows
      BY ONLY <3>1, <3>2 DEF UserRows
    <3> QED
      BY ONLY <1>a, <3>2, <3>3, n \in DOMAIN users
  <2>3. AccountTypes'
    BY ONLY <1>a, <1>d, <2>1, <2>2, h \in Handlers DEF AccountTypes
  <2>4. NothingLost
    BY ONLY <1>a, <2>1, <2>2 DEF NothingLost
  <2> QED
    BY ONLY <1>0, <2>1, <2>3, <2>4, RequestFrame
<1>4. ASSUME NEW h \in Handlers, NEW s \in States, Ac!GoogleLogin(h, s)
      PROVE  AccountTypes' /\ \A g \in Handlers : RequestInv(g)'
  <2>1. /\ Ac!Start(h) /\ states' = states \cup {s}
        /\ UNCHANGED <<overlap, users, signups, accepted, devices, logins, pc, job, faults>>
    BY <1>4 DEF Ac!GoogleLogin
  <2>2. AccountTypes'
    BY ONLY <1>a, <1>d, <2>1, s \in States, h \in Handlers DEF AccountTypes
  <2> QED
    BY ONLY <1>0, <1>b, <2>1, <2>2, RequestFrame
<1>5. ASSUME NEW h \in Handlers, NEW s \in States, NEW e \in Emails, Ac!Callback(h, s, e)
      PROVE  AccountTypes' /\ \A g \in Handlers : RequestInv(g)'
  <2>1. PICK j : j = [Ac!NoJob EXCEPT !.email = e, !.copy = s]
    OBVIOUS
  <2>2. /\ Ac!Start(h) /\ accepted' = [accepted EXCEPT ![s] = @ + 1]
        /\ pc' = [pc EXCEPT ![h] = "delete"] /\ job' = [job EXCEPT ![h] = j]
        /\ UNCHANGED <<overlap, users, signups, states, devices, logins, faults>>
    BY <1>5, <2>1 DEF Ac!Callback, Ac!Continue, Ac!Goto
  <2>3. j \in AccountJobs /\ j.email = e /\ j.copy = s
    BY ONLY <1>e, <2>1, e \in Emails, s \in States DEF AccountJobs
  <2>4. /\ accepted' \in [States -> Nat] /\ accepted'[s] >= 1
        /\ \A t \in States : accepted'[t] >= accepted[t]
    BY ONLY <1>a, <2>2, s \in States
  <2>5. RequestInv(h)'
    BY ONLY <1>a, <2>2, <2>3, <2>4, e \in Emails, s \in States, h \in Handlers DEF RequestInv
  <2> QED
    BY <1>a, <1>d, <1>g, <2>2, <2>3, <2>4, <2>5 DEF AccountSteps
<1>j. ASSUME NEW h \in Handlers, NEW step \in AccountSteps, step \notin {"register", "create", "delete", "link", "device", "idle"},
             pc' = [pc EXCEPT ![h] = step], job' = [job EXCEPT ![h] = job[h]], job[h].email \in Emails,
             UNCHANGED <<overlap, users, accepted, devices, logins, requests>>, faults' \in 0..MaxFaults,
             signups' \in 0..1, states' \in SUBSET States
      PROVE  AccountTypes' /\ \A g \in Handlers : RequestInv(g)'
  <2>1. RequestInv(h)'
    BY ONLY <1>a, <1>j, h \in Handlers, step \in AccountSteps DEF RequestInv
  <2>2. /\ accepted' \in [States -> Nat] /\ \A s \in States : accepted'[s] >= accepted[s]
        /\ requests' \in 0..AccountRequests
    BY ONLY <1>a, <1>j
  <2> QED
    BY ONLY <1>g, <1>i, <1>j, <2>1, <2>2, h \in Handlers, step \in AccountSteps
<1>6. ASSUME NEW h \in Handlers, Ac!DeleteState(h)
      PROVE  AccountTypes' /\ \A g \in Handlers : RequestInv(g)'
  <2>1. /\ pc[h] = "delete" /\ states' = states \ {job[h].copy}
        /\ pc' = [pc EXCEPT ![h] = "byGoogle"] /\ job' = [job EXCEPT ![h] = job[h]]
        /\ UNCHANGED <<overlap, users, signups, accepted, devices, logins, requests, faults>>
    BY <1>6 DEF Ac!DeleteState, Ac!Continue, Ac!Goto
  <2>2. job[h].email \in Emails
    BY <1>i, <2>1 DEF RequestInv
  <2> QED
    BY <1>a, <1>j, <2>1, <2>2 DEF AccountSteps
<1>7. ASSUME NEW h \in Handlers, Ac!ByGoogleId(h)
      PROVE  AccountTypes' /\ \A g \in Handlers : RequestInv(g)'
  <2>1. PICK linked \in BOOLEAN :
          /\ pc[h] = "byGoogle"
          /\ \/ Ac!Return(h) /\ UNCHANGED faults
             \/ Ac!NotFound(linked) /\ Ac!Continue(h, "byEmail", job[h])
          /\ UNCHANGED <<overlap, users, signups, states, accepted, devices, logins, requests>>
    BY <1>7 DEF Ac!ByGoogleId
  <2>2. job[h].email \in Emails
    BY <1>i, <2>1 DEF RequestInv
  <2>3. CASE Ac!Return(h) /\ UNCHANGED faults
    BY <1>a, <1>f, <2>1, <2>3 DEF Ac!Return, Ac!Goto
  <2>4. CASE Ac!NotFound(linked) /\ Ac!Continue(h, "byEmail", job[h])
    BY <1>a, <1>c, <1>j, <2>1, <2>2, <2>4 DEF Ac!Continue, Ac!Goto, AccountSteps
  <2> QED
    BY <2>1, <2>3, <2>4
<1>8. ASSUME NEW h \in Handlers, Ac!ByEmail(h)
      PROVE  AccountTypes' /\ \A g \in Handlers : RequestInv(g)'
  <2>1. /\ pc[h] = "byEmail"
        /\ UNCHANGED <<overlap, users, signups, states, accepted, devices, logins, requests>>
    BY <1>8 DEF Ac!ByEmail
  <2>2. job[h].email \in Emails
    BY <1>i, <2>1 DEF RequestInv
  <2>3. ASSUME NEW n \in Ac!Present(job[h].email), Ac!Continue(h, "link", [job[h] EXCEPT !.row = n]), UNCHANGED faults
        PROVE  AccountTypes' /\ \A g \in Handlers : RequestInv(g)'
    <3>1. PICK j : j = [job[h] EXCEPT !.row = n]
      OBVIOUS
    <3>2. pc' = [pc EXCEPT ![h] = "link"] /\ job' = [job EXCEPT ![h] = j]
      BY <2>3, <3>1 DEF Ac!Continue, Ac!Goto
    <3>3. n \in DOMAIN users /\ n \in Nat
      BY <1>a DEF Ac!Present, Ac!WithEmail
    <3>4. j \in AccountJobs /\ j.email = job[h].email /\ j.row = n
      BY ONLY <1>i, <3>1, <3>3, h \in Handlers DEF AccountJobs
    <3>5. RequestInv(h)'
      BY ONLY <1>a, <2>1, <2>2, <3>2, <3>3, <3>4, h \in Handlers DEF RequestInv
    <3>6. faults' \in 0..MaxFaults /\ requests' \in 0..AccountRequests
      BY ONLY <1>a, <2>1, <2>3
    <3>7. "link" \in AccountSteps
      BY ONLY <1>l
    <3> QED
      BY ONLY <1>k, <2>1, <3>2, <3>4, <3>5, <3>6, <3>7, h \in Handlers
  <2>4. ASSUME Ac!NotFound(Ac!Present(job[h].email) # {}), Ac!Continue(h, "tenant", job[h])
        PROVE  AccountTypes' /\ \A g \in Handlers : RequestInv(g)'
    BY <1>a, <1>c, <1>j, <2>1, <2>2, <2>4 DEF Ac!Continue, Ac!Goto, AccountSteps, AddSteps
  <2> QED
    BY <1>8, <2>3, <2>4 DEF Ac!ByEmail
<1>9. ASSUME NEW h \in Handlers, Ac!Link(h)
      PROVE  AccountTypes' /\ \A g \in Handlers : RequestInv(g)'
  <2> DEFINE n == job[h].row
  <2>1. /\ pc[h] = "link" /\ users' = [users EXCEPT ![n].google = TRUE]
        /\ pc' = [pc EXCEPT ![h] = "idle"] /\ job' = [job EXCEPT ![h] = Ac!NoJob]
        /\ UNCHANGED <<overlap, signups, states, accepted, devices, logins, requests, faults>>
    BY <1>9 DEF Ac!Link, Ac!Return, Ac!Goto
  <2>2. n \in DOMAIN users
    BY <1>i, <2>1 DEF RequestInv
  <2>3. users' \in Seq(UserRows) /\ DOMAIN users' = DOMAIN users
    <3>1. PICK u : u = [users[n] EXCEPT !.google = TRUE]
      OBVIOUS
    <3>2. users' = [users EXCEPT ![n] = u] /\ users[n] \in UserRows
      BY <1>a, <2>1, <2>2, <3>1
    <3>3. u \in UserRows
      BY ONLY <3>1, <3>2 DEF UserRows
    <3> QED
      BY ONLY <1>a, <2>2, <3>2, <3>3
  <2> QED
    BY <1>a, <1>f, <2>1, <2>3
<1>10. ASSUME NEW h \in Handlers, Ac!CreateTenant(h)
      PROVE  AccountTypes' /\ \A g \in Handlers : RequestInv(g)'
  <2>1. /\ pc[h] = "tenant"
        /\ UNCHANGED <<overlap, users, states, accepted, devices, logins, requests, faults>>
        /\ \/ Ac!Return(h) /\ UNCHANGED signups
           \/ signups = 0 /\ signups' = signups + 1 /\ Ac!Continue(h, "name", job[h])
    BY <1>10, <1>a DEF Ac!CreateTenant
  <2>2. job[h].email \in Emails
    BY <1>i, <2>1 DEF RequestInv
  <2>3. CASE Ac!Return(h) /\ UNCHANGED signups
    BY <1>a, <1>f, <2>1, <2>3 DEF Ac!Return, Ac!Goto
  <2>4. CASE signups = 0 /\ signups' = signups + 1 /\ Ac!Continue(h, "name", job[h])
    <3>1. /\ pc' = [pc EXCEPT ![h] = "name"] /\ job' = [job EXCEPT ![h] = job[h]]
          /\ faults' \in 0..MaxFaults /\ signups' \in 0..1 /\ states' \in SUBSET States
      BY <1>a, <2>1, <2>4 DEF Ac!Continue, Ac!Goto
    <3>2. "name" \in AccountSteps
      BY ONLY <1>l
    <3> QED
      BY ONLY <1>j, <2>1, <2>2, <3>1, <3>2, h \in Handlers
  <2> QED
    BY <2>1, <2>3, <2>4
<1>11. ASSUME NEW h \in Handlers, Ac!GenerateUsername(h)
      PROVE  AccountTypes' /\ \A g \in Handlers : RequestInv(g)'
  <2> DEFINE e == job[h].email
             named == {n \in DOMAIN users : users[n].name[1] = e}
             taken == Ac!Cardinality(named)
             chosen == <<e, IF taken = 0 THEN 0 ELSE taken + 1>>
  <2>1. PICK j : j = [job[h] EXCEPT !.name = chosen]
    OBVIOUS
  <2>2. /\ pc[h] = "name" /\ pc' = [pc EXCEPT ![h] = "create"] /\ job' = [job EXCEPT ![h] = j]
        /\ UNCHANGED <<overlap, users, signups, states, accepted, devices, logins, requests, faults>>
    BY <1>11, <2>1 DEF Ac!GenerateUsername, Ac!Continue, Ac!Goto
  <2>3. e \in Emails
    BY <1>i, <2>2 DEF RequestInv
  <2>4. taken \in Nat /\ taken <= Len(users)
    <3>0. Len(users) \in Nat /\ DOMAIN users = 1..Len(users)
      BY ONLY <1>a
    <3>1. named \in SUBSET (1..Len(users))
      BY ONLY <3>0
    <3>2. IsFiniteSet(1..Len(users)) /\ Cardinality(1..Len(users)) = Len(users)
      <4>1. /\ IsFiniteSet(1..Len(users))
            /\ Cardinality(1..Len(users)) = IF 1 > Len(users) THEN 0 ELSE Len(users) - 1 + 1
        BY ONLY <3>0, FS_Interval, SMTT(30)
      <4> QED
        BY ONLY <3>0, <4>1
    <3>3. Cardinality(named) \in Nat /\ Cardinality(named) <= Len(users)
      BY ONLY <3>1, <3>2, FS_Subset, FS_CardinalityType
    <3> QED
      BY <3>3, SameCardinality
  <2>5. Len(users) <= AccountRequests /\ Len(users) \in Nat
    <3>1. Cardinality(Working) \in Nat /\ Len(users) + Cardinality(Working) <= requests /\ Len(users) \in Nat
      <4>1. Cardinality(Working) \in Nat
        BY ONLY <1>0, <2>2, h \in Handlers, WorkingCount
      <4> QED
        BY ONLY <1>a, <4>1, AccountsInv DEF AccountsInv, AddedByRequests
    <3> QED
      BY ONLY <1>a, <3>1
  <2>6. chosen \in Ac!Names
    <3>1. (IF taken = 0 THEN 0 ELSE taken + 1) \in 0..AccountRequests + 1
      BY ONLY <1>a, <2>4, <2>5
    <3>2. Ac!Names = {<<x, m>> : x \in Emails, m \in 0..AccountRequests + 1}
      BY DEF Ac!Names
    <3>3. PICK m \in 0..AccountRequests + 1 : m = IF taken = 0 THEN 0 ELSE taken + 1
      BY ONLY <3>1
    <3>4. PICK x \in Emails : x = e
      BY ONLY <2>3
    <3>5. <<x, m>> \in Ac!Names
      BY ONLY <3>2, x \in Emails, m \in 0..AccountRequests + 1
    <3> QED
      BY ONLY <3>3, <3>4, <3>5
  <2>7. j \in AccountJobs /\ j.email = e /\ j.name = chosen
    BY ONLY <1>i, <2>1, <2>6, h \in Handlers DEF AccountJobs
  <2>8. RequestInv(h)'
    BY ONLY <1>a, <2>2, <2>3, <2>6, <2>7, h \in Handlers DEF RequestInv
  <2>9. "create" \in AccountSteps /\ faults' \in 0..MaxFaults /\ requests' \in 0..AccountRequests
    BY ONLY <1>a, <1>l, <2>2
  <2> QED
    BY ONLY <1>k, <2>2, <2>7, <2>8, <2>9, h \in Handlers
<1>12. ASSUME NEW h \in Handlers, Ac!CreateGoogleUser(h)
      PROVE  AccountTypes' /\ \A g \in Handlers : RequestInv(g)'
  <2>1. PICK u : u = Ac!NewUser(job[h].email, "signup", job[h].name, TRUE)
    OBVIOUS
  <2>2. /\ pc[h] = "create" /\ pc' = [pc EXCEPT ![h] = "idle"] /\ job' = [job EXCEPT ![h] = Ac!NoJob]
        /\ users' = IF Ac!Refused(u) THEN users ELSE Append(users, u)
        /\ UNCHANGED <<overlap, signups, states, accepted, devices, logins, requests, faults>>
    BY <1>12, <2>1 DEF Ac!CreateGoogleUser, Ac!Return, Ac!Goto
  <2>3. u \in UserRows
    BY <1>i, <2>1, <2>2 DEF RequestInv, Ac!NewUser, UserRows
  <2> QED
    BY <1>a, <1>f, <1>h, <2>2, <2>3
<1>13. ASSUME NEW h \in Handlers, NEW d \in Devices, Ac!DeviceLookup(h, d)
      PROVE  AccountTypes' /\ \A g \in Handlers : RequestInv(g)'
  <2> DEFINE found == {n \in DOMAIN devices : devices[n].device = d}
  <2>1. /\ Ac!Start(h) /\ UNCHANGED <<overlap, users, signups, states, accepted, devices, logins>>
    BY <1>13 DEF Ac!DeviceLookup
  <2>2. CASE /\ Ac!NotFound(found # {})
             /\ Ac!Continue(h, "device", [Ac!NoJob EXCEPT !.copy = [device |-> d, count |-> 0, trusted |-> FALSE]])
    <3>1. PICK c : c = [device |-> d, count |-> 0, trusted |-> FALSE]
      OBVIOUS
    <3>2. PICK j : j = [Ac!NoJob EXCEPT !.copy = c]
      OBVIOUS
    <3>3. pc' = [pc EXCEPT ![h] = "device"] /\ job' = [job EXCEPT ![h] = j]
      BY <2>2, <3>1, <3>2 DEF Ac!Continue, Ac!Goto
    <3>4. c \in DeviceRows
      BY ONLY <3>1, d \in Devices DEF DeviceRows
    <3>5. j \in AccountJobs /\ j.row = 0 /\ j.copy = c
      BY ONLY <1>e, <3>2, <3>4 DEF AccountJobs
    <3>6. RequestInv(h)'
      BY ONLY <1>a, <3>1, <3>3, <3>4, <3>5, h \in Handlers DEF RequestInv
    <3>7. faults' \in 0..MaxFaults /\ requests' \in 0..AccountRequests
      BY ONLY <1>c, <1>d, <2>1, <2>2, h \in Handlers
    <3>8. "device" \in AccountSteps
      BY ONLY <1>l
    <3> QED
      BY ONLY <1>k, <2>1, <3>3, <3>5, <3>6, <3>7, <3>8, h \in Handlers
  <2>3. ASSUME NEW n \in found, Ac!Continue(h, "device", [Ac!NoJob EXCEPT !.row = n, !.copy = devices[n]]), UNCHANGED faults
        PROVE  AccountTypes' /\ \A g \in Handlers : RequestInv(g)'
    <3>1. PICK j : j = [Ac!NoJob EXCEPT !.row = n, !.copy = devices[n]]
      OBVIOUS
    <3>2. pc' = [pc EXCEPT ![h] = "device"] /\ job' = [job EXCEPT ![h] = j]
      BY <2>3, <3>1 DEF Ac!Continue, Ac!Goto
    <3>3. n \in DOMAIN devices /\ n \in Nat /\ n # 0 /\ devices[n] \in DeviceRows /\ Lags(devices[n])
      BY <1>a DEF AccountsInv
    <3>4. j \in AccountJobs /\ j.row = n /\ j.copy = devices[n]
      BY ONLY <1>e, <3>1, <3>3 DEF AccountJobs
    <3>5. Lags(j.copy)'
      BY ONLY <2>1, <3>2, <3>3, <3>4 DEF Lags
    <3>6. RequestInv(h)'
      BY ONLY <1>a, <2>1, <3>2, <3>3, <3>4, <3>5, h \in Handlers DEF RequestInv, Lags
    <3>7. faults' \in 0..MaxFaults /\ requests' \in 0..AccountRequests
      BY ONLY <1>a, <1>d, <2>1, <2>3, h \in Handlers
    <3>8. "device" \in AccountSteps
      BY ONLY <1>l
    <3> QED
      BY ONLY <1>k, <2>1, <3>2, <3>4, <3>6, <3>7, <3>8, h \in Handlers
  <2> QED
    BY <1>13, <2>2, <2>3 DEF Ac!DeviceLookup
<1>14. ASSUME NEW h \in Handlers, Ac!DeviceSave(h)
      PROVE  AccountTypes' /\ \A g \in Handlers : RequestInv(g)'
  <2> DEFINE c == job[h].copy
             n == job[h].row
  <2>1. /\ pc[h] = "device" /\ pc' = [pc EXCEPT ![h] = "idle"] /\ job' = [job EXCEPT ![h] = Ac!NoJob]
        /\ devices' = IF n = 0 THEN Append(devices, c) ELSE [devices EXCEPT ![n] = Ac!Updated(c)]
        /\ logins' = [logins EXCEPT ![c.device] = @ + 1]
        /\ UNCHANGED <<overlap, users, signups, states, accepted, requests, faults>>
    BY <1>14 DEF Ac!DeviceSave, Ac!Return, Ac!Goto
  <2>2. c \in DeviceRows /\ (n # 0 => n \in DOMAIN devices /\ devices[n].device = c.device)
    BY <1>i, <2>1 DEF RequestInv
  <2>3. Ac!Updated(c) \in DeviceRows /\ Ac!Updated(c).device = c.device
    <3>1. c.count + 1 \in Nat /\ (c.trusted \/ c.count >= TrustAfter) \in BOOLEAN
      BY <2>2 DEF DeviceRows
    <3> QED
      BY ONLY <2>2, <3>1 DEF Ac!Updated, DeviceRows
  <2>4. /\ devices' \in Seq(DeviceRows) /\ DOMAIN devices \subseteq DOMAIN devices'
        /\ \A m \in DOMAIN devices : devices'[m].device = devices[m].device
    BY ONLY <1>a, <2>1, <2>2, <2>3
  <2>5. logins' \in [Devices -> Nat] /\ \A d \in Devices : logins'[d] >= logins[d]
    <3>1. c.device \in Devices
      BY ONLY <2>2 DEF DeviceRows
    <3>2. logins \in [Devices -> Nat]
      BY ONLY <1>a
    <3>3. logins' \in [Devices -> Nat]
      BY ONLY <2>1, <3>1, <3>2
    <3>4. ASSUME NEW d \in Devices PROVE logins'[d] >= logins[d]
      <4>1. logins'[d] = IF d = c.device THEN logins[d] + 1 ELSE logins[d]
        BY ONLY <2>1, <3>1, <3>2, d \in Devices
      <4>2. logins[d] \in Nat
        BY ONLY <3>2, d \in Devices
      <4> QED
        BY ONLY <4>1, <4>2
    <3> QED
      BY ONLY <3>3, <3>4
  <2>6. AccountTypes'
    BY ONLY <1>a, <1>e, <2>1, <2>4, <2>5, h \in Handlers DEF AccountTypes, AccountSteps, AddSteps
  <2>7. NothingLost
    BY ONLY <1>a, <2>1, <2>4, <2>5 DEF NothingLost
  <2>8. RequestInv(h)'
    BY ONLY <1>a, <2>1, h \in Handlers DEF RequestInv
  <2> QED
    BY ONLY <1>0, <2>1, <2>6, <2>7, <2>8, h \in Handlers, RequestsKept
<1>15. CASE UNCHANGED Ac!accounts
  <2>1. AccountTypes' /\ NothingLost /\ UNCHANGED <<pc, job>>
    BY <1>0, <1>b, <1>15 DEF Ac!accounts, AccountTypes
  <2> QED
    BY ONLY <1>0, <2>1, RequestFrame
<1>16. ASSUME Ac!Next PROVE AccountTypes' /\ \A g \in Handlers : RequestInv(g)'
  <2>1. PICK h \in Handlers :
          \/ \E e \in Emails, t \in Tenants, f \in Emails, n \in {0, 2} : Ac!RegisterLookup(h, e, t, <<f, n>>)
          \/ \E n \in DOMAIN users : Ac!DeleteUser(h, n)
          \/ \E s \in States : Ac!GoogleLogin(h, s) \/ \E e \in Emails : Ac!Callback(h, s, e)
          \/ Ac!RegisterInsert(h) \/ Ac!DeleteState(h) \/ Ac!ByGoogleId(h) \/ Ac!ByEmail(h) \/ Ac!Link(h)
          \/ Ac!CreateTenant(h) \/ Ac!GenerateUsername(h) \/ Ac!CreateGoogleUser(h)
          \/ \E d \in Devices : Ac!DeviceLookup(h, d)
          \/ Ac!DeviceSave(h)
    BY ONLY <1>16, AccountsNext
  <2> QED
    BY ONLY <1>1, <1>2, <1>3, <1>4, <1>5, <1>6, <1>7, <1>8, <1>9, <1>10, <1>11, <1>12, <1>13, <1>14, <2>1
<1> QED
  BY ONLY <1>15, <1>16, [Ac!Next]_(Ac!accounts)

(* A step begins a request that ends at once, or takes one further.  It     *)
(* adds a user only where it ends. *)
Begun == requests' = requests + 1 /\ (overlap \/ Working = {})
AtOneGo == overlap' = overlap /\ UNCHANGED <<pc, job>> /\ Len(users') = Len(users) /\ Begun
Moves(h, step) ==
    /\ overlap' = overlap /\ pc' = [pc EXCEPT ![h] = step]
    /\ \/ pc[h] = "idle" /\ step # "idle" /\ users' = users /\ Begun
       \/ /\ pc[h] # "idle" /\ requests' = requests
          /\ \/ step # "idle" /\ users' = users
             \/ step = "idle" /\ Len(users') \in {Len(users), Len(users) + 1}

(* Every step is one of these. *)
LEMMA AccountShape ==
    ASSUME AccountTypes, Ac!Next
    PROVE  AtOneGo \/ \E h \in Handlers, step \in AccountSteps : Moves(h, step)
<1>0. users \in Seq(UserRows)
  BY DEF AccountTypes
<1>1. PICK h \in Handlers :
        \/ \E e \in Emails, t \in Tenants, f \in Emails, n \in {0, 2} : Ac!RegisterLookup(h, e, t, <<f, n>>)
        \/ \E n \in DOMAIN users : Ac!DeleteUser(h, n)
        \/ \E s \in States : Ac!GoogleLogin(h, s) \/ \E e \in Emails : Ac!Callback(h, s, e)
        \/ Ac!RegisterInsert(h) \/ Ac!DeleteState(h) \/ Ac!ByGoogleId(h) \/ Ac!ByEmail(h) \/ Ac!Link(h)
        \/ Ac!CreateTenant(h) \/ Ac!GenerateUsername(h) \/ Ac!CreateGoogleUser(h)
        \/ \E d \in Devices : Ac!DeviceLookup(h, d)
        \/ Ac!DeviceSave(h)
  BY ONLY Ac!Next, AccountsNext
<1>2. ASSUME Ac!Start(h) PROVE pc[h] = "idle" /\ Begun
  BY ONLY <1>2 DEF Ac!Start, Working, Begun
<1>3. ASSUME NEW u, users' = IF Ac!Refused(u) THEN users ELSE Append(users, u)
      PROVE  Len(users') \in {Len(users), Len(users) + 1}
  BY ONLY <1>0, <1>3
<1>4. ASSUME NEW n, NEW u, users' = [users EXCEPT ![n] = u] PROVE Len(users') = Len(users)
  BY ONLY <1>0, <1>4
<1>5. ASSUME NEW e \in Emails, NEW t \in Tenants, NEW f \in Emails, NEW n \in {0, 2}, Ac!RegisterLookup(h, e, t, <<f, n>>)
      PROVE  Moves(h, "register")
  BY ONLY <1>2, <1>5 DEF Ac!RegisterLookup, Ac!Continue, Ac!Goto, Moves
<1>6. ASSUME NEW n \in DOMAIN users, Ac!DeleteUser(h, n) PROVE AtOneGo
  <2>1. users' = [users EXCEPT ![n] = [users[n] EXCEPT !.deleted = TRUE]]
    BY ONLY <1>6 DEF Ac!DeleteUser
  <2> QED
    BY ONLY <1>2, <1>4, <1>6, <2>1 DEF Ac!DeleteUser, AtOneGo
<1>7. ASSUME NEW s \in States, Ac!GoogleLogin(h, s) PROVE AtOneGo
  BY ONLY <1>2, <1>7 DEF Ac!GoogleLogin, AtOneGo
<1>8. ASSUME NEW s \in States, NEW e \in Emails, Ac!Callback(h, s, e) PROVE Moves(h, "delete")
  BY ONLY <1>2, <1>8 DEF Ac!Callback, Ac!Continue, Ac!Goto, Moves
<1>9. ASSUME Ac!RegisterInsert(h) \/ Ac!CreateGoogleUser(h) PROVE Moves(h, "idle")
  BY ONLY <1>3, <1>9 DEF Ac!RegisterInsert, Ac!CreateGoogleUser, Ac!Return, Ac!Goto, Moves
<1>10. ASSUME Ac!DeleteState(h) PROVE Moves(h, "byGoogle")
  BY ONLY <1>10 DEF Ac!DeleteState, Ac!Continue, Ac!Goto, Moves
<1>11. ASSUME Ac!ByGoogleId(h) PROVE Moves(h, "idle") \/ Moves(h, "byEmail")
  BY ONLY <1>11 DEF Ac!ByGoogleId, Ac!Return, Ac!Continue, Ac!Goto, Moves
<1>12. ASSUME Ac!ByEmail(h) PROVE Moves(h, "link") \/ Moves(h, "tenant")
  BY ONLY <1>12 DEF Ac!ByEmail, Ac!Continue, Ac!Goto, Moves
<1>13. ASSUME Ac!Link(h) PROVE Moves(h, "idle")
  <2>1. users' = [users EXCEPT ![job[h].row] = [users[job[h].row] EXCEPT !.google = TRUE]]
    BY ONLY <1>13 DEF Ac!Link
  <2> QED
    BY ONLY <1>4, <1>13, <2>1 DEF Ac!Link, Ac!Return, Ac!Goto, Moves
<1>14. ASSUME Ac!CreateTenant(h) PROVE Moves(h, "idle") \/ Moves(h, "name")
  BY ONLY <1>14 DEF Ac!CreateTenant, Ac!Return, Ac!Continue, Ac!Goto, Moves
<1>15. ASSUME Ac!GenerateUsername(h) PROVE Moves(h, "create")
  BY ONLY <1>15 DEF Ac!GenerateUsername, Ac!Continue, Ac!Goto, Moves
<1>16. ASSUME NEW d \in Devices, Ac!DeviceLookup(h, d) PROVE Moves(h, "device")
  BY ONLY <1>2, <1>16 DEF Ac!DeviceLookup, Ac!Continue, Ac!Goto, Moves
<1>17. ASSUME Ac!DeviceSave(h) PROVE Moves(h, "idle")
  BY ONLY <1>17 DEF Ac!DeviceSave, Ac!Return, Ac!Goto, Moves
<1>18. AccountSteps = {"register", "tenant", "name", "create", "idle", "delete", "byGoogle", "byEmail", "link", "device"}
  BY DEF AccountSteps, AddSteps
<1> QED
  BY ONLY <1>1, <1>5, <1>6, <1>7, <1>8, <1>9, <1>10, <1>11, <1>12, <1>13, <1>14, <1>15, <1>16, <1>17, <1>18

(* Users are never more than the requests that ended, and without overlap   *)
(* one request works at a time. *)
LEMMA AccountsAdded == AccountsInv /\ [Ac!Next]_(Ac!accounts) => (AddedByRequests /\ OneWorks)'
<1> SUFFICES ASSUME AccountsInv, [Ac!Next]_(Ac!accounts) PROVE AddedByRequests' /\ OneWorks'
  OBVIOUS
<1>0. /\ AccountTypes /\ AddedByRequests /\ OneWorks
  BY DEF AccountsInv
<1>1. users \in Seq(UserRows) /\ Len(users) \in Nat /\ requests \in Nat /\ pc \in [Handlers -> AccountSteps] /\ overlap \in BOOLEAN
  BY <1>0, AccountsGiven DEF AccountTypes
<1>2. ASSUME AtOneGo PROVE AddedByRequests' /\ OneWorks'
  <2>1. Working' = Working /\ Len(users') = Len(users) /\ requests' = requests + 1 /\ overlap' = overlap
    BY ONLY <1>2 DEF AtOneGo, Begun, Working
  <2>2. Cardinality(Working) \in Nat
    BY <1>0, AccountsGiven, FS_Subset, FS_CardinalityType DEF Working
  <2>3. AddedByRequests'
    BY ONLY <1>0, <1>1, <2>1, <2>2 DEF AddedByRequests
  <2> QED
    BY ONLY <1>0, <2>1, <2>3 DEF OneWorks
<1>3. ASSUME NEW h \in Handlers, NEW step \in AccountSteps, Moves(h, step) PROVE AddedByRequests' /\ OneWorks'
  <2> DEFINE n == Cardinality(Working)
             m == Cardinality(Working)'
  <2>1. pc' = [pc EXCEPT ![h] = step] /\ overlap' = overlap
    BY ONLY <1>3 DEF Moves
  <2>2. n \in Nat /\ m \in Nat /\ m = n + (IF step # "idle" THEN 1 ELSE 0) - (IF pc[h] # "idle" THEN 1 ELSE 0)
    BY ONLY <1>0, <2>1, h \in Handlers, WorkingCount
  <2>3. CASE pc[h] = "idle" /\ step # "idle" /\ users' = users /\ Begun
    <3>1. AddedByRequests'
      BY ONLY <1>0, <1>1, <2>2, <2>3 DEF AddedByRequests, Begun
    <3>2. Working' \subseteq Working \cup {h} /\ (overlap \/ Working = {})
      BY ONLY <1>1, <2>1, <2>3, h \in Handlers DEF Working, Begun
    <3> QED
      BY ONLY <2>1, <3>1, <3>2 DEF OneWorks
  <2>4. CASE /\ pc[h] # "idle" /\ requests' = requests
             /\ \/ step # "idle" /\ users' = users
                \/ step = "idle" /\ Len(users') \in {Len(users), Len(users) + 1}
    <3>1. AddedByRequests'
      BY ONLY <1>0, <1>1, <2>2, <2>4 DEF AddedByRequests
    <3>2. Working' \subseteq Working
      BY ONLY <1>1, <2>1, <2>4, h \in Handlers DEF Working
    <3> QED
      BY ONLY <1>0, <2>1, <3>1, <3>2 DEF OneWorks
  <2> QED
    BY ONLY <1>3, <2>3, <2>4 DEF Moves
<1>4. CASE UNCHANGED Ac!accounts
  <2>1. UNCHANGED <<users, requests, pc, overlap>>
    BY <1>4 DEF Ac!accounts
  <2> QED
    BY ONLY <1>0, <2>1 DEF AddedByRequests, OneWorks, Working
<1> QED
  BY ONLY <1>0, <1>2, <1>3, <1>4, [Ac!Next]_(Ac!accounts), AccountShape

(* A step that adds at most one user adds him to those with his address, to *)
(* nobody if an index refuses him. *)
LEMMA PresentAdded ==
    ASSUME AccountTypes, NEW u \in UserRows, ~u.deleted,
           users' = IF Ac!Refused(u) THEN users ELSE Append(users, u), NEW e
    PROVE  /\ Cardinality(Ac!Present(e)) \in Nat /\ Cardinality(Ac!Present(e))' \in Nat
           /\ Cardinality(Ac!Present(e))' <= Cardinality(Ac!Present(e)) + (IF u.email = e THEN 1 ELSE 0)
<1> DEFINE n == Len(users) + 1
<1>1. users \in Seq(UserRows) /\ Len(users) \in Nat /\ n \in Nat /\ DOMAIN users = 1..Len(users) /\ n \notin DOMAIN users
  BY DEF AccountTypes
<1>2. IsFiniteSet(1..n)
  BY ONLY <1>1, FS_Interval
<1>3. Ac!Present(e) = {m \in DOMAIN users : users[m].email = e /\ ~users[m].deleted}
  BY DEF Ac!Present, Ac!WithEmail
<1>4. Ac!Present(e)' = {m \in DOMAIN users' : users'[m].email = e /\ ~users'[m].deleted}
  BY DEF Ac!Present, Ac!WithEmail
<1>5. Ac!Present(e) \in SUBSET (1..n) /\ n \notin Ac!Present(e)
  BY ONLY <1>1, <1>3
<1>6. CASE users' = users
  <2>1. Ac!Present(e)' = Ac!Present(e)
    BY ONLY <1>3, <1>4, <1>6
  <2>2. Cardinality(Ac!Present(e)) \in Nat
    BY ONLY <1>2, <1>5, FS_Subset, FS_CardinalityType
  <2> QED
    BY ONLY <2>1, <2>2
<1>7. CASE users' = Append(users, u)
  <2>1. DOMAIN users' = 1..n /\ users'[n] = u /\ \A m \in DOMAIN users : users'[m] = users[m]
    BY ONLY <1>1, <1>7, u \in UserRows
  <2>2. Ac!Present(e)' \in SUBSET (1..n) /\ Ac!Present(e) \ {n} = Ac!Present(e)' \ {n}
    BY ONLY <1>1, <1>3, <1>4, <2>1
  <2>3. n \in Ac!Present(e)' => u.email = e
    BY ONLY <1>4, <2>1
  <2>4. /\ Cardinality(Ac!Present(e)) \in Nat /\ Cardinality(Ac!Present(e)') \in Nat
        /\ Cardinality(Ac!Present(e)') = Cardinality(Ac!Present(e))
             + (IF n \in Ac!Present(e)' THEN 1 ELSE 0) - (IF n \in Ac!Present(e) THEN 1 ELSE 0)
    BY ONLY <1>2, <1>5, <2>2, CountOne
  <2> QED
    BY ONLY <1>5, <2>3, <2>4
<1> QED
  BY <1>6, <1>7

(* A step that adds nobody and brings nobody back leaves no more of them. *)
LEMMA PresentKept ==
    ASSUME AccountTypes, DOMAIN users' = DOMAIN users, NEW e,
           \A n \in DOMAIN users : users'[n].email = users[n].email /\ (users[n].deleted => users'[n].deleted)
    PROVE  /\ Cardinality(Ac!Present(e)) \in Nat /\ Cardinality(Ac!Present(e))' \in Nat
           /\ Cardinality(Ac!Present(e))' <= Cardinality(Ac!Present(e))
<1>1. users \in Seq(UserRows) /\ Len(users) \in Nat /\ DOMAIN users = 1..Len(users)
  BY DEF AccountTypes
<1>2. IsFiniteSet(1..Len(users))
  BY ONLY <1>1, FS_Interval
<1>3. Ac!Present(e) \in SUBSET (1..Len(users)) /\ Ac!Present(e)' \in SUBSET Ac!Present(e)
  BY <1>1 DEF Ac!Present, Ac!WithEmail
<1> QED
  BY ONLY <1>2, <1>3, FS_Subset, FS_CardinalityType

(* Whoever may add a user with an address found nobody who has it, or a     *)
(* lookup failed. *)
LEMMA AccountsAdmitted ==
    AccountsInv /\ [Ac!Next]_(Ac!accounts) /\ OneWorks' => (\A e \in Emails : Admitted(e))'
<1> SUFFICES ASSUME AccountsInv, [Ac!Next]_(Ac!accounts), OneWorks', NEW e \in Emails PROVE Admitted(e)'
  OBVIOUS
<1> DEFINE P == Cardinality(Ac!Present(e))
           A == Cardinality(Adding(e))
<1>0. AccountTypes /\ Admitted(e) /\ \A h \in Handlers : RequestInv(h)
  BY DEF AccountsInv
<1>1. faults \in Nat /\ overlap' = overlap /\ AtOnce' = AtOnce /\ AtOnce \in Nat
  <2>1. faults \in Nat /\ Cardinality(Handlers) \in Nat
    BY <1>0, AccountsGiven, FS_CardinalityType DEF AccountTypes
  <2>2. overlap' = overlap
    BY <1>0, AccountShape DEF AtOneGo, Moves, Ac!accounts
  <2> QED
    BY ONLY <2>1, <2>2 DEF AtOnce
<1>2. P + A <= faults + AtOnce
  BY ONLY <1>0 DEF Admitted
<1>3. UNCHANGED users => P \in Nat /\ P' \in Nat /\ P' <= P
  BY ONLY <1>0, PresentKept
<1>4. ASSUME NEW found, Ac!NotFound(found) PROVE faults' \in Nat /\ faults' >= faults
  BY ONLY <1>1, <1>4 DEF Ac!NotFound
<1>a. ASSUME NEW h \in Handlers, NEW step, NEW j, pc' = [pc EXCEPT ![h] = step], job' = [job EXCEPT ![h] = j]
      PROVE  /\ A \in Nat /\ A' \in Nat
             /\ A' = A + MayAdd(step, j, e) - MayAdd(pc[h], job[h], e)
  <2>1. AccountTypes
    BY ONLY <1>0
  <2>2. /\ Cardinality(Adding(e)) \in Nat /\ Cardinality(Adding(e))' \in Nat
        /\ Cardinality(Adding(e))' = Cardinality(Adding(e))
             + MayAdd(step, j, e) - MayAdd(pc[h], job[h], e)
    BY ONLY <1>a, <2>1, h \in Handlers, AddingCount
  <2> QED
    BY ONLY <2>2
<1>5. ASSUME NEW h \in Handlers, NEW step, NEW j, pc' = [pc EXCEPT ![h] = step], job' = [job EXCEPT ![h] = j],
             step \in AddSteps => pc[h] \in AddSteps /\ j.email = job[h].email,
             P \in Nat, P' \in Nat, P' <= P, faults' \in Nat, faults' >= faults
      PROVE  Admitted(e)'
  <2>1. A \in Nat /\ A' \in Nat /\ A' <= A
    <3>1. /\ A \in Nat /\ A' \in Nat
          /\ A' = A + MayAdd(step, j, e) - MayAdd(pc[h], job[h], e)
      BY ONLY <1>a, <1>5, h \in Handlers
    <3> QED
      BY ONLY <1>5, <3>1 DEF MayAdd
  <2> QED
    BY ONLY <1>1, <1>2, <1>5, <2>1 DEF Admitted
<1>6. ASSUME NEW h \in Handlers, NEW step, NEW j, pc' = [pc EXCEPT ![h] = step], job' = [job EXCEPT ![h] = j],
             UNCHANGED users, pc[h] \notin AddSteps, NEW found \in BOOLEAN, Ac!NotFound(found),
             ~found => Ac!Present(j.email) = {}
      PROVE  Admitted(e)'
  <2>0. pc' = [pc EXCEPT ![h] = step] /\ job' = [job EXCEPT ![h] = j]
    BY ONLY <1>6
  <2>1. /\ A \in Nat /\ A' \in Nat
        /\ A' = A + MayAdd(step, j, e) - MayAdd(pc[h], job[h], e)
    BY ONLY <1>a, <2>0, h \in Handlers
  <2>2. P \in Nat /\ P' \in Nat /\ P' <= P /\ faults' \in Nat /\ faults' >= faults
    BY ONLY <1>3, <1>4, <1>6
  <2>3. CASE step \in AddSteps /\ j.email = e
    <3>1. A' = A + 1
      BY ONLY <1>6, <2>1, <2>3 DEF MayAdd
    <3>2. CASE ~found
      <4>1. P = 0
        BY ONLY <1>6, <2>3, <3>2, FS_EmptySet
      <4>2. OneWorks' => (\A S \in SUBSET Working : Cardinality(S) \in Nat /\ Cardinality(S) <= AtOnce)'
        BY WithinAtOnce, PTL
      <4>3. Adding(e)' \in SUBSET Working'
        BY DEF Adding, Working, AddSteps
      <4>4. A' <= AtOnce'
        BY ONLY OneWorks', <4>2, <4>3
      <4> QED
        BY ONLY <1>1, <2>1, <2>2, <4>1, <4>4 DEF Admitted
    <3>3. CASE faults' = faults + 1
      BY ONLY <1>1, <1>2, <2>1, <2>2, <3>1, <3>3 DEF Admitted
    <3> QED
      BY ONLY <1>6, <3>2, <3>3 DEF Ac!NotFound
  <2>4. CASE ~(step \in AddSteps /\ j.email = e)
    <3>1. A' = A
      BY ONLY <1>6, <2>1, <2>4 DEF MayAdd
    <3> QED
      BY ONLY <1>1, <1>2, <2>1, <2>2, <3>1 DEF Admitted
  <2> QED
    BY ONLY <2>3, <2>4
<1>7. ASSUME NEW h \in Handlers, NEW u \in UserRows, ~u.deleted, pc[h] \in AddSteps, job[h].email = u.email,
             pc' = [pc EXCEPT ![h] = "idle"], job' = [job EXCEPT ![h] = Ac!NoJob], faults' = faults,
             users' = IF Ac!Refused(u) THEN users ELSE Append(users, u)
      PROVE  Admitted(e)'
  <2>0. pc' = [pc EXCEPT ![h] = "idle"] /\ job' = [job EXCEPT ![h] = Ac!NoJob]
    BY ONLY <1>7
  <2>1. /\ A \in Nat /\ A' \in Nat
        /\ A' = A + MayAdd("idle", Ac!NoJob, e) - MayAdd(pc[h], job[h], e)
    BY ONLY <1>a, <2>0, h \in Handlers
  <2>2. /\ P \in Nat /\ P' \in Nat
        /\ P' <= P + (IF u.email = e THEN 1 ELSE 0)
    BY ONLY <1>0, <1>7, u \in UserRows, PresentAdded
  <2>3. "idle" \notin AddSteps
    BY ONLY DEF AddSteps
  <2>4. P' + A' <= P + A
    BY ONLY <1>7, <2>1, <2>2, <2>3 DEF MayAdd
  <2> QED
    BY ONLY <1>1, <1>2, <1>7, <2>1, <2>2, <2>4 DEF Admitted
<1>8. ASSUME UNCHANGED <<pc, job>>, P \in Nat, P' \in Nat, P' <= P, faults' = faults PROVE Admitted(e)'
  <2>1. A' = A /\ A \in Nat
    <3>1. Adding(e) \in SUBSET Handlers /\ Adding(e)' = Adding(e)
      BY ONLY <1>8 DEF Adding
    <3> QED
      BY ONLY <3>1, AccountsGiven, FS_Subset, FS_CardinalityType
  <2> QED
    BY ONLY <1>1, <1>2, <1>8, <2>1 DEF Admitted
<1>9. ASSUME NEW h \in Handlers, NEW f \in Emails, NEW t \in Tenants, NEW g \in Emails, NEW n \in {0, 2},
             Ac!RegisterLookup(h, f, t, <<g, n>>)
      PROVE  Admitted(e)'
  <2>1. PICK j : j = [Ac!NoJob EXCEPT !.email = f, !.tenant = t, !.name = <<g, n>>]
    OBVIOUS
  <2>2. /\ pc[h] = "idle" /\ Ac!NotFound(Ac!WithEmail(f) # {})
        /\ pc' = [pc EXCEPT ![h] = "register"] /\ job' = [job EXCEPT ![h] = j] /\ UNCHANGED users
    BY ONLY <1>9, <2>1 DEF Ac!RegisterLookup, Ac!Start, Ac!Continue, Ac!Goto
  <2>3. j.email = f
    BY ONLY <2>1 DEF Ac!NoJob
  <2>4. PICK found \in BOOLEAN : found = (Ac!WithEmail(f) # {})
    OBVIOUS
  <2>5. ~found => Ac!Present(j.email) = {}
    BY ONLY <2>3, <2>4 DEF Ac!Present
  <2>6. pc[h] \notin AddSteps
    BY ONLY <2>2 DEF AddSteps
  <2> QED
    BY ONLY <1>6, <2>2, <2>4, <2>5, <2>6, h \in Handlers, found \in BOOLEAN
<1>10. ASSUME NEW h \in Handlers, Ac!RegisterInsert(h) PROVE Admitted(e)'
  <2>1. PICK u : u = Ac!NewUser(job[h].email, job[h].tenant, job[h].name, FALSE)
    OBVIOUS
  <2>2. /\ pc[h] = "register" /\ pc' = [pc EXCEPT ![h] = "idle"] /\ job' = [job EXCEPT ![h] = Ac!NoJob]
        /\ users' = IF Ac!Refused(u) THEN users ELSE Append(users, u)
        /\ faults' = faults
    BY ONLY <1>10, <2>1 DEF Ac!RegisterInsert, Ac!Return, Ac!Goto
  <2>3. u \in UserRows /\ ~u.deleted /\ job[h].email = u.email
    BY <1>0, <2>1, <2>2 DEF RequestInv, Ac!NewUser, UserRows
  <2>4. pc[h] \in AddSteps
    BY ONLY <2>2 DEF AddSteps
  <2> QED
    BY ONLY <1>7, <2>2, <2>3, <2>4, h \in Handlers
<1>11. ASSUME NEW h \in Handlers, NEW n \in DOMAIN users, Ac!DeleteUser(h, n) PROVE Admitted(e)'
  <2>1. users' = [users EXCEPT ![n].deleted = TRUE] /\ UNCHANGED <<pc, job, faults>> /\ users[n] \in UserRows
    BY <1>0, <1>11 DEF Ac!DeleteUser, AccountTypes
  <2>2. PICK u : u = [users[n] EXCEPT !.deleted = TRUE]
    OBVIOUS
  <2>3. u.email = users[n].email /\ u.deleted
    BY ONLY <2>1, <2>2 DEF UserRows
  <2>4. users' = [users EXCEPT ![n] = u]
    BY ONLY <2>1, <2>2
  <2>5. /\ DOMAIN users' = DOMAIN users
        /\ \A m \in DOMAIN users : users'[m].email = users[m].email /\ (users[m].deleted => users'[m].deleted)
    BY ONLY <2>3, <2>4
  <2>6. P \in Nat /\ P' \in Nat /\ P' <= P
    BY ONLY <1>0, <2>5, PresentKept
  <2> QED
    BY ONLY <1>8, <2>1, <2>6
<1>12. ASSUME NEW h \in Handlers, NEW s \in States, Ac!GoogleLogin(h, s) PROVE Admitted(e)'
  BY ONLY <1>3, <1>8, <1>12 DEF Ac!GoogleLogin
<1>13. ASSUME NEW h \in Handlers, NEW s \in States, NEW f \in Emails, Ac!Callback(h, s, f) PROVE Admitted(e)'
  <2>1. PICK j : pc' = [pc EXCEPT ![h] = "delete"] /\ UNCHANGED <<users, faults>> /\ job' = [job EXCEPT ![h] = j]
    BY ONLY <1>13 DEF Ac!Callback, Ac!Continue, Ac!Goto
  <2>2. "delete" \notin AddSteps /\ faults' \in Nat /\ faults' >= faults
    BY ONLY <1>1, <2>1 DEF AddSteps
  <2> QED
    BY ONLY <1>3, <1>5, <2>1, <2>2, h \in Handlers
<1>14. ASSUME NEW h \in Handlers, Ac!DeleteState(h) PROVE Admitted(e)'
  <2>1. pc' = [pc EXCEPT ![h] = "byGoogle"] /\ job' = [job EXCEPT ![h] = job[h]] /\ UNCHANGED <<users, faults>>
    BY ONLY <1>14 DEF Ac!DeleteState, Ac!Continue, Ac!Goto
  <2>2. "byGoogle" \notin AddSteps /\ faults' \in Nat /\ faults' >= faults
    BY ONLY <1>1, <2>1 DEF AddSteps
  <2> QED
    BY ONLY <1>3, <1>5, <2>1, <2>2, h \in Handlers
<1>15. ASSUME NEW h \in Handlers, Ac!ByGoogleId(h) PROVE Admitted(e)'
  <2>1. PICK step \in {"idle", "byEmail"}, j \in {Ac!NoJob, job[h]} :
          /\ pc' = [pc EXCEPT ![h] = step] /\ job' = [job EXCEPT ![h] = j] /\ UNCHANGED users
          /\ faults' = faults \/ \E found : Ac!NotFound(found)
    BY ONLY <1>15 DEF Ac!ByGoogleId, Ac!Return, Ac!Continue, Ac!Goto
  <2>2. step \notin AddSteps
    BY ONLY step \in {"idle", "byEmail"} DEF AddSteps
  <2>3. faults' \in Nat /\ faults' >= faults
    BY ONLY <1>1, <1>4, <2>1
  <2> QED
    BY ONLY <1>3, <1>5, <2>1, <2>2, <2>3, h \in Handlers
<1>16. ASSUME NEW h \in Handlers, Ac!ByEmail(h) PROVE Admitted(e)'
  <2>1. pc[h] = "byEmail" /\ UNCHANGED users
    BY ONLY <1>16 DEF Ac!ByEmail
  <2>2. ASSUME NEW n \in Ac!Present(job[h].email), Ac!Continue(h, "link", [job[h] EXCEPT !.row = n]), UNCHANGED faults
        PROVE  Admitted(e)'
    <3>1. PICK j : pc' = [pc EXCEPT ![h] = "link"] /\ job' = [job EXCEPT ![h] = j]
      BY ONLY <2>2 DEF Ac!Continue, Ac!Goto
    <3>2. "link" \notin AddSteps /\ faults' \in Nat /\ faults' >= faults
      BY ONLY <1>1, <2>2 DEF AddSteps
    <3> QED
      BY ONLY <1>3, <1>5, <2>1, <3>1, <3>2, h \in Handlers
  <2>3. ASSUME Ac!NotFound(Ac!Present(job[h].email) # {}), Ac!Continue(h, "tenant", job[h]) PROVE Admitted(e)'
    <3>1. pc' = [pc EXCEPT ![h] = "tenant"] /\ job' = [job EXCEPT ![h] = job[h]]
      BY ONLY <2>3 DEF Ac!Continue, Ac!Goto
    <3>2. PICK found \in BOOLEAN : found = (Ac!Present(job[h].email) # {})
      OBVIOUS
    <3>3. pc[h] \notin AddSteps
      BY ONLY <2>1 DEF AddSteps
    <3> QED
      BY ONLY <1>6, <2>1, <2>3, <3>1, <3>2, <3>3, h \in Handlers, found \in BOOLEAN
  <2> QED
    BY ONLY <1>16, <2>2, <2>3 DEF Ac!ByEmail
<1>17. ASSUME NEW h \in Handlers, Ac!Link(h) PROVE Admitted(e)'
  <2> DEFINE n == job[h].row
  <2>1. /\ pc[h] = "link" /\ users' = [users EXCEPT ![n].google = TRUE] /\ faults' = faults
        /\ pc' = [pc EXCEPT ![h] = "idle"] /\ job' = [job EXCEPT ![h] = Ac!NoJob]
    BY ONLY <1>17 DEF Ac!Link, Ac!Return, Ac!Goto
  <2>2. n \in DOMAIN users /\ users[n] \in UserRows
    BY <1>0, <2>1 DEF RequestInv, AccountTypes
  <2>3. PICK u : u = [users[n] EXCEPT !.google = TRUE]
    OBVIOUS
  <2>4. u.email = users[n].email /\ u.deleted = users[n].deleted
    BY ONLY <2>2, <2>3 DEF UserRows
  <2>5. users' = [users EXCEPT ![n] = u]
    BY ONLY <2>1, <2>3
  <2>6. /\ DOMAIN users' = DOMAIN users
        /\ \A m \in DOMAIN users : users'[m].email = users[m].email /\ (users[m].deleted => users'[m].deleted)
    BY ONLY <2>4, <2>5
  <2>7. P \in Nat /\ P' \in Nat /\ P' <= P
    BY ONLY <1>0, <2>6, PresentKept
  <2>8. "idle" \notin AddSteps /\ faults' \in Nat /\ faults' >= faults
    BY ONLY <1>1, <2>1 DEF AddSteps
  <2> QED
    BY ONLY <1>5, <2>1, <2>7, <2>8, h \in Handlers
<1>18. ASSUME NEW h \in Handlers, Ac!CreateTenant(h) PROVE Admitted(e)'
  <2>1. PICK step, j :
          /\ pc[h] = "tenant" /\ pc' = [pc EXCEPT ![h] = step] /\ job' = [job EXCEPT ![h] = j]
          /\ UNCHANGED <<users, faults>> /\ (step = "idle" \/ j = job[h])
    BY ONLY <1>18 DEF Ac!CreateTenant, Ac!Return, Ac!Continue, Ac!Goto
  <2>2. step \in AddSteps => pc[h] \in AddSteps /\ j.email = job[h].email
    BY ONLY <2>1 DEF AddSteps
  <2>3. faults' \in Nat /\ faults' >= faults
    BY ONLY <1>1, <2>1
  <2> QED
    BY ONLY <1>3, <1>5, <2>1, <2>2, <2>3, h \in Handlers
<1>19. ASSUME NEW h \in Handlers, Ac!GenerateUsername(h) PROVE Admitted(e)'
  <2>1. PICK w : /\ pc[h] = "name" /\ UNCHANGED <<users, faults>>
                 /\ pc' = [pc EXCEPT ![h] = "create"] /\ job' = [job EXCEPT ![h] = [job[h] EXCEPT !.name = w]]
    BY ONLY <1>19 DEF Ac!GenerateUsername, Ac!Continue, Ac!Goto
  <2>2. job[h] \in AccountJobs
    BY <1>0 DEF AccountTypes
  <2>3. PICK j : j = [job[h] EXCEPT !.name = w]
    OBVIOUS
  <2>4. j.email = job[h].email
    BY ONLY <2>2, <2>3 DEF AccountJobs
  <2>5. job' = [job EXCEPT ![h] = j]
    BY ONLY <2>1, <2>3
  <2>6. pc[h] \in AddSteps /\ faults' \in Nat /\ faults' >= faults
    BY ONLY <1>1, <2>1 DEF AddSteps
  <2> QED
    BY ONLY <1>3, <1>5, <2>1, <2>4, <2>5, <2>6, h \in Handlers
<1>20. ASSUME NEW h \in Handlers, Ac!CreateGoogleUser(h) PROVE Admitted(e)'
  <2>1. PICK u : u = Ac!NewUser(job[h].email, "signup", job[h].name, TRUE)
    OBVIOUS
  <2>2. /\ pc[h] = "create" /\ pc' = [pc EXCEPT ![h] = "idle"] /\ job' = [job EXCEPT ![h] = Ac!NoJob]
        /\ users' = IF Ac!Refused(u) THEN users ELSE Append(users, u)
        /\ faults' = faults
    BY ONLY <1>20, <2>1 DEF Ac!CreateGoogleUser, Ac!Return, Ac!Goto
  <2>3. u \in UserRows /\ ~u.deleted /\ job[h].email = u.email
    BY <1>0, <2>1, <2>2 DEF RequestInv, Ac!NewUser, UserRows
  <2>4. pc[h] \in AddSteps
    BY ONLY <2>2 DEF AddSteps
  <2> QED
    BY ONLY <1>7, <2>2, <2>3, <2>4, h \in Handlers
<1>21. ASSUME NEW h \in Handlers, NEW d \in Devices, Ac!DeviceLookup(h, d) PROVE Admitted(e)'
  <2>1. PICK j :
          /\ pc' = [pc EXCEPT ![h] = "device"] /\ job' = [job EXCEPT ![h] = j] /\ UNCHANGED users
          /\ faults' = faults \/ \E found : Ac!NotFound(found)
    BY ONLY <1>21 DEF Ac!DeviceLookup, Ac!Continue, Ac!Goto
  <2>2. "device" \notin AddSteps
    BY ONLY DEF AddSteps
  <2>3. faults' \in Nat /\ faults' >= faults
    BY ONLY <1>1, <1>4, <2>1
  <2> QED
    BY ONLY <1>3, <1>5, <2>1, <2>2, <2>3, h \in Handlers
<1>22. ASSUME NEW h \in Handlers, Ac!DeviceSave(h) PROVE Admitted(e)'
  <2>1. pc' = [pc EXCEPT ![h] = "idle"] /\ job' = [job EXCEPT ![h] = Ac!NoJob] /\ UNCHANGED <<users, faults>>
    BY ONLY <1>22 DEF Ac!DeviceSave, Ac!Return, Ac!Goto
  <2>2. "idle" \notin AddSteps /\ faults' \in Nat /\ faults' >= faults
    BY ONLY <1>1, <2>1 DEF AddSteps
  <2> QED
    BY ONLY <1>3, <1>5, <2>1, <2>2, h \in Handlers
<1>23. CASE UNCHANGED Ac!accounts
  BY <1>3, <1>8, <1>23 DEF Ac!accounts
<1>24. ASSUME Ac!Next PROVE Admitted(e)'
  <2>1. PICK h \in Handlers :
          \/ \E f \in Emails, t \in Tenants, g \in Emails, n \in {0, 2} : Ac!RegisterLookup(h, f, t, <<g, n>>)
          \/ \E n \in DOMAIN users : Ac!DeleteUser(h, n)
          \/ \E s \in States : Ac!GoogleLogin(h, s) \/ \E f \in Emails : Ac!Callback(h, s, f)
          \/ Ac!RegisterInsert(h) \/ Ac!DeleteState(h) \/ Ac!ByGoogleId(h) \/ Ac!ByEmail(h) \/ Ac!Link(h)
          \/ Ac!CreateTenant(h) \/ Ac!GenerateUsername(h) \/ Ac!CreateGoogleUser(h)
          \/ \E d \in Devices : Ac!DeviceLookup(h, d)
          \/ Ac!DeviceSave(h)
    BY ONLY <1>24, AccountsNext
  <2> QED
    BY ONLY <1>9, <1>10, <1>11, <1>12, <1>13, <1>14, <1>15, <1>16, <1>17, <1>18, <1>19, <1>20, <1>21, <1>22, <2>1
<1> QED
  BY ONLY <1>23, <1>24, [Ac!Next]_(Ac!accounts)

(* The indexes keep a tenant from having an address twice. *)
LEMMA AccountsUnique == AccountsInv /\ [Ac!Next]_(Ac!accounts) => OncePerTenant'
<1> SUFFICES ASSUME AccountsInv, [Ac!Next]_(Ac!accounts) PROVE OncePerTenant'
  OBVIOUS
<1>0. OncePerTenant /\ users \in Seq(UserRows) /\ \A h \in Handlers : RequestInv(h)
  BY DEF AccountsInv, AccountTypes
<1>1. CASE users' = users
  BY ONLY <1>0, <1>1 DEF OncePerTenant
<1>2. ASSUME NEW u, users' = IF Ac!Refused(u) THEN users ELSE Append(users, u) PROVE OncePerTenant'
  <2>1. CASE ~Ac!Refused(u)
    <3>1. \A n \in DOMAIN users : ~(users[n].email = u.email /\ users[n].tenant = u.tenant)
      BY ONLY <2>1 DEF Ac!Refused
    <3>2. /\ DOMAIN users' = DOMAIN users \cup {Len(users) + 1} /\ users'[Len(users) + 1] = u
          /\ \A n \in DOMAIN users : users'[n] = users[n] /\ n # Len(users) + 1
      BY ONLY <1>0, <1>2, <2>1
    <3> QED
      BY ONLY <1>0, <3>1, <3>2 DEF OncePerTenant
  <2> QED
    BY ONLY <1>1, <1>2, <2>1
<1>3. ASSUME NEW n \in DOMAIN users, NEW u, u.email = users[n].email, u.tenant = users[n].tenant,
             users' = [users EXCEPT ![n] = u]
      PROVE  OncePerTenant'
  BY ONLY <1>0, <1>3, n \in DOMAIN users DEF OncePerTenant
<1>4. ASSUME NEW h \in Handlers, NEW n \in DOMAIN users, Ac!DeleteUser(h, n) PROVE OncePerTenant'
  <2>1. PICK u : u = [users[n] EXCEPT !.deleted = TRUE]
    OBVIOUS
  <2>2. users' = [users EXCEPT ![n] = u] /\ users[n] \in UserRows
    BY <1>0, <1>4, <2>1 DEF Ac!DeleteUser
  <2>3. u.email = users[n].email /\ u.tenant = users[n].tenant
    BY ONLY <2>1, <2>2 DEF UserRows
  <2> QED
    BY ONLY <1>3, <2>2, <2>3, n \in DOMAIN users
<1>5. ASSUME NEW h \in Handlers, Ac!Link(h) PROVE OncePerTenant'
  <2> DEFINE n == job[h].row
  <2>1. PICK u : u = [users[n] EXCEPT !.google = TRUE]
    OBVIOUS
  <2>2. n \in DOMAIN users
    BY <1>0, <1>5 DEF Ac!Link, RequestInv
  <2>3. users' = [users EXCEPT ![n] = u] /\ users[n] \in UserRows
    BY <1>0, <1>5, <2>1, <2>2 DEF Ac!Link
  <2>4. u.email = users[n].email /\ u.tenant = users[n].tenant
    BY ONLY <2>1, <2>3 DEF UserRows
  <2> QED
    BY ONLY <1>3, <2>2, <2>3, <2>4
<1>6. ASSUME NEW h \in Handlers, Ac!RegisterInsert(h) \/ Ac!CreateGoogleUser(h) PROVE OncePerTenant'
  BY ONLY <1>2, <1>6 DEF Ac!RegisterInsert, Ac!CreateGoogleUser
<1>7. ASSUME ~\E h \in Handlers : \/ \E n \in DOMAIN users : Ac!DeleteUser(h, n)
                                 \/ Ac!Link(h) \/ Ac!RegisterInsert(h) \/ Ac!CreateGoogleUser(h),
             Ac!Next
      PROVE  users' = users
  BY ONLY <1>7, AccountsNext, ZenonT(60) DEF Ac!RegisterLookup, Ac!GoogleLogin, Ac!Callback, Ac!DeleteState, Ac!ByGoogleId, Ac!ByEmail,
          Ac!CreateTenant, Ac!GenerateUsername, Ac!DeviceLookup, Ac!DeviceSave
<1>8. CASE UNCHANGED Ac!accounts
  BY ONLY <1>1, <1>8 DEF Ac!accounts
<1> QED
  BY ONLY <1>1, <1>4, <1>5, <1>6, <1>7, <1>8, [Ac!Next]_(Ac!accounts)

(* Which steps concern a state. *)
LEMMA StateSteps ==
    ASSUME Ac!Next
    PROVE  \E h \in Handlers :
              \/ \E s \in States : Ac!GoogleLogin(h, s) \/ \E e \in Emails : Ac!Callback(h, s, e)
              \/ Ac!DeleteState(h)
              \/ /\ UNCHANGED <<states, accepted>>
                 /\ \/ UNCHANGED <<pc, job>>
                    \/ \E step, j : /\ pc[h] # "delete" /\ step # "delete"
                                    /\ pc' = [pc EXCEPT ![h] = step] /\ job' = [job EXCEPT ![h] = j]
<1>1. PICK h \in Handlers :
        \/ \E e \in Emails, t \in Tenants, f \in Emails, n \in {0, 2} : Ac!RegisterLookup(h, e, t, <<f, n>>)
        \/ \E n \in DOMAIN users : Ac!DeleteUser(h, n)
        \/ \E s \in States : Ac!GoogleLogin(h, s) \/ \E e \in Emails : Ac!Callback(h, s, e)
        \/ Ac!RegisterInsert(h) \/ Ac!DeleteState(h) \/ Ac!ByGoogleId(h) \/ Ac!ByEmail(h) \/ Ac!Link(h)
        \/ Ac!CreateTenant(h) \/ Ac!GenerateUsername(h) \/ Ac!CreateGoogleUser(h)
        \/ \E d \in Devices : Ac!DeviceLookup(h, d)
        \/ Ac!DeviceSave(h)
  BY ONLY Ac!Next, AccountsNext
<1> DEFINE Elsewhere == \E step, j : /\ pc[h] # "delete" /\ step # "delete"
                                     /\ pc' = [pc EXCEPT ![h] = step] /\ job' = [job EXCEPT ![h] = j]
<1>2. ASSUME NEW e, NEW t, NEW n, Ac!RegisterLookup(h, e, t, n) PROVE Elsewhere /\ UNCHANGED <<states, accepted>>
  BY ONLY <1>2 DEF Ac!RegisterLookup, Ac!Start, Ac!Continue, Ac!Goto
<1>3. ASSUME NEW n, Ac!DeleteUser(h, n) PROVE UNCHANGED <<states, accepted, pc, job>>
  BY ONLY <1>3 DEF Ac!DeleteUser
<1>4. ASSUME Ac!RegisterInsert(h) \/ Ac!Link(h) \/ Ac!CreateGoogleUser(h) \/ Ac!DeviceSave(h)
      PROVE  Elsewhere /\ UNCHANGED <<states, accepted>>
  BY ONLY <1>4, ZenonT(60) DEF Ac!RegisterInsert, Ac!Link, Ac!CreateGoogleUser, Ac!DeviceSave, Ac!Return, Ac!Goto
<1>5. ASSUME Ac!ByGoogleId(h) \/ Ac!CreateTenant(h) PROVE Elsewhere /\ UNCHANGED <<states, accepted>>
  BY ONLY <1>5, ZenonT(60) DEF Ac!ByGoogleId, Ac!CreateTenant, Ac!Return, Ac!Continue, Ac!Goto
<1>6. ASSUME Ac!ByEmail(h) \/ Ac!GenerateUsername(h) PROVE Elsewhere /\ UNCHANGED <<states, accepted>>
  BY ONLY <1>6 DEF Ac!ByEmail, Ac!GenerateUsername, Ac!Continue, Ac!Goto
<1>7. ASSUME NEW d, Ac!DeviceLookup(h, d) PROVE Elsewhere /\ UNCHANGED <<states, accepted>>
  BY ONLY <1>7 DEF Ac!DeviceLookup, Ac!Start, Ac!Continue, Ac!Goto
<1> HIDE DEF Elsewhere
<1>8. \/ \E s \in States : Ac!GoogleLogin(h, s) \/ \E e \in Emails : Ac!Callback(h, s, e)
      \/ Ac!DeleteState(h)
      \/ UNCHANGED <<states, accepted>> /\ (UNCHANGED <<pc, job>> \/ Elsewhere)
  BY ONLY <1>1, <1>2, <1>3, <1>4, <1>5, <1>6, <1>7
<1> QED
  BY ONLY <1>8, h \in Handlers DEF Elsewhere

(* A state lets through the callbacks that found it before it was deleted. *)
LEMMA AccountsStates ==
    AccountsInv /\ [Ac!Next]_(Ac!accounts) /\ OneWorks' => (\A s \in States : StateInv(s))'
<1> SUFFICES ASSUME AccountsInv, [Ac!Next]_(Ac!accounts), OneWorks', NEW s \in States PROVE StateInv(s)'
  OBVIOUS
<1> DEFINE H == Cardinality(Holding(s))
<1>0. AccountTypes /\ StateInv(s) /\ accepted \in [States -> Nat] /\ accepted[s] \in Nat /\ \A h \in Handlers : RequestInv(h)
  BY DEF AccountsInv, AccountTypes
<1>1. AtOnce' = AtOnce /\ AtOnce \in Nat
  <2>1. Cardinality(Handlers) \in Nat
    BY AccountsGiven, FS_CardinalityType
  <2>2. overlap' = overlap
    BY <1>0, AccountShape DEF AtOneGo, Moves, Ac!accounts
  <2> QED
    BY ONLY <2>1, <2>2 DEF AtOnce
<1>2. ASSUME UNCHANGED <<states, accepted>>, H' = H PROVE StateInv(s)'
  BY ONLY <1>0, <1>1, <1>2 DEF StateInv
<1>3. ASSUME UNCHANGED <<pc, job>> PROVE H' = H
  BY ONLY <1>3 DEF Holding
<1>4. ASSUME NEW h \in Handlers, NEW t \in States, Ac!GoogleLogin(h, t) PROVE StateInv(s)'
  <2>1. accepted' = accepted /\ states' = states \cup {t} /\ accepted[t] = 0 /\ UNCHANGED <<pc, job>>
    BY ONLY <1>4 DEF Ac!GoogleLogin
  <2>2. CASE s = t
    <3>1. Holding(s)' = {}
      <4>1. \A g \in Handlers : ~(pc[g] = "delete" /\ job[g].copy = s)
        BY <1>0, <2>1, <2>2 DEF RequestInv
      <4> QED
        BY ONLY <2>1, <4>1 DEF Holding
    <3>2. H' = 0
      BY ONLY <3>1, FS_EmptySet
    <3> QED
      BY ONLY <1>0, <1>1, <2>1, <2>2, <3>2 DEF StateInv
  <2>3. CASE s # t
    BY ONLY <1>0, <1>1, <1>3, <2>1, <2>3 DEF StateInv
  <2> QED
    BY ONLY <2>2, <2>3
<1>5. ASSUME NEW h \in Handlers, NEW t \in States, NEW e \in Emails, Ac!Callback(h, t, e) PROVE StateInv(s)'
  <2>1. PICK j : j = [Ac!NoJob EXCEPT !.email = e, !.copy = t]
    OBVIOUS
  <2>2. /\ pc[h] = "idle" /\ pc' = [pc EXCEPT ![h] = "delete"] /\ job' = [job EXCEPT ![h] = j]
        /\ states' = states /\ t \in states /\ accepted' = [accepted EXCEPT ![t] = @ + 1]
    BY ONLY <1>5, <2>1 DEF Ac!Callback, Ac!Start, Ac!Continue, Ac!Goto
  <2>3. j.copy = t
    BY ONLY <2>1 DEF Ac!NoJob
  <2>4. H \in Nat /\ H' \in Nat /\ H' = H + Holds("delete", j, s) - Holds(pc[h], job[h], s)
    BY ONLY <1>0, <2>2, h \in Handlers, HoldingCount
  <2>5. CASE s = t
    <3>1. H' = H + 1 /\ accepted'[s] = accepted[s] + 1
      BY ONLY <1>0, <2>2, <2>3, <2>4, <2>5, s \in States DEF Holds
    <3>2. OneWorks' => (\A S \in SUBSET Working : Cardinality(S) \in Nat /\ Cardinality(S) <= AtOnce)'
      BY WithinAtOnce, PTL
    <3>3. Holding(s)' \in SUBSET Working'
      BY ONLY DEF Holding, Working
    <3>4. H' <= AtOnce'
      BY ONLY OneWorks', <3>2, <3>3
    <3> QED
      BY ONLY <1>0, <2>2, <2>4, <2>5, <3>1, <3>4 DEF StateInv
  <2>6. CASE s # t
    <3>1. H' = H /\ accepted'[s] = accepted[s]
      BY ONLY <1>0, <2>2, <2>3, <2>4, <2>6, s \in States DEF Holds
    <3> QED
      BY ONLY <1>0, <1>1, <2>2, <3>1 DEF StateInv
  <2> QED
    BY ONLY <2>5, <2>6
<1>6. ASSUME NEW h \in Handlers, Ac!DeleteState(h) PROVE StateInv(s)'
  <2>1. /\ pc[h] = "delete" /\ pc' = [pc EXCEPT ![h] = "byGoogle"] /\ job' = [job EXCEPT ![h] = job[h]]
        /\ states' = states \ {job[h].copy} /\ accepted' = accepted
    BY ONLY <1>6 DEF Ac!DeleteState, Ac!Continue, Ac!Goto
  <2>2. H \in Nat /\ H' \in Nat /\ H' = H + Holds("byGoogle", job[h], s) - Holds(pc[h], job[h], s)
    BY ONLY <1>0, <2>1, h \in Handlers, HoldingCount
  <2>3. job[h].copy # s => H' = H
    BY ONLY <2>1, <2>2 DEF Holds
  <2> QED
    BY ONLY <1>0, <1>1, <2>1, <2>3 DEF StateInv
<1>7. ASSUME NEW h \in Handlers, NEW step, NEW j, pc[h] # "delete", step # "delete",
             pc' = [pc EXCEPT ![h] = step], job' = [job EXCEPT ![h] = j]
      PROVE  H' = H
  <2>1. pc' = [pc EXCEPT ![h] = step] /\ job' = [job EXCEPT ![h] = j]
    BY ONLY <1>7
  <2>2. H \in Nat /\ H' \in Nat /\ H' = H + Holds(step, j, s) - Holds(pc[h], job[h], s)
    BY ONLY <1>0, <2>1, h \in Handlers, HoldingCount
  <2> QED
    BY ONLY <1>7, <2>2 DEF Holds
<1>8. CASE UNCHANGED Ac!accounts
  BY ONLY <1>2, <1>3, <1>8 DEF Ac!accounts
<1>9. ASSUME Ac!Next PROVE StateInv(s)'
  BY ONLY <1>2, <1>3, <1>4, <1>5, <1>6, <1>7, <1>9, StateSteps
<1> QED
  BY ONLY <1>8, <1>9, [Ac!Next]_(Ac!accounts)

(* A lost update of a device only delays its trust. *)
LEMMA AccountsDevices ==
    AccountsInv /\ [Ac!Next]_(Ac!accounts) => (\A n \in DOMAIN devices : Lags(devices[n]))'
<1> SUFFICES ASSUME AccountsInv, [Ac!Next]_(Ac!accounts) PROVE \A n \in DOMAIN devices' : Lags(devices[n])'
  OBVIOUS
<1>0. /\ devices \in Seq(DeviceRows) /\ logins \in [Devices -> Nat] /\ TrustAfter \in Nat
      /\ (\A n \in DOMAIN devices : Lags(devices[n])) /\ \A h \in Handlers : RequestInv(h)
  BY AccountsGiven DEF AccountsInv, AccountTypes
<1>1. ASSUME UNCHANGED <<devices, logins>> PROVE \A n \in DOMAIN devices' : Lags(devices[n])'
  BY ONLY <1>0, <1>1 DEF Lags
<1>2. ASSUME NEW h \in Handlers, Ac!DeviceSave(h) PROVE \A n \in DOMAIN devices' : Lags(devices[n])'
  <2> DEFINE c == job[h].copy
             m == job[h].row
  <2>1. /\ pc[h] = "device" /\ logins' = [logins EXCEPT ![c.device] = @ + 1]
        /\ devices' = IF m = 0 THEN Append(devices, c) ELSE [devices EXCEPT ![m] = Ac!Updated(c)]
    BY ONLY <1>2 DEF Ac!DeviceSave
  <2>2. /\ c \in DeviceRows
        /\ m = 0 => c.count = 0 /\ ~c.trusted
        /\ m # 0 => m \in DOMAIN devices /\ Lags(c)
    BY <1>0, <2>1 DEF RequestInv
  <2>3. /\ c.device \in Devices /\ c.count \in Nat /\ logins[c.device] \in Nat
        /\ logins'[c.device] = logins[c.device] + 1
        /\ \A d \in Devices : logins[d] \in Nat /\ logins'[d] \in Nat /\ logins'[d] >= logins[d]
    <3>1. c.device \in Devices /\ c.count \in Nat
      BY ONLY <2>2 DEF DeviceRows
    <3>2. logins \in [Devices -> Nat]
      BY ONLY <1>0
    <3>3. \A d \in Devices : logins'[d] = IF d = c.device THEN logins[d] + 1 ELSE logins[d]
      BY ONLY <2>1, <3>1, <3>2
    <3> QED
      BY ONLY <3>1, <3>2, <3>3
  <2>4. ASSUME NEW d \in DeviceRows, Lags(d) PROVE d.count < logins'[d.device] /\ (d.trusted => logins'[d.device] >= TrustAfter + 2)
    <3>1. d.device \in Devices /\ d.count \in Nat
      BY ONLY d \in DeviceRows DEF DeviceRows
    <3> QED
      BY ONLY <1>0, <2>3, <2>4, <3>1 DEF Lags
  <2>5. ASSUME m = 0 PROVE c.count < logins'[c.device] /\ ~c.trusted
    BY ONLY <2>2, <2>3, <2>5
  <2>6. ASSUME m # 0, NEW d, d = Ac!Updated(c)
        PROVE  d.count < logins'[d.device] /\ (d.trusted => logins'[d.device] >= TrustAfter + 2)
    <3>1. d.device = c.device /\ d.count = c.count + 1 /\ (d.trusted => c.trusted \/ c.count >= TrustAfter)
      BY ONLY <2>2, <2>6 DEF Ac!Updated, DeviceRows
    <3>2. c.count < logins[c.device] /\ (c.trusted => logins[c.device] >= TrustAfter + 2)
      BY ONLY <2>2, <2>6 DEF Lags
    <3> QED
      BY ONLY <1>0, <2>3, <3>1, <3>2
  <2>7. ASSUME NEW n \in DOMAIN devices'
        PROVE  /\ devices'[n].count < logins'[devices'[n].device]
               /\ devices'[n].trusted => logins'[devices'[n].device] >= TrustAfter + 2
    <3>1. CASE m = 0
      <4>1. (n \in DOMAIN devices /\ devices'[n] = devices[n]) \/ devices'[n] = c
        BY ONLY <1>0, <2>1, <2>2, <3>1, n \in DOMAIN devices'
      <4>2. CASE n \in DOMAIN devices /\ devices'[n] = devices[n]
        <5>1. devices[n] \in DeviceRows /\ Lags(devices[n])
          BY ONLY <1>0, <4>2
        <5> QED
          BY ONLY <2>4, <4>2, <5>1
      <4>3. CASE devices'[n] = c
        BY ONLY <2>5, <3>1, <4>3
      <4> QED
        BY ONLY <4>1, <4>2, <4>3
    <3>2. CASE m # 0
      <4>1. n \in DOMAIN devices /\ devices[n] \in DeviceRows /\ Lags(devices[n])
        BY ONLY <1>0, <2>1, <3>2, n \in DOMAIN devices'
      <4>2. devices'[n] = IF n = m THEN Ac!Updated(c) ELSE devices[n]
        BY ONLY <1>0, <2>1, <3>2, <4>1
      <4>3. CASE n = m
        BY ONLY <2>6, <3>2, <4>2, <4>3
      <4>4. CASE n # m
        <5>1. devices'[n] = devices[n]
          BY ONLY <4>2, <4>4
        <5> QED
          BY ONLY <2>4, <4>1, <5>1
      <4> QED
        BY ONLY <4>3, <4>4
    <3> QED
      BY ONLY <3>1, <3>2
  <2> QED
    BY ONLY <2>7 DEF Lags
<1>3. ASSUME Ac!Next, ~\E h \in Handlers : Ac!DeviceSave(h) PROVE UNCHANGED <<devices, logins>>
  BY ONLY <1>3, AccountsNext, ZenonT(60) DEF Ac!RegisterLookup, Ac!DeleteUser, Ac!GoogleLogin, Ac!Callback, Ac!RegisterInsert,
          Ac!DeleteState, Ac!ByGoogleId, Ac!ByEmail, Ac!Link, Ac!CreateTenant, Ac!GenerateUsername,
          Ac!CreateGoogleUser, Ac!DeviceLookup
<1>4. CASE UNCHANGED Ac!accounts
  BY ONLY <1>1, <1>4 DEF Ac!accounts
<1> QED
  BY ONLY <1>1, <1>2, <1>3, <1>4, [Ac!Next]_(Ac!accounts)

(* A behaviour of the accounts steps as Accounts does. *)
LEMMA AccountsRuns == part = "accounts" /\ [Next]_all => part' = "accounts" /\ [Ac!Next]_(Ac!accounts)
BY DEF Next, all, Ac!accounts

(* However registrations, sign-ins and logins overlap, an address has no    *)
(* more users than requests at once and failed lookups, one per tenant; a   *)
(* state lets through no more callbacks than run at once; and no device is  *)
(* trusted early (auth.go, oauth.go), for every number of handlers, users   *)
(* and faults. *)
THEOREM UsersAddUp == Spec => []AccountsSound
<1> DEFINE Inv == part = "accounts" => AccountsInv
<1>1. Init => Inv
  BY AccountsInit DEF Init
<1>2. Inv /\ [Next]_all => Inv'
  <2> SUFFICES ASSUME Inv, [Next]_all, part' = "accounts" PROVE AccountsInv'
    OBVIOUS
  <2>1. part = "accounts"
    BY DEF Next, all
  <2> QED
    BY <2>1, AccountsRuns, AccountTyped, AccountsAdded, AccountsAdmitted, AccountsUnique, AccountsStates, AccountsDevices
       DEF AccountsInv
<1>3. Inv => AccountsSound
  <2> SUFFICES ASSUME AccountsInv PROVE Ac!TypeOK /\ Ac!AddressesWithinHandlers /\ Ac!StatesWithinHandlers /\ Ac!TrustEarned
    BY DEF AccountsSound, Ac!AccountsSound
  <2>1. Ac!TypeOK
    <3>1. AccountTypes
      BY DEF AccountsInv
    <3>2. \A n \in DOMAIN users : users[n] \in UserRows
      BY ONLY <3>1 DEF AccountTypes
    <3>3. \A n \in DOMAIN devices : devices[n].device \in Devices /\ devices[n].count \in Nat
      <4>1. \A n \in DOMAIN devices : devices[n] \in DeviceRows
        BY ONLY <3>1 DEF AccountTypes
      <4> QED
        BY ONLY <4>1 DEF DeviceRows
    <3> QED
      BY ONLY <3>1, <3>2, <3>3 DEF AccountTypes, Ac!TypeOK, UserRows
  <2>2. ASSUME NEW e \in Emails
        PROVE  Cardinality(Ac!Present(e)) <= faults + (IF overlap THEN Cardinality(Handlers) ELSE 1)
    <3>1. users \in Seq(UserRows) /\ faults \in Nat /\ Cardinality(Handlers) \in Nat
      BY AccountsGiven, FS_CardinalityType DEF AccountsInv, AccountTypes
    <3>2. IsFiniteSet(1..Len(users)) /\ IsFiniteSet(Handlers)
      BY ONLY <3>1, AccountsGiven, FS_Interval
    <3>3. Ac!Present(e) \in SUBSET (1..Len(users)) /\ Adding(e) \in SUBSET Handlers
      BY <3>1 DEF Ac!Present, Ac!WithEmail, Adding
    <3>4. Cardinality(Ac!Present(e)) \in Nat /\ Cardinality(Adding(e)) \in Nat
      BY ONLY <3>2, <3>3, FS_Subset, FS_CardinalityType
    <3>5. Cardinality(Ac!Present(e)) + Cardinality(Adding(e)) <= faults + (IF overlap THEN Cardinality(Handlers) ELSE 1)
      BY DEF AccountsInv, Admitted, AtOnce
    <3> QED
      BY ONLY <3>1, <3>4, <3>5
  <2>3. Ac!AddressesWithinHandlers
    BY <2>2, SameCardinality DEF AccountsInv, OncePerTenant, Ac!AddressesWithinHandlers, Ac!WithEmail
  <2>4. Ac!StatesWithinHandlers
    BY SameCardinality DEF AccountsInv, StateInv, AtOnce, Ac!StatesWithinHandlers
  <2>5. Ac!TrustEarned
    BY DEF AccountsInv, Lags, Ac!TrustEarned
  <2> QED
    BY <2>1, <2>3, <2>4, <2>5
<1> QED
  BY <1>1, <1>2, <1>3, PTL DEF Spec

=============================================================================
