--------------------------- MODULE BackOfficeProofs ---------------------------
(***************************************************************************)
(* Safety of the services of the back office, which Services composes: a    *)
(* behaviour of a part steps as its component does, and the invariant of    *)
(* the component is conditional on the part.                                *)
(***************************************************************************)
EXTENDS Services, FiniteSetTheorems, TLAPS

-----------------------------------------------------------------------------
(* Customers and employees. *)

(* What a request of each kind carries. *)
AboutCustomer == {"createCustomer", "updateCustomer", "deactivate", "recordOrder", "award", "redeem"}
AboutEmployee == {"createEmployee", "updateEmployee", "terminate", "reactivate", "assignRole", "revokeRole"}
Creating == {"createCustomer", "createEmployee"}
Blind == {"deactivate", "recordOrder", "revokeRole"}
Carries(r) ==
    /\ r.kind \in AboutCustomer \cup AboutEmployee
    /\ r.kind \in AboutCustomer => r.who \in Customers
    /\ r.kind \in AboutEmployee => r.who \in Employees
    /\ r.contacts \in SUBSET Contacts
    /\ r.kind \in {"award", "redeem"} => r.points \in Nat
    /\ r.kind \in {"assignRole", "revokeRole"} => r.role \in StaffRoles

PeopleJobs == [r : Pe!Requests \cup {None}, copy : Pe!CustomerRows \cup Pe!EmployeeRows \cup {None}]
PeopleSteps == {"idle", "count", "insert", "find", "countRole", "change"}

(* What a request knows at a step: once found, a row stays, and points are  *)
(* redeemed from a copy that has them. *)
TaskInv(h) ==
    LET r == job[h].r
        copy == job[h].copy
    IN /\ pc[h] # "idle" => Carries(r)
       /\ pc[h] \in {"count", "insert"} => r.kind \in Creating
       /\ pc[h] \in {"find", "countRole", "change"} => r.kind \notin Creating
       /\ pc[h] = "countRole" => r.kind = "assignRole"
       /\ pc[h] = "change" /\ r.kind \in AboutCustomer \ Blind => customers[r.who] # None
       /\ pc[h] \in {"countRole", "change"} /\ r.kind \in AboutEmployee \ Blind => employees[r.who] # None
       /\ pc[h] = "change" /\ r.kind \in {"award", "redeem"} => copy \in Pe!CustomerRows
       /\ pc[h] = "change" /\ r.kind = "redeem" => copy.points >= r.points

PeopleTypes ==
    /\ overlap \in BOOLEAN /\ Pe!TypeOK
    /\ pc \in [Handlers -> PeopleSteps] /\ job \in [Handlers -> PeopleJobs]
    /\ ledger \in [Customers -> Int] /\ recorded \in [Customers -> Nat]

(* Nothing is booked for a customer who does not exist. *)
BooksInv ==
    /\ Pe!OrdersCounted
    /\ \A c \in Customers : customers[c] = None => ledger[c] = 0 /\ recorded[c] = 0

(* Requests that take turns are one, whose copy is the row and whose count  *)
(* still holds. *)
OneAtWork == ~overlap => \A g, h \in Handlers : pc[g] # "idle" /\ pc[h] # "idle" => g = h
PointsInv ==
    ~overlap => \A h \in Handlers : pc[h] = "change" /\ job[h].r.kind \in {"award", "redeem"} =>
                    job[h].copy.points = customers[job[h].r.who].points
CountInv ==
    ~overlap /\ clean => \A h \in Handlers :
        /\ pc[h] = "insert" => /\ job[h].r.kind = "createCustomer" => ~Pe!Taken(customers, job[h].r.contacts)
                               /\ job[h].r.kind = "createEmployee" => ~Pe!Taken(employees, job[h].r.contacts)
        /\ pc[h] = "change" /\ job[h].r.kind = "assignRole" => held[<<job[h].r.who, job[h].r.role>>] = 0

PeopleInv ==
    /\ PeopleTypes /\ \A h \in Handlers : TaskInv(h)
    /\ BooksInv /\ OneAtWork
    /\ PointsInv /\ Pe!SerialLedger
    /\ CountInv /\ Pe!SerialNoDuplicate

(* What the assumptions say of people. *)
LEMMA PeopleGiven ==
    /\ Customers \cap Employees = {} /\ None \notin Pe!CustomerRows /\ None \notin Pe!EmployeeRows
    /\ Points \subseteq Nat /\ Overlaps \subseteq BOOLEAN /\ MaxRequests \in Nat /\ MaxFaults \in Nat
BY ServicesAssumption DEF Pe!PeopleAssumption

(* What a request carries, by its kind. *)
LEMMA RequestCarries ==
    ASSUME NEW r \in Pe!Requests
    PROVE  Carries(r) /\ (r \in Pe!Creates <=> r.kind \in Creating)
<1>1. CASE r \in Pe!Creates
  <2>1. /\ r.kind \in Creating
        /\ r.kind = "createCustomer" => r.who \in Customers
        /\ r.kind = "createEmployee" => r.who \in Employees
        /\ r.contacts \in SUBSET Contacts
    BY <1>1 DEF Pe!Creates, Creating
  <2> QED
    BY ONLY <1>1, <2>1 DEF Carries, Creating, AboutCustomer, AboutEmployee
<1>2. CASE r \in Pe!Updates
  <2>1. /\ r.kind \in {"updateCustomer", "updateEmployee"}
        /\ r.kind = "updateCustomer" => r.who \in Customers
        /\ r.kind = "updateEmployee" => r.who \in Employees
        /\ r.contacts \in SUBSET Contacts
    BY <1>2 DEF Pe!Updates
  <2>2. r \notin Pe!Creates
    BY <2>1 DEF Pe!Creates
  <2> QED
    BY ONLY <2>1, <2>2 DEF Carries, Creating, AboutCustomer, AboutEmployee
<1>3. CASE r \in Pe!Plain
  <2>1. /\ r.kind \in {"deactivate", "recordOrder", "award", "redeem", "terminate", "reactivate", "assignRole", "revokeRole"}
        /\ r.kind \in {"deactivate", "recordOrder", "award", "redeem"} => r.who \in Customers
        /\ r.kind \in {"terminate", "reactivate", "assignRole", "revokeRole"} => r.who \in Employees
        /\ r.kind \in {"award", "redeem"} => r.points \in Points
        /\ r.kind \in {"assignRole", "revokeRole"} => r.role \in StaffRoles
        /\ r.contacts = {}
    BY <1>3 DEF Pe!Plain
  <2>2. r \notin Pe!Creates
    BY <2>1 DEF Pe!Creates
  <2> QED
    BY ONLY <2>1, <2>2, PeopleGiven DEF Carries, Creating, AboutCustomer, AboutEmployee
<1> QED
  BY <1>1, <1>2, <1>3 DEF Pe!Requests

(* The invariant holds initially. *)
LEMMA PeopleInit == Pe!Init => PeopleInv
<1> SUFFICES ASSUME Pe!Init PROVE PeopleInv
  OBVIOUS
<1> USE DEF Pe!Init
<1>1. PeopleTypes
  <2>1. Pe!NoJob \in PeopleJobs
    BY DEF Pe!NoJob, PeopleJobs
  <2> QED
    BY <2>1, PeopleGiven DEF PeopleTypes, Pe!TypeOK, PeopleSteps
<1>2. (\A h \in Handlers : TaskInv(h)) /\ OneAtWork /\ PointsInv /\ CountInv
  BY DEF TaskInv, OneAtWork, PointsInv, CountInv
<1>3. BooksInv /\ Pe!SerialLedger
  BY DEF BooksInv, Pe!OrdersCounted, Pe!SerialLedger
<1>4. Pe!SerialNoDuplicate
  BY DEF Pe!SerialNoDuplicate
<1> QED
  BY <1>1, <1>2, <1>3, <1>4 DEF PeopleInv

(* Rows stay once they are there. *)
RowsStay ==
    /\ \A c \in Customers : customers[c] # None => customers'[c] # None
    /\ \A e \in Employees : employees[e] # None => employees'[e] # None

(* What the other requests know stays true. *)
LEMMA OtherTasks ==
    ASSUME PeopleTypes, \A g \in Handlers : TaskInv(g), NEW h \in Handlers, NEW step, NEW j,
           pc' = [pc EXCEPT ![h] = step], job' = [job EXCEPT ![h] = j], RowsStay, TaskInv(h)'
    PROVE  \A g \in Handlers : TaskInv(g)'
<1> SUFFICES ASSUME NEW g \in Handlers, g # h PROVE TaskInv(g)'
  OBVIOUS
<1>1. pc'[g] = pc[g] /\ job'[g] = job[g] /\ TaskInv(g)
  BY DEF PeopleTypes
<1>2. pc[g] # "idle" => Carries(job[g].r)
  BY <1>1 DEF TaskInv
<1> QED
  BY ONLY <1>1, <1>2, RowsStay DEF TaskInv, Carries, RowsStay

(* The steps, one by one. *)
LEMMA PeopleNext ==
    ASSUME Pe!Next
    PROVE  \E h \in Handlers :
          \/ \E r \in Pe!Requests : Pe!Begin(h, r)
          \/ Pe!Count(h) \/ Pe!Insert(h) \/ Pe!Find(h) \/ Pe!CountRole(h) \/ Pe!Change(h)
BY DEF Pe!Next

(* Where a request goes from its first statement. *)
FirstStep(r) == CASE r.kind \in Creating -> IF r.contacts = {} THEN "insert" ELSE "count"
                  [] r.kind \in Blind -> "change"
                  [] OTHER -> "find"
LEMMA PeopleBegin ==
    ASSUME NEW h \in Handlers, NEW r \in Pe!Requests, Pe!Begin(h, r)
    PROVE  /\ pc' = [pc EXCEPT ![h] = FirstStep(r)]
           /\ job' = [job EXCEPT ![h] = [r |-> r, copy |-> None]]
           /\ FirstStep(r) \in PeopleSteps
           /\ r.kind \in Creating => FirstStep(r) \in {"insert", "count"}
           /\ r.kind \in Blind => FirstStep(r) = "change"
           /\ r.kind \notin Creating \cup Blind => FirstStep(r) = "find"
           /\ r.kind \in Blind => r.kind \notin Creating
<1>1. pc' = [pc EXCEPT ![h] = CASE r \in Pe!Creates -> IF r.contacts = {} THEN "insert" ELSE "count"
                 [] r.kind \in {"deactivate", "recordOrder", "revokeRole"} -> "change"
                 [] OTHER -> "find"]
  BY DEF Pe!Begin, Pe!Goto
<1>2. (CASE r \in Pe!Creates -> IF r.contacts = {} THEN "insert" ELSE "count"
         [] r.kind \in {"deactivate", "recordOrder", "revokeRole"} -> "change"
         [] OTHER -> "find") = FirstStep(r)
  <2>1. r \in Pe!Creates <=> r.kind \in Creating
    BY RequestCarries
  <2>2. CASE r.kind \in Creating
    <3>1. r.kind \notin Blind
      BY <2>2 DEF Creating, Blind
    <3> QED
      BY ONLY <2>1, <2>2, <3>1 DEF FirstStep, Blind
  <2>3. CASE r.kind \notin Creating
    BY ONLY <2>1, <2>3 DEF FirstStep, Blind
  <2> QED
    BY <2>2, <2>3
<1>4. r.kind \in Blind => r.kind \notin Creating
  BY DEF Blind, Creating
<1>3. /\ FirstStep(r) \in PeopleSteps
      /\ r.kind \in Creating => FirstStep(r) \in {"insert", "count"}
      /\ r.kind \notin Creating \cup Blind => FirstStep(r) = "find"
  <2>1. r.kind \in Creating => FirstStep(r) \in {"insert", "count"}
    BY <1>4 DEF FirstStep
  <2>2. r.kind \notin Creating \cup Blind => FirstStep(r) = "find"
    BY DEF FirstStep
  <2>3. FirstStep(r) \in {"insert", "count", "change", "find"}
    BY DEF FirstStep
  <2> QED
    BY ONLY <2>1, <2>2, <2>3 DEF PeopleSteps
<1>5. r.kind \in Blind => FirstStep(r) = "change"
  BY <1>4 DEF FirstStep
<1> QED
  BY <1>1, <1>2, <1>3, <1>4, <1>5 DEF Pe!Begin

(* What a change does to the rows and the books, by its kind. *)
LEMMA PeopleChange ==
    ASSUME NEW h \in Handlers, Pe!Change(h), PeopleTypes, TaskInv(h)
    PROVE  /\ pc[h] = "change" /\ Carries(job[h].r) /\ job[h].r.kind \notin Creating
           /\ pc' = [pc EXCEPT ![h] = "idle"] /\ job' = [job EXCEPT ![h] = Pe!NoJob]
           /\ UNCHANGED <<overlap, requests, faults, clean>>
           /\ \/ Pe!Award(h) \/ Pe!Redeem(h) \/ Pe!RecordOrder(h) \/ Pe!UpdateCustomer(h) \/ Pe!DeactivateCustomer(h)
              \/ Pe!UpdateEmployee(h) \/ Pe!SetActive(h) \/ Pe!ChangeRole(h)
BY DEF Pe!Change, Pe!Return, Pe!Goto, TaskInv

(* Types are kept, and every request knows what it needs. *)
LEMMA PeopleTyped ==
    PeopleInv /\ [Pe!Next]_(Pe!people) => (PeopleTypes /\ \A h \in Handlers : TaskInv(h))' /\ RowsStay
<1> SUFFICES ASSUME PeopleInv, [Pe!Next]_(Pe!people) PROVE PeopleTypes' /\ (\A h \in Handlers : TaskInv(h)') /\ RowsStay
  OBVIOUS
<1>0. PeopleTypes /\ \A g \in Handlers : TaskInv(g)
  BY DEF PeopleInv
<1>a. /\ overlap \in BOOLEAN
      /\ customers \in [Customers -> {None} \cup Pe!CustomerRows]
      /\ employees \in [Employees -> {None} \cup Pe!EmployeeRows]
      /\ held \in [Employees \X StaffRoles -> Nat]
      /\ adopted \in SUBSET (Customers \cup Employees)
      /\ requests \in 0..MaxRequests /\ faults \in 0..MaxFaults
      /\ pc \in [Handlers -> PeopleSteps] /\ job \in [Handlers -> PeopleJobs]
      /\ ledger \in [Customers -> Int] /\ recorded \in [Customers -> Nat]
      /\ MaxRequests \in Nat /\ MaxFaults \in Nat
  BY <1>0, PeopleGiven DEF PeopleTypes, Pe!TypeOK
<1>b. Pe!NoJob \in PeopleJobs
  BY DEF Pe!NoJob, PeopleJobs
<1>c. ASSUME overlap' = overlap,
             customers' \in [Customers -> {None} \cup Pe!CustomerRows],
             employees' \in [Employees -> {None} \cup Pe!EmployeeRows],
             held' \in [Employees \X StaffRoles -> Nat],
             adopted' \in SUBSET (Customers \cup Employees),
             requests' \in 0..MaxRequests, faults' \in 0..MaxFaults,
             ledger' \in [Customers -> Int], recorded' \in [Customers -> Nat],
             RowsStay,
             NEW h \in Handlers, NEW step \in PeopleSteps, NEW j \in PeopleJobs,
             pc' = [pc EXCEPT ![h] = step], job' = [job EXCEPT ![h] = j], TaskInv(h)'
      PROVE  PeopleTypes' /\ (\A g \in Handlers : TaskInv(g)') /\ RowsStay
  <2>1. pc' \in [Handlers -> PeopleSteps] /\ job' \in [Handlers -> PeopleJobs]
    BY ONLY <1>a, <1>c
  <2>2. PeopleTypes'
    BY ONLY <1>a, <1>c, <2>1 DEF PeopleTypes, Pe!TypeOK, PeopleJobs
  <2>3. \A g \in Handlers : TaskInv(g)'
    BY <1>0, <1>c, OtherTasks
  <2> QED
    BY <1>c, <2>2, <2>3
<1>d. ASSUME NEW h \in Handlers, NEW step \in PeopleSteps, NEW j \in PeopleJobs,
             pc' = [pc EXCEPT ![h] = step], job' = [job EXCEPT ![h] = j]
      PROVE  pc'[h] = step /\ job'[h] = j
  BY ONLY <1>a, <1>d
<1>e. UNCHANGED Pe!db => RowsStay
  BY DEF Pe!db, RowsStay
<1>1. ASSUME NEW h \in Handlers, NEW r \in Pe!Requests, Pe!Begin(h, r)
      PROVE  PeopleTypes' /\ (\A g \in Handlers : TaskInv(g)') /\ RowsStay
  <2> DEFINE j == [r |-> r, copy |-> None]
             step == FirstStep(r)
  <2>1. j \in PeopleJobs
    BY DEF PeopleJobs
  <2>2. /\ step \in PeopleSteps /\ pc' = [pc EXCEPT ![h] = step] /\ job' = [job EXCEPT ![h] = j]
    BY <1>1, PeopleBegin
  <2>3. pc'[h] = step /\ job'[h] = j
    BY <2>1, <2>2, <1>d
  <2>4. Carries(r)
    BY RequestCarries
  <2>5. /\ step \in {"count", "insert"} => r.kind \in Creating
        /\ step \in {"find", "countRole", "change"} => r.kind \notin Creating
        /\ step # "countRole" /\ (step = "change" => r.kind \in Blind)
    <3>1. /\ r.kind \in Creating => step \in {"insert", "count"}
          /\ r.kind \in Blind => step = "change"
          /\ r.kind \notin Creating \cup Blind => step = "find"
          /\ r.kind \in Blind => r.kind \notin Creating
      BY <1>1, PeopleBegin
    <3> HIDE DEF step
    <3> QED
      BY ONLY <3>1
  <2>6. TaskInv(h)'
    <3> HIDE DEF step
    <3> QED
      BY ONLY <2>3, <2>4, <2>5 DEF TaskInv, Carries, Blind
  <2>7. /\ UNCHANGED <<overlap, Pe!db, faults, clean, Pe!books>> /\ requests' = requests + 1 /\ requests < MaxRequests
    BY <1>1 DEF Pe!Begin
  <2>8. requests' \in 0..MaxRequests
    BY ONLY <1>a, <2>7
  <2> HIDE DEF step, j
  <2> QED
    BY <1>a, <1>c, <1>e, <2>1, <2>2, <2>6, <2>7, <2>8 DEF Pe!db, Pe!books
<1>2. ASSUME NEW h \in Handlers, Pe!Count(h)
      PROVE  PeopleTypes' /\ (\A g \in Handlers : TaskInv(g)') /\ RowsStay
  <2>1. /\ pc[h] = "count" /\ UNCHANGED <<overlap, Pe!db, requests, Pe!books>>
        /\ \/ pc' = [pc EXCEPT ![h] = "idle"] /\ job' = [job EXCEPT ![h] = Pe!NoJob]
           \/ pc' = [pc EXCEPT ![h] = "insert"] /\ job' = job
        /\ faults' = faults \/ (faults < MaxFaults /\ faults' = faults + 1)
    BY <1>2 DEF Pe!Count, Pe!Return, Pe!Goto
  <2>2. faults' \in 0..MaxFaults
    BY ONLY <1>a, <2>1
  <2>3. /\ "idle" \in PeopleSteps /\ "insert" \in PeopleSteps
        /\ job[h] \in PeopleJobs /\ (job' = job => job' = [job EXCEPT ![h] = job[h]])
    BY ONLY <1>a DEF PeopleSteps
  <2>4. CASE pc' = [pc EXCEPT ![h] = "idle"] /\ job' = [job EXCEPT ![h] = Pe!NoJob]
    <3>1. TaskInv(h)'
      BY <1>b, <1>d, <2>3, <2>4 DEF TaskInv
    <3> QED
      BY <1>a, <1>b, <1>c, <1>e, <2>1, <2>2, <2>3, <2>4, <3>1 DEF Pe!db, Pe!books
  <2>5. CASE pc' = [pc EXCEPT ![h] = "insert"] /\ job' = job
    <3>1. pc'[h] = "insert" /\ job'[h] = job[h]
      BY ONLY <1>a, <2>5
    <3>2. Carries(job[h].r) /\ job[h].r.kind \in Creating
      BY <1>0, <2>1 DEF TaskInv
    <3>3. TaskInv(h)'
      BY ONLY <3>1, <3>2 DEF TaskInv, Carries
    <3> QED
      BY <1>a, <1>b, <1>c, <1>e, <2>1, <2>2, <2>3, <2>5, <3>3 DEF Pe!db, Pe!books
  <2> QED
    BY <2>1, <2>4, <2>5
<1>3. ASSUME NEW h \in Handlers, Pe!Insert(h)
      PROVE  PeopleTypes' /\ (\A g \in Handlers : TaskInv(g)') /\ RowsStay
  <2> DEFINE r == job[h].r
  <2>1. /\ pc[h] = "insert" /\ UNCHANGED <<overlap, requests, faults, clean, Pe!books>>
        /\ pc' = [pc EXCEPT ![h] = "idle"] /\ job' = [job EXCEPT ![h] = Pe!NoJob]
    BY <1>3 DEF Pe!Insert, Pe!Return, Pe!Goto
  <2>2. Carries(r)
    BY <1>0, <2>1 DEF TaskInv
  <2>3. /\ customers' \in [Customers -> {None} \cup Pe!CustomerRows]
        /\ employees' \in [Employees -> {None} \cup Pe!EmployeeRows]
        /\ held' = held /\ RowsStay
    <3>1. CASE /\ r.who \in Customers /\ customers[r.who] = None
               /\ customers' = [customers EXCEPT ![r.who] =
                                  [contacts |-> r.contacts, active |-> TRUE, points |-> 0, orders |-> 0]]
               /\ UNCHANGED <<employees, held>>
      <4> DEFINE row == [contacts |-> r.contacts, active |-> TRUE, points |-> 0, orders |-> 0]
      <4>1. row \in Pe!CustomerRows
        BY <2>2 DEF Carries, Pe!CustomerRows
      <4> HIDE DEF row
      <4>2. customers' = [customers EXCEPT ![r.who] = row]
        BY <3>1 DEF row
      <4> QED
        BY <1>a, <3>1, <4>1, <4>2, PeopleGiven DEF RowsStay
    <3>2. CASE /\ r.who \in Employees /\ employees[r.who] = None
               /\ employees' = [employees EXCEPT ![r.who] = [contacts |-> r.contacts, active |-> TRUE]]
               /\ UNCHANGED <<customers, held>>
      <4> DEFINE row == [contacts |-> r.contacts, active |-> TRUE]
      <4>1. row \in Pe!EmployeeRows
        BY <2>2 DEF Carries, Pe!EmployeeRows
      <4> HIDE DEF row
      <4>2. employees' = [employees EXCEPT ![r.who] = row]
        BY <3>2 DEF row
      <4> QED
        BY <1>a, <3>2, <4>1, <4>2, PeopleGiven DEF RowsStay
    <3> QED
      BY <1>3, <3>1, <3>2 DEF Pe!Insert
  <2>4. TaskInv(h)' /\ "idle" \in PeopleSteps
    <3>1. "idle" \in PeopleSteps
      BY DEF PeopleSteps
    <3>2. pc'[h] = "idle"
      BY ONLY <1>a, <2>1
    <3> QED
      BY ONLY <3>1, <3>2 DEF TaskInv
  <2> QED
    BY <1>a, <1>b, <1>c, <2>1, <2>3, <2>4 DEF Pe!books
<1>4. ASSUME NEW h \in Handlers, Pe!Find(h)
      PROVE  PeopleTypes' /\ (\A g \in Handlers : TaskInv(g)') /\ RowsStay
  <2> DEFINE r == job[h].r
             copy == Pe!Row(r.who)
  <2>1. /\ pc[h] = "find" /\ UNCHANGED <<overlap, Pe!db, requests, faults, clean, Pe!books>>
    BY <1>4 DEF Pe!Find
  <2>2. Carries(r) /\ r.kind \notin Creating
    BY <1>0, <2>1 DEF TaskInv
  <2>3. /\ "idle" \in PeopleSteps /\ "change" \in PeopleSteps /\ "countRole" \in PeopleSteps
    BY DEF PeopleSteps
  <2>4. CASE pc' = [pc EXCEPT ![h] = "idle"] /\ job' = [job EXCEPT ![h] = Pe!NoJob]
    <3>1. TaskInv(h)'
      BY <1>b, <1>d, <2>3, <2>4 DEF TaskInv
    <3> QED
      BY <1>a, <1>b, <1>c, <1>e, <2>1, <2>3, <2>4, <3>1 DEF Pe!db, Pe!books
  <2>5. CASE /\ copy # None /\ (r.kind = "redeem" => ~(copy.points < r.points))
             /\ pc' = [pc EXCEPT ![h] = IF r.kind = "assignRole" THEN "countRole" ELSE "change"]
             /\ job' = [job EXCEPT ![h].copy = copy]
    <3> DEFINE step == IF r.kind = "assignRole" THEN "countRole" ELSE "change"
               j == [job[h] EXCEPT !.copy = copy]
    <3>1. /\ r.kind \in AboutCustomer => r.who \in Customers /\ copy = customers[r.who] /\ copy \in Pe!CustomerRows
          /\ r.kind \in AboutEmployee => r.who \in Employees /\ copy = employees[r.who] /\ copy \in Pe!EmployeeRows
      <4>1. r.kind \in AboutCustomer => r.who \in Customers /\ copy = customers[r.who]
        BY <2>2 DEF Carries, Pe!Row
      <4>2. r.kind \in AboutEmployee => r.who \in Employees /\ copy = employees[r.who]
        BY <2>2, PeopleGiven DEF Carries, Pe!Row
      <4> QED
        BY <1>a, <2>5, <4>1, <4>2
    <3>2. r.kind \in AboutCustomer \/ r.kind \in AboutEmployee
      BY <2>2 DEF Carries
    <3>3. j \in PeopleJobs /\ j.r = r /\ j.copy = copy /\ job' = [job EXCEPT ![h] = j]
      <4> HIDE DEF copy
      <4> QED
        BY <1>a, <2>5, <3>1, <3>2 DEF PeopleJobs
    <3>4. pc' = [pc EXCEPT ![h] = step] /\ step \in PeopleSteps
      BY <2>3, <2>5
    <3>5. pc'[h] = step /\ job'[h] = j
      BY <1>d, <3>3, <3>4
    <3>6. UNCHANGED <<customers, employees>>
      BY <2>1 DEF Pe!db
    <3>7. r.kind = "redeem" => copy.points >= r.points
      <4>1. r.kind = "redeem" => copy.points \in Nat /\ r.points \in Nat
        BY <2>2, <3>1 DEF Carries, AboutCustomer, Pe!CustomerRows
      <4> HIDE DEF copy
      <4> QED
        BY ONLY <2>5, <4>1
    <3>8. TaskInv(h)'
      <4>1. pc'[h] \in {"countRole", "change"} /\ (pc'[h] = "countRole" => r.kind = "assignRole")
        BY ONLY <3>5
      <4> HIDE DEF copy, j, step
      <4>2. job'[h].r = r /\ job'[h].copy = copy
        BY ONLY <3>3, <3>5
      <4>3. r.kind \in {"award", "redeem"} => r.kind \in AboutCustomer
        BY DEF AboutCustomer
      <4>4. Carries(r)'
        BY ONLY <2>2, <4>2 DEF Carries
      <4>5. copy # None
        BY <2>5
      <4> HIDE DEF r
      <4> QED
        BY ONLY <2>2, <3>1, <3>6, <3>7, <4>1, <4>2, <4>3, <4>5 DEF TaskInv, Carries
    <3> HIDE DEF copy, j, step
    <3> QED
      BY <1>a, <1>c, <1>e, <2>1, <3>3, <3>4, <3>8 DEF Pe!db, Pe!books
  <2> QED
    BY <1>4, <2>4, <2>5 DEF Pe!Find, Pe!Return, Pe!Goto
<1>5. ASSUME NEW h \in Handlers, Pe!CountRole(h)
      PROVE  PeopleTypes' /\ (\A g \in Handlers : TaskInv(g)') /\ RowsStay
  <2> DEFINE r == job[h].r
  <2>1. /\ pc[h] = "countRole" /\ UNCHANGED <<overlap, Pe!db, requests, Pe!books>>
        /\ \/ pc' = [pc EXCEPT ![h] = "idle"] /\ job' = [job EXCEPT ![h] = Pe!NoJob]
           \/ pc' = [pc EXCEPT ![h] = "change"] /\ job' = job
        /\ faults' = faults \/ (faults < MaxFaults /\ faults' = faults + 1)
    BY <1>5 DEF Pe!CountRole, Pe!Return, Pe!Goto
  <2>2. faults' \in 0..MaxFaults
    BY ONLY <1>a, <2>1
  <2>3. /\ "idle" \in PeopleSteps /\ "change" \in PeopleSteps
        /\ job[h] \in PeopleJobs /\ (job' = job => job' = [job EXCEPT ![h] = job[h]])
    BY ONLY <1>a DEF PeopleSteps
  <2>4. CASE pc' = [pc EXCEPT ![h] = "idle"] /\ job' = [job EXCEPT ![h] = Pe!NoJob]
    <3>1. TaskInv(h)'
      BY <1>b, <1>d, <2>3, <2>4 DEF TaskInv
    <3> QED
      BY <1>a, <1>b, <1>c, <1>e, <2>1, <2>2, <2>3, <2>4, <3>1 DEF Pe!db, Pe!books
  <2>5. CASE pc' = [pc EXCEPT ![h] = "change"] /\ job' = job
    <3>1. pc'[h] = "change" /\ job'[h] = job[h]
      BY ONLY <1>a, <2>5
    <3>2. Carries(r) /\ r.kind = "assignRole" /\ r.kind \notin Creating /\ r.kind \in AboutEmployee \ Blind /\ employees[r.who] # None
      BY <1>0, <2>1 DEF TaskInv, AboutEmployee, Blind, Creating
    <3>3. r.kind \notin AboutCustomer
      BY <3>2 DEF AboutCustomer
    <3>4. employees' = employees
      BY <2>1 DEF Pe!db
    <3>5. TaskInv(h)'
      BY ONLY <3>1, <3>2, <3>3, <3>4 DEF TaskInv, Carries
    <3> QED
      BY <1>a, <1>b, <1>c, <1>e, <2>1, <2>2, <2>3, <2>5, <3>5 DEF Pe!db, Pe!books
  <2> QED
    BY <2>1, <2>4, <2>5
<1>6. ASSUME NEW h \in Handlers, Pe!Change(h)
      PROVE  PeopleTypes' /\ (\A g \in Handlers : TaskInv(g)') /\ RowsStay
  <2> DEFINE r == job[h].r
             copy == job[h].copy
  <2>1. /\ pc[h] = "change" /\ Carries(r) /\ r.kind \notin Creating
        /\ pc' = [pc EXCEPT ![h] = "idle"] /\ job' = [job EXCEPT ![h] = Pe!NoJob]
        /\ UNCHANGED <<overlap, requests, faults, clean>>
    BY <1>0, <1>6, PeopleChange
  <2>2. SUFFICES /\ customers' \in [Customers -> {None} \cup Pe!CustomerRows]
                 /\ employees' \in [Employees -> {None} \cup Pe!EmployeeRows]
                 /\ held' \in [Employees \X StaffRoles -> Nat]
                 /\ adopted' \in SUBSET (Customers \cup Employees)
                 /\ ledger' \in [Customers -> Int] /\ recorded' \in [Customers -> Nat]
                 /\ RowsStay
    <3>1. "idle" \in PeopleSteps
      BY DEF PeopleSteps
    <3>2. pc'[h] = "idle"
      BY ONLY <1>a, <2>1
    <3>3. TaskInv(h)'
      BY ONLY <3>2 DEF TaskInv
    <3> QED
      BY <1>a, <1>b, <1>c, <2>1, <3>1, <3>3
  <2>3. /\ r.kind \in AboutCustomer => r.who \in Customers
        /\ r.kind \in AboutEmployee => r.who \in Employees
        /\ r.contacts \in SUBSET Contacts
    BY <2>1 DEF Carries
  <2>4. /\ r.kind \in {"award", "redeem", "recordOrder", "updateCustomer", "deactivate"} => r.kind \in AboutCustomer
        /\ r.kind \in {"award", "redeem", "updateCustomer"} => r.kind \in AboutCustomer \ Blind
        /\ r.kind \in {"updateEmployee", "terminate", "reactivate"} => r.kind \in AboutEmployee \ Blind
        /\ r.kind \in {"assignRole", "revokeRole"} => r.kind \in AboutEmployee
    BY DEF AboutCustomer, AboutEmployee, Blind
  <2>5. /\ r.kind \in {"award", "redeem", "updateCustomer"} => r.who \in Customers /\ customers[r.who] \in Pe!CustomerRows
        /\ r.kind \in {"updateEmployee", "terminate", "reactivate"} => r.who \in Employees /\ employees[r.who] \in Pe!EmployeeRows
    <3>1. /\ r.kind \in {"award", "redeem", "updateCustomer"} => customers[r.who] # None
          /\ r.kind \in {"updateEmployee", "terminate", "reactivate"} => employees[r.who] # None
      BY <1>0, <2>1, <2>4 DEF TaskInv
    <3> QED
      BY <1>a, <2>3, <2>4, <3>1
  <2>6. ASSUME NEW delta \in Int, Pe!SavePoints(h, delta), r.kind \in {"award", "redeem"}, copy.points + delta \in Nat
        PROVE  /\ customers' \in [Customers -> {None} \cup Pe!CustomerRows] /\ ledger' \in [Customers -> Int]
               /\ UNCHANGED <<employees, held, recorded, adopted>> /\ RowsStay
    <3> DEFINE row == [customers[r.who] EXCEPT !.points = copy.points + delta]
    <3>1. /\ customers' = [customers EXCEPT ![r.who] = row]
          /\ ledger' = [ledger EXCEPT ![r.who] = ledger[r.who] + delta]
          /\ UNCHANGED <<employees, held, recorded, adopted>>
      BY <2>6 DEF Pe!SavePoints
    <3>2. row \in Pe!CustomerRows
      BY <2>5, <2>6 DEF Pe!CustomerRows
    <3> HIDE DEF row
    <3>3. r.who \in Customers
      BY <2>5, <2>6
    <3> QED
      BY ONLY <1>a, <3>1, <3>2, <3>3, PeopleGiven DEF RowsStay
  <2>7. r.kind \in {"award", "redeem"} => r.points \in Nat /\ copy \in Pe!CustomerRows /\ copy.points \in Nat
    BY <1>0, <2>1 DEF TaskInv, Carries, Pe!CustomerRows
  <2>8. CASE Pe!Award(h)
    <3>1. r.kind = "award" /\ Pe!SavePoints(h, r.points)
      BY <2>8 DEF Pe!Award
    <3>2. r.points \in Int /\ copy.points + r.points \in Nat
      BY ONLY <2>7, <3>1
    <3> QED
      BY <1>a, <2>6, <3>1, <3>2
  <2>9. CASE Pe!Redeem(h)
    <3>1. r.kind = "redeem" /\ Pe!SavePoints(h, -r.points)
      BY <2>9 DEF Pe!Redeem
    <3>2. copy.points >= r.points
      BY <1>0, <2>1, <3>1 DEF TaskInv
    <3>3. -r.points \in Int /\ copy.points + (-r.points) \in Nat
      BY ONLY <2>7, <3>1, <3>2
    <3> QED
      BY <1>a, <2>6, <3>1, <3>3
  <2>10. CASE Pe!RecordOrder(h)
    <3>1. r.kind = "recordOrder" /\ UNCHANGED <<employees, held, ledger, adopted>>
      BY <2>10 DEF Pe!RecordOrder
    <3>2. r.who \in Customers
      BY <2>3, <2>4, <3>1
    <3>3. CASE customers[r.who] = None
      BY <1>a, <2>10, <3>1, <3>3 DEF Pe!RecordOrder, RowsStay
    <3>4. CASE customers[r.who] # None
      <4> DEFINE row == [customers[r.who] EXCEPT !.orders = @ + 1]
      <4>1. /\ customers' = [customers EXCEPT ![r.who] = row]
            /\ recorded' = [recorded EXCEPT ![r.who] = recorded[r.who] + 1]
        BY <2>10, <3>4 DEF Pe!RecordOrder
      <4>2. row \in Pe!CustomerRows
        <5>1. customers[r.who] \in Pe!CustomerRows
          BY <1>a, <3>2, <3>4
        <5> QED
          BY <5>1 DEF Pe!CustomerRows
      <4> HIDE DEF row
      <4>3. customers' \in [Customers -> {None} \cup Pe!CustomerRows] /\ recorded' \in [Customers -> Nat]
        BY ONLY <1>a, <3>2, <4>1, <4>2
      <4>4. RowsStay
        <5>1. row # None /\ employees' = employees
          BY ONLY <3>1, <4>2, PeopleGiven
        <5>2. \A c \in Customers : customers'[c] = IF c = r.who THEN row ELSE customers[c]
          BY ONLY <1>a, <3>2, <4>1
        <5> QED
          BY ONLY <5>1, <5>2 DEF RowsStay
      <4> QED
        BY ONLY <1>a, <3>1, <4>3, <4>4
    <3> QED
      BY <3>3, <3>4
  <2>11. CASE Pe!UpdateCustomer(h)
    <3> DEFINE row == [customers[r.who] EXCEPT !.contacts = r.contacts]
    <3>1. /\ r.kind = "updateCustomer" /\ UNCHANGED <<employees, held, ledger, recorded>>
          /\ customers' = [customers EXCEPT ![r.who] = row] /\ adopted' = adopted \cup {r.who}
      BY <2>11 DEF Pe!UpdateCustomer
    <3>2. row \in Pe!CustomerRows /\ r.who \in Customers
      BY <2>3, <2>5, <3>1 DEF Pe!CustomerRows
    <3> HIDE DEF row
    <3> QED
      BY <1>a, <3>1, <3>2, PeopleGiven DEF RowsStay
  <2>12. CASE Pe!DeactivateCustomer(h)
    <3>1. /\ r.kind = "deactivate" /\ UNCHANGED <<employees, held, ledger, recorded, adopted>>
          /\ customers' = [customers EXCEPT ![r.who] =
                                IF customers[r.who] = None THEN None ELSE [customers[r.who] EXCEPT !.active = FALSE]]
      BY <2>12 DEF Pe!DeactivateCustomer, Pe!books
    <3>2. r.who \in Customers
      BY <2>3, <2>4, <3>1
    <3>3. CASE customers[r.who] = None
      BY <1>a, <3>1, <3>2, <3>3 DEF RowsStay
    <3>4. CASE customers[r.who] # None
      <4> DEFINE row == [customers[r.who] EXCEPT !.active = FALSE]
      <4>1. customers' = [customers EXCEPT ![r.who] = row]
        BY <3>1, <3>4
      <4>2. row \in Pe!CustomerRows
        <5>1. customers[r.who] \in Pe!CustomerRows
          BY <1>a, <3>2, <3>4
        <5> QED
          BY <5>1 DEF Pe!CustomerRows
      <4> HIDE DEF row
      <4>3. customers' \in [Customers -> {None} \cup Pe!CustomerRows]
        BY ONLY <1>a, <3>2, <4>1, <4>2
      <4>4. RowsStay
        <5>1. row # None /\ employees' = employees
          BY ONLY <3>1, <4>2, PeopleGiven
        <5>2. \A c \in Customers : customers'[c] = IF c = r.who THEN row ELSE customers[c]
          BY ONLY <1>a, <3>2, <4>1
        <5> QED
          BY ONLY <5>1, <5>2 DEF RowsStay
      <4> QED
        BY ONLY <1>a, <3>1, <4>3, <4>4
    <3> QED
      BY <3>3, <3>4
  <2>13. CASE Pe!UpdateEmployee(h)
    <3> DEFINE row == [employees[r.who] EXCEPT !.contacts = r.contacts]
    <3>1. /\ r.kind = "updateEmployee" /\ UNCHANGED <<customers, held, ledger, recorded>>
          /\ employees' = [employees EXCEPT ![r.who] = row] /\ adopted' = adopted \cup {r.who}
      BY <2>13 DEF Pe!UpdateEmployee
    <3>2. row \in Pe!EmployeeRows /\ r.who \in Employees
      BY <2>3, <2>5, <3>1 DEF Pe!EmployeeRows
    <3> HIDE DEF row
    <3> QED
      BY <1>a, <3>1, <3>2, PeopleGiven DEF RowsStay
  <2>14. CASE Pe!SetActive(h)
    <3> DEFINE row == [employees[r.who] EXCEPT !.active = (r.kind = "reactivate")]
    <3>1. /\ r.kind \in {"terminate", "reactivate"} /\ UNCHANGED <<customers, held, ledger, recorded>>
          /\ employees' = [employees EXCEPT ![r.who] = row]
          /\ adopted' \in {adopted, adopted \cup {r.who}}
      BY <2>14 DEF Pe!SetActive
    <3>2. row \in Pe!EmployeeRows /\ r.who \in Employees
      BY <2>3, <2>5, <3>1 DEF Pe!EmployeeRows
    <3> HIDE DEF row
    <3> QED
      BY <1>a, <3>1, <3>2, PeopleGiven DEF RowsStay
  <2>15. CASE Pe!ChangeRole(h)
    <3> DEFINE pair == <<r.who, r.role>>
    <3>1. /\ r.kind \in {"assignRole", "revokeRole"} /\ UNCHANGED <<customers, employees, ledger, recorded, adopted>>
          /\ held' = [held EXCEPT ![pair] = IF r.kind = "revokeRole" THEN 0 ELSE held[pair] + 1]
      BY <2>15 DEF Pe!ChangeRole, Pe!books
    <3>2. r.who \in Employees /\ r.role \in StaffRoles
      BY <2>1, <2>3, <2>4, <3>1 DEF Carries
    <3>3. pair \in Employees \X StaffRoles
      BY <3>2
    <3> HIDE DEF pair
    <3>4. held[pair] \in Nat
      BY ONLY <1>a, <3>3
    <3> QED
      BY <1>a, <3>1, <3>3, <3>4 DEF RowsStay
  <2> QED
    BY <1>0, <1>6, PeopleChange, <2>8, <2>9, <2>10, <2>11, <2>12, <2>13, <2>14, <2>15
<1>7. CASE UNCHANGED Pe!people
  <2>1. UNCHANGED <<overlap, customers, employees, held, pc, job, requests, faults, clean, ledger, recorded, adopted>>
    BY <1>7 DEF Pe!people, Pe!db, Pe!books
  <2>2. PeopleTypes'
    BY ONLY <1>0, <2>1 DEF PeopleTypes, Pe!TypeOK
  <2>3. \A g \in Handlers : TaskInv(g)'
    BY ONLY <1>0, <2>1 DEF TaskInv, Carries
  <2> QED
    BY <2>1, <2>2, <2>3 DEF RowsStay
<1> QED
  BY <1>1, <1>2, <1>3, <1>4, <1>5, <1>6, <1>7, PeopleNext

(* Who moves: requests that take turns leave the others idle. *)
LEMMA WhoMoves ==
    ASSUME PeopleInv, Pe!Next
    PROVE  \E h \in Handlers :
             /\ overlap' = overlap /\ pc' \in [Handlers -> PeopleSteps]
             /\ ~overlap => \A g \in Handlers : g # h => pc'[g] = "idle"
             /\ \/ \E r \in Pe!Requests : Pe!Begin(h, r)
                \/ Pe!Count(h) \/ Pe!Insert(h) \/ Pe!Find(h) \/ Pe!CountRole(h) \/ Pe!Change(h)
<1>1. PICK h \in Handlers :
          \/ \E r \in Pe!Requests : Pe!Begin(h, r)
          \/ Pe!Count(h) \/ Pe!Insert(h) \/ Pe!Find(h) \/ Pe!CountRole(h) \/ Pe!Change(h)
  BY PeopleNext
<1>2. OneAtWork /\ PeopleTypes /\ pc \in [Handlers -> PeopleSteps]
  BY DEF PeopleInv, PeopleTypes
<1>3. overlap' = overlap /\ \E step : pc' = [pc EXCEPT ![h] = step]
  BY <1>1, PeopleBegin DEF Pe!Begin, Pe!Count, Pe!Insert, Pe!Find, Pe!CountRole, Pe!Change, Pe!Return, Pe!Goto
<1>4. overlap \/ pc[h] # "idle" \/ \A g \in Handlers : pc[g] = "idle"
  BY <1>1 DEF Pe!Begin, Pe!Count, Pe!Insert, Pe!Find, Pe!CountRole, Pe!Change
<1>5. ~overlap => \A g \in Handlers : g # h => pc'[g] = "idle"
  BY ONLY <1>2, <1>3, <1>4 DEF OneAtWork
<1>6. pc' \in [Handlers -> PeopleSteps]
  BY PeopleTyped DEF PeopleTypes
<1> QED
  BY <1>1, <1>3, <1>5, <1>6

(* What a step books for a customer is what it adds to his row. *)
Booked(c) ==
    \/ customers[c] = None /\ customers'[c] = None /\ ledger'[c] = ledger[c] /\ recorded'[c] = recorded[c]
    \/ /\ customers[c] = None /\ customers'[c] # None /\ customers'[c].points = 0 /\ customers'[c].orders = 0
       /\ ledger'[c] = ledger[c] /\ recorded'[c] = recorded[c]
    \/ /\ customers[c] # None
       /\ customers'[c].orders - customers[c].orders = recorded'[c] - recorded[c]
       /\ ~overlap => customers'[c].points - customers[c].points = ledger'[c] - ledger[c]

LEMMA StepBooks == PeopleInv /\ [Pe!Next]_(Pe!people) => \A c \in Customers : Booked(c)
<1> SUFFICES ASSUME PeopleInv, [Pe!Next]_(Pe!people) PROVE \A c \in Customers : Booked(c)
  OBVIOUS
<1>0. PeopleTypes /\ (\A g \in Handlers : TaskInv(g)) /\ PointsInv
  BY DEF PeopleInv
<1>a. /\ customers \in [Customers -> {None} \cup Pe!CustomerRows]
      /\ ledger \in [Customers -> Int] /\ recorded \in [Customers -> Nat]
      /\ \A c \in Customers : customers[c] # None => customers[c].points \in Nat /\ customers[c].orders \in Nat
  BY <1>0 DEF PeopleTypes, Pe!TypeOK, Pe!CustomerRows
<1>b. UNCHANGED <<customers, ledger, recorded>> => \A c \in Customers : Booked(c)
  BY ONLY <1>a DEF Booked
<1>1. ASSUME NEW h \in Handlers, (\E r \in Pe!Requests : Pe!Begin(h, r)) \/ Pe!Count(h) \/ Pe!Find(h) \/ Pe!CountRole(h)
      PROVE  \A c \in Customers : Booked(c)
  BY <1>1, <1>b DEF Pe!Begin, Pe!Count, Pe!Find, Pe!CountRole, Pe!db, Pe!books
<1>2. ASSUME NEW h \in Handlers, Pe!Insert(h) PROVE \A c \in Customers : Booked(c)
  <2> DEFINE r == job[h].r
             row == [contacts |-> r.contacts, active |-> TRUE, points |-> 0, orders |-> 0]
  <2>1. UNCHANGED <<ledger, recorded>> /\ pc[h] = "insert"
    BY <1>2 DEF Pe!Insert, Pe!books
  <2>2. CASE r.who \in Customers /\ customers[r.who] = None /\ customers' = [customers EXCEPT ![r.who] = row]
    <3>1. row.points = 0 /\ row.orders = 0 /\ row # None
      <4>1. Carries(r)
        BY <1>0, <2>1 DEF TaskInv
      <4>2. row \in Pe!CustomerRows
        BY <4>1 DEF Carries, Pe!CustomerRows
      <4> QED
        BY <4>2, PeopleGiven
    <3> HIDE DEF row
    <3> QED
      BY ONLY <1>a, <2>1, <2>2, <3>1 DEF Booked
  <2>3. CASE customers' = customers
    BY <1>b, <2>1, <2>3
  <2> QED
    BY <1>2, <2>2, <2>3 DEF Pe!Insert
<1>3. ASSUME NEW h \in Handlers, Pe!Change(h) PROVE \A c \in Customers : Booked(c)
  <2> DEFINE r == job[h].r
             copy == job[h].copy
  <2>1. pc[h] = "change" /\ Carries(r) /\ r.kind \notin Creating
    BY <1>0, <1>3, PeopleChange
  <2>2. /\ r.kind \in {"award", "redeem", "recordOrder", "updateCustomer", "deactivate"} => r.who \in Customers
        /\ r.kind \in {"award", "redeem", "updateCustomer"} => customers[r.who] # None
    <3>1. /\ r.kind \in {"award", "redeem", "recordOrder", "updateCustomer", "deactivate"} => r.kind \in AboutCustomer
          /\ r.kind \in {"award", "redeem", "updateCustomer"} => r.kind \in AboutCustomer \ Blind
      BY DEF AboutCustomer, Blind
    <3> QED
      BY <1>0, <2>1, <3>1 DEF TaskInv, Carries
  <2>3. ASSUME NEW delta \in Int, Pe!SavePoints(h, delta), r.kind \in {"award", "redeem"}
        PROVE  \A c \in Customers : Booked(c)
    <3> DEFINE row == [customers[r.who] EXCEPT !.points = copy.points + delta]
    <3>1. /\ customers' = [customers EXCEPT ![r.who] = row]
          /\ ledger' = [ledger EXCEPT ![r.who] = ledger[r.who] + delta] /\ recorded' = recorded
      BY <2>3 DEF Pe!SavePoints
    <3>2. customers[r.who] \in Pe!CustomerRows /\ r.who \in Customers /\ customers[r.who] # None
      BY <1>a, <2>2, <2>3
    <3>3. copy.points \in Nat
      BY <1>0, <2>1, <2>3 DEF TaskInv, Pe!CustomerRows
    <3>4. /\ row.orders = customers[r.who].orders /\ row.points = copy.points + delta
      BY <3>2 DEF Pe!CustomerRows
    <3>5. ~overlap => copy.points = customers[r.who].points
      BY <1>0, <2>1, <2>3 DEF PointsInv
    <3> HIDE DEF row
    <3> QED
      BY ONLY <1>a, <2>3, <3>1, <3>2, <3>3, <3>4, <3>5 DEF Booked
  <2>4. CASE Pe!Award(h) \/ Pe!Redeem(h)
    <3>1. r.kind \in {"award", "redeem"} => r.points \in Int /\ -r.points \in Int
      BY <2>1 DEF Carries
    <3> QED
      BY <2>3, <2>4, <3>1 DEF Pe!Award, Pe!Redeem
  <2>5. CASE Pe!RecordOrder(h)
    <3>1. r.kind = "recordOrder" /\ UNCHANGED <<ledger, adopted>> /\ r.who \in Customers
      BY <2>2, <2>5 DEF Pe!RecordOrder
    <3>2. CASE customers[r.who] = None
      BY <1>b, <2>5, <3>1, <3>2 DEF Pe!RecordOrder
    <3>3. CASE customers[r.who] # None
      <4> DEFINE row == [customers[r.who] EXCEPT !.orders = @ + 1]
      <4>1. /\ customers' = [customers EXCEPT ![r.who] = row]
            /\ recorded' = [recorded EXCEPT ![r.who] = recorded[r.who] + 1]
        BY <2>5, <3>3 DEF Pe!RecordOrder
      <4>2. row.points = customers[r.who].points /\ row.orders = customers[r.who].orders + 1
        <5>1. customers[r.who] \in Pe!CustomerRows
          BY <1>a, <3>1, <3>3
        <5> QED
          BY <5>1 DEF Pe!CustomerRows
      <4> HIDE DEF row
      <4> QED
        BY ONLY <1>a, <3>1, <3>3, <4>1, <4>2 DEF Booked
    <3> QED
      BY <3>2, <3>3
  <2>6. ASSUME r.who \in Customers, customers[r.who] # None, UNCHANGED <<ledger, recorded>>, NEW row,
               customers' = [customers EXCEPT ![r.who] = row],
               row.points = customers[r.who].points, row.orders = customers[r.who].orders
        PROVE  \A c \in Customers : Booked(c)
    BY ONLY <1>a, <2>6 DEF Booked
  <2>7. CASE Pe!UpdateCustomer(h)
    <3> DEFINE row == [customers[r.who] EXCEPT !.contacts = r.contacts]
    <3>1. /\ r.kind = "updateCustomer" /\ UNCHANGED <<ledger, recorded>>
          /\ customers' = [customers EXCEPT ![r.who] = row]
      BY <2>7 DEF Pe!UpdateCustomer
    <3>2. customers[r.who] \in Pe!CustomerRows /\ r.who \in Customers /\ customers[r.who] # None
      BY <1>a, <2>2, <3>1
    <3>3. row.points = customers[r.who].points /\ row.orders = customers[r.who].orders
      BY <3>2 DEF Pe!CustomerRows
    <3> HIDE DEF row
    <3> QED
      BY <2>6, <3>1, <3>2, <3>3
  <2>8. CASE Pe!DeactivateCustomer(h)
    <3>1. /\ r.kind = "deactivate" /\ UNCHANGED <<ledger, recorded>>
          /\ customers' = [customers EXCEPT ![r.who] =
                                IF customers[r.who] = None THEN None ELSE [customers[r.who] EXCEPT !.active = FALSE]]
      BY <2>8 DEF Pe!DeactivateCustomer, Pe!books
    <3>2. CASE customers[r.who] = None
      <4>1. customers' = customers
        BY <1>a, <3>1, <3>2
      <4> QED
        BY <1>b, <3>1, <4>1
    <3>3. CASE customers[r.who] # None
      <4> DEFINE row == [customers[r.who] EXCEPT !.active = FALSE]
      <4>1. customers' = [customers EXCEPT ![r.who] = row]
        BY <3>1, <3>3
      <4>2. customers[r.who] \in Pe!CustomerRows /\ r.who \in Customers
        BY <1>a, <2>2, <3>1, <3>3
      <4>3. row.points = customers[r.who].points /\ row.orders = customers[r.who].orders
        BY <4>2 DEF Pe!CustomerRows
      <4> HIDE DEF row
      <4> QED
        BY <2>6, <3>1, <3>3, <4>1, <4>2, <4>3
    <3> QED
      BY <3>2, <3>3
  <2>9. CASE Pe!UpdateEmployee(h) \/ Pe!SetActive(h) \/ Pe!ChangeRole(h)
    BY <1>b, <2>9 DEF Pe!UpdateEmployee, Pe!SetActive, Pe!ChangeRole, Pe!books
  <2> QED
    BY <1>0, <1>3, PeopleChange, <2>4, <2>5, <2>7, <2>8, <2>9
<1>4. CASE UNCHANGED Pe!people
  BY <1>4, <1>b DEF Pe!people, Pe!db, Pe!books
<1> QED
  BY <1>1, <1>2, <1>3, <1>4, PeopleNext

(* Orders and points are counted, and the copies of requests that take      *)
(* turns are the rows. *)
LEMMA PeopleBooks == PeopleInv /\ [Pe!Next]_(Pe!people) => (BooksInv /\ Pe!SerialLedger /\ OneAtWork /\ PointsInv)'
<1> SUFFICES ASSUME PeopleInv, [Pe!Next]_(Pe!people) PROVE (BooksInv /\ Pe!SerialLedger /\ OneAtWork /\ PointsInv)'
  OBVIOUS
<1>0. PeopleTypes /\ (\A g \in Handlers : TaskInv(g)) /\ BooksInv /\ Pe!SerialLedger /\ OneAtWork /\ PointsInv
  BY DEF PeopleInv
<1>a. overlap' = overlap /\ PeopleTypes' /\ RowsStay
  <2>1. overlap' = overlap
    BY WhoMoves DEF Pe!people
  <2> QED
    BY <2>1, PeopleTyped
<1>b. /\ customers \in [Customers -> {None} \cup Pe!CustomerRows] /\ customers' \in [Customers -> {None} \cup Pe!CustomerRows]
      /\ ledger \in [Customers -> Int] /\ recorded \in [Customers -> Nat]
      /\ ledger' \in [Customers -> Int] /\ recorded' \in [Customers -> Nat]
      /\ \A c \in Customers : customers[c] # None => customers[c].points \in Nat /\ customers[c].orders \in Nat
      /\ \A c \in Customers : customers'[c] # None => customers'[c].points \in Nat /\ customers'[c].orders \in Nat
  BY <1>0, <1>a DEF PeopleTypes, Pe!TypeOK, Pe!CustomerRows
<1>1. BooksInv' /\ Pe!SerialLedger'
  <2> SUFFICES ASSUME NEW c \in Customers
               PROVE  /\ customers'[c] # None => customers'[c].orders = recorded'[c]
                      /\ customers'[c] = None => ledger'[c] = 0 /\ recorded'[c] = 0
                      /\ ~overlap /\ customers'[c] # None => customers'[c].points = ledger'[c]
    BY <1>a DEF BooksInv, Pe!OrdersCounted, Pe!SerialLedger
  <2>1. /\ customers[c] # None => customers[c].orders = recorded[c]
        /\ customers[c] = None => ledger[c] = 0 /\ recorded[c] = 0
        /\ ~overlap /\ customers[c] # None => customers[c].points = ledger[c]
    BY <1>0 DEF BooksInv, Pe!OrdersCounted, Pe!SerialLedger
  <2>2. Booked(c)
    BY StepBooks
  <2>3. customers[c] # None => customers'[c] # None
    BY <1>a DEF RowsStay
  <2>4. /\ ledger[c] \in Int /\ ledger'[c] \in Int /\ recorded[c] \in Nat /\ recorded'[c] \in Nat
        /\ customers[c] # None => customers[c].points \in Nat /\ customers[c].orders \in Nat
        /\ customers'[c] # None => customers'[c].points \in Nat /\ customers'[c].orders \in Nat
    BY ONLY <1>b, c \in Customers
  <2> QED
    BY ONLY <2>1, <2>2, <2>3, <2>4 DEF Booked
<1>2. OneAtWork' /\ PointsInv'
  <2>1. CASE UNCHANGED Pe!people
    <3>1. UNCHANGED <<overlap, pc, job, customers>>
      BY <2>1 DEF Pe!people, Pe!db
    <3> QED
      BY ONLY <1>0, <3>1 DEF OneAtWork, PointsInv
  <2>2. CASE Pe!Next
    <3>1. PICK h \in Handlers :
             /\ overlap' = overlap /\ pc' \in [Handlers -> PeopleSteps]
             /\ ~overlap => \A g \in Handlers : g # h => pc'[g] = "idle"
             /\ \/ \E r \in Pe!Requests : Pe!Begin(h, r)
                \/ Pe!Count(h) \/ Pe!Insert(h) \/ Pe!Find(h) \/ Pe!CountRole(h) \/ Pe!Change(h)
      BY <2>2, WhoMoves
    <3>2. OneAtWork'
      BY ONLY <3>1 DEF OneAtWork
    <3>3. SUFFICES ASSUME pc'[h] = "change", job'[h].r.kind \in {"award", "redeem"}
                   PROVE  job'[h].copy.points = customers'[job'[h].r.who].points
      BY <3>1, <3>2 DEF PointsInv
    <3>a. /\ pc \in [Handlers -> PeopleSteps] /\ DOMAIN job = Handlers
      BY <1>0 DEF PeopleTypes
    <3>4. ASSUME NEW r \in Pe!Requests, Pe!Begin(h, r) PROVE FALSE
      <4>1. pc'[h] = FirstStep(r) /\ job'[h].r = r
        BY <3>4, <3>a, PeopleBegin
      <4>2. r.kind \in Blind
        BY <3>3, <3>4, <4>1, PeopleBegin
      <4> QED
        BY <3>3, <4>1, <4>2 DEF Blind
    <3>5. CASE Pe!Count(h) \/ Pe!Insert(h) \/ Pe!Change(h)
      BY <3>3, <3>5, <3>a DEF Pe!Count, Pe!Insert, Pe!Change, Pe!Return, Pe!Goto
    <3>6. CASE Pe!CountRole(h)
      <4>1. job' = job /\ pc[h] = "countRole"
        BY <3>3, <3>6, <3>a DEF Pe!CountRole, Pe!Return, Pe!Goto
      <4>2. job[h].r.kind = "assignRole"
        BY <1>0, <4>1 DEF TaskInv
      <4> QED
        BY <3>3, <4>1, <4>2
    <3>7. CASE Pe!Find(h)
      <4> DEFINE copy == Pe!Row(job[h].r.who)
      <4>1. /\ job' = [job EXCEPT ![h].copy = copy] /\ pc[h] = "find" /\ customers' = customers
        BY <3>3, <3>7, <3>a DEF Pe!Find, Pe!Return, Pe!Goto, Pe!db
      <4>2. job[h] \in PeopleJobs
        BY <1>0 DEF PeopleTypes
      <4> HIDE DEF copy
      <4>3. job'[h].r = job[h].r /\ job'[h].copy = copy
        BY ONLY <3>a, <4>1, <4>2 DEF PeopleJobs
      <4>4. job[h].r.kind \in AboutCustomer /\ Carries(job[h].r)
        BY <1>0, <3>3, <4>1, <4>3 DEF TaskInv, AboutCustomer
      <4>5. job[h].r.who \in Customers
        BY ONLY <4>4 DEF Carries
      <4> QED
        BY ONLY <4>1, <4>3, <4>5 DEF copy, Pe!Row
    <3> QED
      BY <3>1, <3>4, <3>5, <3>6, <3>7
  <2> QED
    BY <2>1, <2>2
<1> QED
  BY <1>1, <1>2

(* Two rows that share a contact nobody has counted. *)
Shares(table, x, y) ==
    /\ x # y /\ x \notin adopted /\ y \notin adopted
    /\ table[x] # None /\ table[y] # None /\ table[x].active /\ table[y].active
    /\ table[x].contacts \cap table[y].contacts # {}

(* A row that is active after a step was active before with the same        *)
(* contacts, has been adopted, or was inserted under a count. *)
Counted(table, after, x) ==
    \/ after[x] = None \/ ~after[x].active \/ x \in adopted'
    \/ table[x] # None /\ table[x].active /\ table[x].contacts = after[x].contacts
    \/ table[x] = None /\ (~overlap /\ clean => ~Pe!Taken(table, after[x].contacts))

(* Only one row changes in a step. *)
OneRow(table, after) == \E x : \A y \in DOMAIN table : y # x => after[y] = table[y]

LEMMA SharesKept ==
    ASSUME NEW table, NEW after, DOMAIN after = DOMAIN table, OneRow(table, after), adopted \subseteq adopted',
           ~overlap, clean,
           \A x \in DOMAIN table : Counted(table, after, x),
           \A x, y \in DOMAIN table : ~Shares(table, x, y)
    PROVE  \A x, y \in DOMAIN table :
               ~ (/\ x # y /\ x \notin adopted' /\ y \notin adopted'
                  /\ after[x] # None /\ after[y] # None /\ after[x].active /\ after[y].active
                  /\ after[x].contacts \cap after[y].contacts # {})
<1> SUFFICES ASSUME NEW x \in DOMAIN table, NEW y \in DOMAIN table,
                    x # y, x \notin adopted', y \notin adopted',
                    after[x] # None, after[y] # None, after[x].active, after[y].active,
                    after[x].contacts \cap after[y].contacts # {}
             PROVE  FALSE
  OBVIOUS
<1>1. after[x] = table[x] \/ after[y] = table[y]
  BY DEF OneRow
<1>2. ASSUME NEW u \in DOMAIN table, NEW v \in DOMAIN table, u \notin adopted', after[u] # None, after[u].active,
             after[v] = table[v], after[v] # None, after[v].active, after[u].contacts \cap after[v].contacts # {}
      PROVE  table[u] # None /\ table[u].active /\ table[u].contacts = after[u].contacts
  <2>1. Pe!Taken(table, after[u].contacts)
    BY <1>2 DEF Pe!Taken
  <2> QED
    BY <1>2, <2>1 DEF Counted
<1>3. /\ table[x] # None /\ table[x].active /\ table[x].contacts = after[x].contacts
      /\ table[y] # None /\ table[y].active /\ table[y].contacts = after[y].contacts
  BY <1>1, <1>2
<1>4. Shares(table, x, y)
  BY <1>3 DEF Shares
<1> QED
  BY <1>4

(* A change of a row that no count need see, or that a count has seen. *)
Allowed(table, w, row) ==
    \/ ~row.active \/ w \in adopted'
    \/ table[w] # None /\ (row.active => table[w].active) /\ table[w].contacts = row.contacts
    \/ table[w] = None /\ (~overlap /\ clean => ~Pe!Taken(table, row.contacts))

LEMMA RowChange ==
    ASSUME NEW S, NEW R, NEW table \in [S -> {None} \cup R], NEW w \in S, NEW row, Allowed(table, w, row),
           \A x \in S : table[x] # None => table[x].active \in BOOLEAN
    PROVE  LET after == [table EXCEPT ![w] = row]
           IN OneRow(table, after) /\ \A x \in S : Counted(table, after, x)
<1> DEFINE after == [table EXCEPT ![w] = row]
<1>1. after[w] = row /\ \A x \in S : x # w => after[x] = table[x]
  OBVIOUS
<1> HIDE DEF after
<1>2. OneRow(table, after)
  BY <1>1 DEF OneRow
<1>3. ASSUME NEW x \in S PROVE Counted(table, after, x)
  <2>1. CASE x = w
    BY <1>1, <2>1 DEF Counted, Allowed
  <2>2. CASE x # w
    BY <1>1, <2>2 DEF Counted
  <2> QED
    BY <2>1, <2>2
<1> QED
  BY <1>2, <1>3 DEF after

(* What a step does to the rows, as far as contacts go. *)
LEMMA RowsCounted ==
    PeopleInv /\ [Pe!Next]_(Pe!people) =>
        /\ adopted \subseteq adopted'
        /\ OneRow(customers, customers') /\ OneRow(employees, employees')
        /\ \A c \in Customers : Counted(customers, customers', c)
        /\ \A e \in Employees : Counted(employees, employees', e)
<1> DEFINE Goal == /\ adopted \subseteq adopted'
                   /\ OneRow(customers, customers') /\ OneRow(employees, employees')
                   /\ \A c \in Customers : Counted(customers, customers', c)
                   /\ \A e \in Employees : Counted(employees, employees', e)
<1> SUFFICES ASSUME PeopleInv, [Pe!Next]_(Pe!people) PROVE Goal
  OBVIOUS
<1>0. PeopleTypes /\ (\A g \in Handlers : TaskInv(g)) /\ CountInv
  BY DEF PeopleInv
<1>a. /\ customers \in [Customers -> {None} \cup Pe!CustomerRows] /\ employees \in [Employees -> {None} \cup Pe!EmployeeRows]
      /\ \A c \in Customers : customers[c] # None => customers[c].active \in BOOLEAN
      /\ \A e \in Employees : employees[e] # None => employees[e].active \in BOOLEAN
  BY <1>0 DEF PeopleTypes, Pe!TypeOK, Pe!CustomerRows, Pe!EmployeeRows
<1>b. ASSUME NEW table, DOMAIN table \in {Customers, Employees}, \A x \in DOMAIN table : table[x] # None => table[x].active \in BOOLEAN
      PROVE  OneRow(table, table) /\ \A x \in DOMAIN table : Counted(table, table, x)
  BY <1>b DEF OneRow, Counted
<1>c. /\ customers' = customers => OneRow(customers, customers') /\ \A c \in Customers : Counted(customers, customers', c)
      /\ employees' = employees => OneRow(employees, employees') /\ \A e \in Employees : Counted(employees, employees', e)
  BY <1>a, <1>b
<1>d. ASSUME NEW w \in Customers, NEW row, customers' = [customers EXCEPT ![w] = row], employees' = employees,
             adopted \subseteq adopted', Allowed(customers, w, row)
      PROVE  Goal
  <2>1. OneRow(customers, customers') /\ \A c \in Customers : Counted(customers, customers', c)
    BY ONLY <1>a, <1>d, RowChange
  <2> QED
    BY ONLY <1>c, <1>d, <2>1
<1>e. ASSUME NEW w \in Employees, NEW row, employees' = [employees EXCEPT ![w] = row], customers' = customers,
             adopted \subseteq adopted', Allowed(employees, w, row)
      PROVE  Goal
  <2>1. OneRow(employees, employees') /\ \A e \in Employees : Counted(employees, employees', e)
    BY ONLY <1>a, <1>e, RowChange
  <2> QED
    BY ONLY <1>c, <1>e, <2>1
<1> HIDE DEF Goal
<1>1. ASSUME NEW h \in Handlers, (\E r \in Pe!Requests : Pe!Begin(h, r)) \/ Pe!Count(h) \/ Pe!Find(h) \/ Pe!CountRole(h)
      PROVE  Goal
  BY <1>1, <1>c DEF Pe!Begin, Pe!Count, Pe!Find, Pe!CountRole, Pe!db, Pe!books, Goal
<1>2. ASSUME NEW h \in Handlers, Pe!Insert(h) PROVE Goal
  <2> DEFINE r == job[h].r
  <2>1. /\ adopted' = adopted /\ pc[h] = "insert"
    BY <1>2 DEF Pe!Insert, Pe!books
  <2>2. Carries(r) /\ r.kind \in Creating
    BY <1>0, <2>1 DEF TaskInv
  <2>3. /\ r.who \in Customers => r.kind = "createCustomer"
        /\ r.who \in Employees => r.kind = "createEmployee"
    BY <2>2, PeopleGiven DEF Carries, Creating, AboutCustomer, AboutEmployee
  <2>4. ~overlap /\ clean =>
           /\ r.kind = "createCustomer" => ~Pe!Taken(customers, r.contacts)
           /\ r.kind = "createEmployee" => ~Pe!Taken(employees, r.contacts)
    BY <1>0, <2>1 DEF CountInv
  <2>5. CASE /\ r.who \in Customers /\ customers[r.who] = None
             /\ customers' = [customers EXCEPT ![r.who] =
                                [contacts |-> r.contacts, active |-> TRUE, points |-> 0, orders |-> 0]]
             /\ UNCHANGED <<employees, held>>
    <3> DEFINE row == [contacts |-> r.contacts, active |-> TRUE, points |-> 0, orders |-> 0]
    <3>1. row.contacts = r.contacts
      OBVIOUS
    <3> HIDE DEF row
    <3>2. customers' = [customers EXCEPT ![r.who] = row]
      BY <2>5 DEF row
    <3>3. ~overlap /\ clean => ~Pe!Taken(customers, row.contacts)
      BY <2>3, <2>4, <2>5, <3>1
    <3>4. Allowed(customers, r.who, row)
      BY ONLY <2>5, <3>3 DEF Allowed
    <3> QED
      BY ONLY <1>d, <2>1, <2>5, <3>2, <3>4
  <2>6. CASE /\ r.who \in Employees /\ employees[r.who] = None
             /\ employees' = [employees EXCEPT ![r.who] = [contacts |-> r.contacts, active |-> TRUE]]
             /\ UNCHANGED <<customers, held>>
    <3> DEFINE row == [contacts |-> r.contacts, active |-> TRUE]
    <3>1. row.contacts = r.contacts
      OBVIOUS
    <3> HIDE DEF row
    <3>2. employees' = [employees EXCEPT ![r.who] = row]
      BY <2>6 DEF row
    <3>3. ~overlap /\ clean => ~Pe!Taken(employees, row.contacts)
      BY <2>3, <2>4, <2>6, <3>1
    <3>4. Allowed(employees, r.who, row)
      BY ONLY <2>6, <3>3 DEF Allowed
    <3> QED
      BY ONLY <1>e, <2>1, <2>6, <3>2, <3>4
  <2> QED
    BY <1>2, <2>5, <2>6 DEF Pe!Insert
<1>3. ASSUME NEW h \in Handlers, Pe!Change(h) PROVE Goal
  <2> DEFINE r == job[h].r
  <2>1. pc[h] = "change" /\ Carries(r)
    BY <1>0, <1>3, PeopleChange
  <2>2. /\ r.kind \in {"award", "redeem", "recordOrder", "updateCustomer", "deactivate"} => r.who \in Customers
        /\ r.kind \in {"award", "redeem", "updateCustomer"} => customers[r.who] # None
        /\ r.kind \in {"updateEmployee", "terminate", "reactivate"} => r.who \in Employees /\ employees[r.who] # None
    <3>1. /\ r.kind \in {"award", "redeem", "recordOrder", "updateCustomer", "deactivate"} => r.kind \in AboutCustomer
          /\ r.kind \in {"award", "redeem", "updateCustomer"} => r.kind \in AboutCustomer \ Blind
          /\ r.kind \in {"updateEmployee", "terminate", "reactivate"} => r.kind \in AboutEmployee \ Blind
      BY DEF AboutCustomer, AboutEmployee, Blind
    <3> QED
      BY <1>0, <2>1, <3>1 DEF TaskInv, Carries
  <2>3. ASSUME NEW delta, Pe!SavePoints(h, delta), r.kind \in {"award", "redeem"} PROVE Goal
    <3> DEFINE row == [customers[r.who] EXCEPT !.points = job[h].copy.points + delta]
    <3>1. customers' = [customers EXCEPT ![r.who] = row] /\ UNCHANGED <<employees, adopted>>
      BY <2>3 DEF Pe!SavePoints
    <3>2. customers[r.who] \in Pe!CustomerRows /\ r.who \in Customers /\ customers[r.who] # None
      BY <1>a, <2>2, <2>3
    <3>3. (row.active <=> customers[r.who].active) /\ row.contacts = customers[r.who].contacts
      BY <3>2 DEF Pe!CustomerRows
    <3> HIDE DEF row
    <3>4. Allowed(customers, r.who, row)
      BY ONLY <3>2, <3>3 DEF Allowed
    <3> QED
      BY ONLY <1>d, <3>1, <3>2, <3>4
  <2>4. CASE Pe!Award(h) \/ Pe!Redeem(h)
    BY <2>3, <2>4 DEF Pe!Award, Pe!Redeem
  <2>5. CASE Pe!RecordOrder(h)
    <3>1. r.kind = "recordOrder" /\ UNCHANGED <<employees, adopted>> /\ r.who \in Customers
      BY <2>2, <2>5 DEF Pe!RecordOrder
    <3>2. CASE customers[r.who] = None
      BY <1>c, <2>5, <3>1, <3>2 DEF Pe!RecordOrder, Goal
    <3>3. CASE customers[r.who] # None
      <4> DEFINE row == [customers[r.who] EXCEPT !.orders = @ + 1]
      <4>1. customers' = [customers EXCEPT ![r.who] = row]
        BY <2>5, <3>3 DEF Pe!RecordOrder
      <4>2. (row.active <=> customers[r.who].active) /\ row.contacts = customers[r.who].contacts
        <5>1. customers[r.who] \in Pe!CustomerRows
          BY <1>a, <3>1, <3>3
        <5> QED
          BY <5>1 DEF Pe!CustomerRows
      <4> HIDE DEF row
      <4>3. Allowed(customers, r.who, row)
        BY ONLY <3>3, <4>2 DEF Allowed
      <4> QED
        BY ONLY <1>d, <3>1, <4>1, <4>3
    <3> QED
      BY <3>2, <3>3
  <2>6. CASE Pe!UpdateCustomer(h)
    <3> DEFINE row == [customers[r.who] EXCEPT !.contacts = r.contacts]
    <3>1. /\ r.kind = "updateCustomer" /\ employees' = employees
          /\ customers' = [customers EXCEPT ![r.who] = row] /\ adopted' = adopted \cup {r.who}
      BY <2>6 DEF Pe!UpdateCustomer
    <3> HIDE DEF row
    <3>2. r.who \in Customers /\ r.who \in adopted' /\ adopted \subseteq adopted'
      BY <2>2, <3>1
    <3>3. Allowed(customers, r.who, row)
      BY ONLY <3>2 DEF Allowed
    <3> QED
      BY ONLY <1>d, <3>1, <3>2, <3>3
  <2>7. CASE Pe!DeactivateCustomer(h)
    <3>1. /\ r.kind = "deactivate" /\ UNCHANGED <<employees, adopted>>
          /\ customers' = [customers EXCEPT ![r.who] =
                                IF customers[r.who] = None THEN None ELSE [customers[r.who] EXCEPT !.active = FALSE]]
      BY <2>7 DEF Pe!DeactivateCustomer, Pe!books
    <3>2. CASE customers[r.who] = None
      <4>1. customers' = customers
        BY <1>a, <3>1, <3>2
      <4> QED
        BY <1>c, <3>1, <4>1 DEF Goal
    <3>3. CASE customers[r.who] # None
      <4> DEFINE row == [customers[r.who] EXCEPT !.active = FALSE]
      <4>1. customers' = [customers EXCEPT ![r.who] = row]
        BY <3>1, <3>3
      <4>2. customers[r.who] \in Pe!CustomerRows /\ r.who \in Customers
        BY <1>a, <2>2, <3>1, <3>3
      <4>3. ~row.active
        BY <4>2 DEF Pe!CustomerRows
      <4> HIDE DEF row
      <4>4. Allowed(customers, r.who, row)
        BY ONLY <4>3 DEF Allowed
      <4> QED
        BY ONLY <1>d, <3>1, <4>1, <4>2, <4>4
    <3> QED
      BY <3>2, <3>3
  <2>8. CASE Pe!UpdateEmployee(h)
    <3> DEFINE row == [employees[r.who] EXCEPT !.contacts = r.contacts]
    <3>1. /\ r.kind = "updateEmployee" /\ customers' = customers
          /\ employees' = [employees EXCEPT ![r.who] = row] /\ adopted' = adopted \cup {r.who}
      BY <2>8 DEF Pe!UpdateEmployee
    <3> HIDE DEF row
    <3>2. r.who \in Employees /\ r.who \in adopted' /\ adopted \subseteq adopted'
      BY <2>2, <3>1
    <3>3. Allowed(employees, r.who, row)
      BY ONLY <3>2 DEF Allowed
    <3> QED
      BY ONLY <1>e, <3>1, <3>2, <3>3
  <2>9. CASE Pe!SetActive(h)
    <3> DEFINE row == [employees[r.who] EXCEPT !.active = (r.kind = "reactivate")]
    <3>1. /\ r.kind \in {"terminate", "reactivate"} /\ customers' = customers
          /\ employees' = [employees EXCEPT ![r.who] = row]
          /\ adopted' = IF r.kind = "reactivate" THEN adopted \cup {r.who} ELSE adopted
      BY <2>9 DEF Pe!SetActive
    <3>2. r.who \in Employees /\ employees[r.who] \in Pe!EmployeeRows
      BY <1>a, <2>2, <3>1
    <3>3. row.active <=> r.kind = "reactivate"
      BY <3>2 DEF Pe!EmployeeRows
    <3> HIDE DEF row
    <3>4. (~row.active \/ r.who \in adopted') /\ adopted \subseteq adopted'
      BY <3>1, <3>3
    <3>5. Allowed(employees, r.who, row)
      BY ONLY <3>4 DEF Allowed
    <3> QED
      BY ONLY <1>e, <3>1, <3>2, <3>4, <3>5
  <2>10. CASE Pe!ChangeRole(h)
    BY <1>c, <2>10 DEF Pe!ChangeRole, Pe!books, Goal
  <2> QED
    BY <1>0, <1>3, PeopleChange, <2>4, <2>5, <2>6, <2>7, <2>8, <2>9, <2>10
<1>4. CASE UNCHANGED Pe!people
  BY <1>4, <1>c DEF Pe!people, Pe!db, Pe!books, Goal
<1>5. Goal
  BY <1>1, <1>2, <1>3, <1>4, PeopleNext
<1> QED
  BY <1>5 DEF Goal

(* A count that no error has spoilt holds until its insert. *)
LEMMA PeopleCounts == PeopleInv /\ [Pe!Next]_(Pe!people) => (CountInv /\ Pe!SerialNoDuplicate)'
<1> SUFFICES ASSUME PeopleInv, [Pe!Next]_(Pe!people) PROVE CountInv' /\ Pe!SerialNoDuplicate'
  OBVIOUS
<1>0. /\ PeopleTypes /\ (\A g \in Handlers : TaskInv(g)) /\ CountInv /\ Pe!SerialNoDuplicate
      /\ customers \in [Customers -> {None} \cup Pe!CustomerRows] /\ employees \in [Employees -> {None} \cup Pe!EmployeeRows]
      /\ held \in [Employees \X StaffRoles -> Nat]
      /\ pc \in [Handlers -> PeopleSteps] /\ DOMAIN job = Handlers
  BY DEF PeopleInv, PeopleTypes, Pe!TypeOK
<1>a. /\ customers' \in [Customers -> {None} \cup Pe!CustomerRows] /\ employees' \in [Employees -> {None} \cup Pe!EmployeeRows]
      /\ held' \in [Employees \X StaffRoles -> Nat]
  BY PeopleTyped DEF PeopleTypes, Pe!TypeOK
<1>1. CASE UNCHANGED Pe!people
  <2>1. UNCHANGED <<overlap, clean, pc, job, customers, employees, held, adopted>>
    BY <1>1 DEF Pe!people, Pe!db, Pe!books
  <2>2. CountInv'
    BY ONLY <1>0, <2>1 DEF CountInv, Pe!Taken
  <2> QED
    BY ONLY <1>0, <2>1, <2>2 DEF Pe!SerialNoDuplicate
<1>2. CASE Pe!Next
  <2>1. PICK h \in Handlers :
           /\ overlap' = overlap /\ pc' \in [Handlers -> PeopleSteps]
           /\ ~overlap => \A g \in Handlers : g # h => pc'[g] = "idle"
           /\ \/ \E r \in Pe!Requests : Pe!Begin(h, r)
              \/ Pe!Count(h) \/ Pe!Insert(h) \/ Pe!Find(h) \/ Pe!CountRole(h) \/ Pe!Change(h)
    BY <1>2, WhoMoves
  <2>2. clean' => clean
    BY <2>1 DEF Pe!Begin, Pe!Count, Pe!Insert, Pe!Find, Pe!CountRole, Pe!Change
  <2> SUFFICES ASSUME ~overlap', clean' PROVE CountInv' /\ Pe!SerialNoDuplicate'
    BY DEF CountInv, Pe!SerialNoDuplicate
  <2>3. ~overlap /\ clean
    BY <2>1, <2>2
  <2> DEFINE r == job[h].r
             pair == <<r.who, r.role>>
  <2> DEFINE Counts ==
        /\ pc'[h] = "insert" => /\ job'[h].r.kind = "createCustomer" => ~Pe!Taken(customers', job'[h].r.contacts)
                                /\ job'[h].r.kind = "createEmployee" => ~Pe!Taken(employees', job'[h].r.contacts)
        /\ pc'[h] = "change" /\ job'[h].r.kind = "assignRole" => held'[<<job'[h].r.who, job'[h].r.role>>] = 0
  <2>4. Counts
    <3>1. ASSUME NEW q \in Pe!Requests, Pe!Begin(h, q) PROVE Counts
      <4>1. pc'[h] = FirstStep(q) /\ job'[h].r = q /\ UNCHANGED <<customers, employees, held>>
        BY <1>0, <3>1, PeopleBegin DEF Pe!Begin, Pe!db
      <4>2. pc'[h] = "change" => q.kind # "assignRole"
        BY <3>1, <4>1, PeopleBegin DEF Blind
      <4>3. pc'[h] = "insert" => q.contacts = {}
        BY <3>1, <4>1, PeopleBegin DEF FirstStep
      <4> QED
        BY ONLY <4>1, <4>2, <4>3 DEF Pe!Taken
    <3>2. CASE Pe!Insert(h) \/ Pe!Change(h)
      BY <1>0, <3>2 DEF Pe!Insert, Pe!Change, Pe!Return, Pe!Goto
    <3>3. CASE Pe!Find(h)
      <4>1. pc'[h] # "insert" /\ (pc'[h] = "change" => job[h].r.kind # "assignRole" /\ job' = [job EXCEPT ![h].copy = Pe!Row(job[h].r.who)])
        BY <1>0, <3>3 DEF Pe!Find, Pe!Return, Pe!Goto
      <4>2. job[h] \in PeopleJobs
        BY <1>0 DEF PeopleTypes
      <4>3. pc'[h] = "change" => job'[h].r.kind = job[h].r.kind
        BY ONLY <1>0, <4>1, <4>2 DEF PeopleJobs
      <4> QED
        BY ONLY <4>1, <4>3
    <3>4. CASE Pe!Count(h)
      <4>1. /\ pc[h] = "count" /\ UNCHANGED <<customers, employees, held>> /\ pc'[h] # "change"
            /\ pc'[h] = "insert" => job' = job /\ ~Pe!Taken(IF r.who \in Customers THEN customers ELSE employees, r.contacts)
        BY <1>0, <3>4 DEF Pe!Count, Pe!Return, Pe!Goto, Pe!db
      <4>2. Carries(r)
        BY <1>0, <4>1 DEF TaskInv
      <4>3. /\ r.kind = "createCustomer" => r.who \in Customers
            /\ r.kind = "createEmployee" => r.who \in Employees /\ r.who \notin Customers
        BY <4>2, PeopleGiven DEF Carries, AboutCustomer, AboutEmployee
      <4> QED
        BY ONLY <4>1, <4>3
    <3>5. CASE Pe!CountRole(h)
      <4>1. /\ pc[h] = "countRole" /\ UNCHANGED <<customers, employees, held>> /\ pc'[h] # "insert"
            /\ pc'[h] = "change" => job' = job /\ ~(held[pair] > 0)
        BY <1>0, <3>5 DEF Pe!CountRole, Pe!Return, Pe!Goto, Pe!db
      <4>2. Carries(r) /\ r.kind = "assignRole"
        BY <1>0, <4>1 DEF TaskInv
      <4>3. pair \in Employees \X StaffRoles
        BY <4>2 DEF Carries, AboutEmployee
      <4>4. held[pair] \in Nat
        BY ONLY <1>0, <4>3
      <4> QED
        BY ONLY <4>1, <4>4
    <3> QED
      BY <2>1, <3>1, <3>2, <3>3, <3>4, <3>5
  <2>5. CountInv'
    BY ONLY <2>1, <2>4, ~overlap' DEF CountInv
  <2>6. /\ \A c, d \in Customers : ~Shares(customers, c, d)
        /\ \A c, d \in Employees : ~Shares(employees, c, d)
        /\ \A p \in Employees \X StaffRoles : held[p] <= 1
    <3>1. DOMAIN customers = Customers /\ DOMAIN employees = Employees /\ DOMAIN held = Employees \X StaffRoles
      BY ONLY <1>0
    <3>2. ASSUME NEW c \in Customers, NEW d \in Customers, Shares(customers, c, d) PROVE FALSE
      <4>1. {c, d} \cap adopted = {}
        BY ONLY <3>2 DEF Shares
      <4> QED
        BY ONLY <1>0, <2>3, <3>1, <3>2, <4>1, c \in Customers, d \in Customers DEF Pe!SerialNoDuplicate, Shares
    <3>3. ASSUME NEW c \in Employees, NEW d \in Employees, Shares(employees, c, d) PROVE FALSE
      <4>1. {c, d} \cap adopted = {}
        BY ONLY <3>3 DEF Shares
      <4> QED
        BY ONLY <1>0, <2>3, <3>1, <3>3, <4>1, c \in Employees, d \in Employees DEF Pe!SerialNoDuplicate, Shares
    <3>4. \A p \in Employees \X StaffRoles : held[p] <= 1
      BY ONLY <1>0, <2>3, <3>1 DEF Pe!SerialNoDuplicate
    <3> QED
      BY <3>2, <3>3, <3>4
  <2>7. /\ \A x, y \in Customers :
             ~ (/\ x # y /\ x \notin adopted' /\ y \notin adopted'
                /\ customers'[x] # None /\ customers'[y] # None /\ customers'[x].active /\ customers'[y].active
                /\ customers'[x].contacts \cap customers'[y].contacts # {})
        /\ \A x, y \in Employees :
             ~ (/\ x # y /\ x \notin adopted' /\ y \notin adopted'
                /\ employees'[x] # None /\ employees'[y] # None /\ employees'[x].active /\ employees'[y].active
                /\ employees'[x].contacts \cap employees'[y].contacts # {})
    <3>1. /\ adopted \subseteq adopted'
          /\ OneRow(customers, customers') /\ OneRow(employees, employees')
          /\ \A c \in Customers : Counted(customers, customers', c)
          /\ \A e \in Employees : Counted(employees, employees', e)
      BY RowsCounted
    <3>2. /\ DOMAIN customers = Customers /\ DOMAIN customers' = Customers
          /\ DOMAIN employees = Employees /\ DOMAIN employees' = Employees
      BY ONLY <1>0, <1>a
    <3> QED
      BY ONLY <2>3, <2>6, <3>1, <3>2, SharesKept
  <2>8. \A p \in Employees \X StaffRoles : held'[p] <= 1
    <3>1. CASE held' = held
      BY <2>6, <3>1
    <3>2. CASE Pe!Change(h) /\ Pe!ChangeRole(h)
      <4>1. /\ pc[h] = "change" /\ Carries(r) /\ r.kind \in {"assignRole", "revokeRole"}
            /\ held' = [held EXCEPT ![pair] = IF r.kind = "revokeRole" THEN 0 ELSE held[pair] + 1]
        BY <1>0, <3>2, PeopleChange DEF Pe!ChangeRole
      <4>2. r.kind = "assignRole" => held[pair] = 0
        BY <1>0, <2>3, <4>1 DEF CountInv
      <4>3. pair \in Employees \X StaffRoles
        BY <4>1 DEF Carries, AboutEmployee
      <4> HIDE DEF pair
      <4>4. (IF r.kind = "revokeRole" THEN 0 ELSE held[pair] + 1) \in 0..1
        <5>1. CASE r.kind = "revokeRole"
          BY ONLY <5>1
        <5>2. CASE r.kind = "assignRole"
          <6>1. held[pair] + 1 = 1
            BY <4>2, <5>2
          <6> QED
            BY ONLY <5>2, <6>1
        <5> QED
          BY ONLY <4>1, <5>1, <5>2
      <4> QED
        BY ONLY <1>0, <2>6, <4>1, <4>3, <4>4
    <3>3. held' = held \/ (Pe!Change(h) /\ Pe!ChangeRole(h))
      BY <2>1, <1>0, PeopleChange
         DEF Pe!Begin, Pe!Count, Pe!Insert, Pe!Find, Pe!CountRole, Pe!Award, Pe!Redeem, Pe!SavePoints, Pe!RecordOrder, Pe!UpdateCustomer,
             Pe!DeactivateCustomer, Pe!UpdateEmployee, Pe!SetActive, Pe!db
    <3> QED
      BY <3>1, <3>2, <3>3
  <2>9. Pe!SerialNoDuplicate'
    <3>1. DOMAIN customers' = Customers /\ DOMAIN employees' = Employees /\ DOMAIN held' = Employees \X StaffRoles
      BY ONLY <1>a
    <3> QED
      BY ONLY <2>7, <2>8, <3>1 DEF Pe!SerialNoDuplicate
  <2> QED
    BY <2>5, <2>9
<1> QED
  BY <1>1, <1>2

(* A behaviour of the people steps as People does. *)
LEMMA PeopleRuns == part = "people" /\ [Next]_all => part' = "people" /\ [Pe!Next]_(Pe!people)
BY DEF Next, all, Pe!people, Pe!db, Pe!books

(* However requests overlap no order of a customer is lost and no balance   *)
(* is negative; while they take turns points are what was awarded and       *)
(* redeemed, and active rows share no contact that a count could have seen  *)
(* (Customer.go, Employee.go), for every number of requests, rows and       *)
(* errors. *)
THEOREM PeopleAddUp == Spec => []PeopleSound
<1> DEFINE Inv == part = "people" => PeopleInv
<1>1. Init => Inv
  BY PeopleInit DEF Init
<1>2. Inv /\ [Next]_all => Inv'
  <2> SUFFICES ASSUME Inv, [Next]_all, part' = "people" PROVE PeopleInv'
    OBVIOUS
  <2>1. part = "people"
    BY DEF Next, all
  <2> QED
    BY <2>1, PeopleRuns, PeopleTyped, PeopleBooks, PeopleCounts DEF PeopleInv
<1>3. Inv => PeopleSound
  BY DEF PeopleInv, PeopleTypes, BooksInv, PeopleSound, Pe!PeopleSound
<1> QED
  BY <1>1, <1>2, <1>3, PTL DEF Spec

-----------------------------------------------------------------------------
(* Notifications. *)

NoteRows(t) == [to : Users \cup {Everybody}, read : BOOLEAN, at : 1..t]
Badges == [total : SUBSET DOMAIN notes, types : SUBSET DOMAIN notes, until : 1..now + BadgeTtl]
NoteJobs == [for : Seq(Users), seen : SUBSET DOMAIN notes, types : SUBSET DOMAIN notes, hook : Hooks \cup {None}]
NoteSteps == {"idle", "forget", "types", "set", "insert"}

NoteTypes ==
    /\ overlap \in BOOLEAN /\ clean \in BOOLEAN /\ now \in 1..MaxTime
    /\ notes \in Seq(NoteRows(now) \cup {None}) /\ badge \in [Users -> Badges \cup {None}]
    /\ hooks \in [Hooks -> [on : Nat, off : Nat]]
    /\ pc \in [Handlers -> NoteSteps] /\ job \in [Handlers -> NoteJobs]
    /\ faults \in 0..MaxFaults /\ requests \in 0..MaxRequests

(* What a request has in hand at a step. *)
InHand(h) ==
    /\ pc[h] \in {"forget", "types", "set"} => job[h].for # <<>>
    /\ pc[h] = "insert" => job[h].hook \in Hooks

(* A webhook that is active, or about to be, was counted by a request, and  *)
(* without error all that are about to be found none active. *)
AtOnce == IF overlap THEN Cardinality(Handlers) ELSE 1
Inserting(k) == {h \in Handlers : pc[h] = "insert" /\ job[h].hook = k}
HookInv ==
    \A k \in Hooks : LET count == hooks[k].on + Cardinality(Inserting(k))
                     IN count <= requests /\ (clean => count <= AtOnce)

(* Without overlap or error a badge misses a notification sent to its user  *)
(* alone only while a request is about to delete it; what a request has     *)
(* counted is still so. *)
ToForget(u) == \E h \in Handlers : pc[h] = "forget" /\ \E i \in DOMAIN job[h].for : job[h].for[i] = u
Personal(u) == {n \in No!Unread(u) : notes[n].to = u}
Covers(u) ==
    badge[u] # None => badge[u].types = badge[u].total /\ (ToForget(u) \/ Personal(u) \subseteq badge[u].total)
HasCounted(h) ==
    /\ pc[h] \in {"types", "set"} => job[h].seen = No!Unread(Head(job[h].for))
    /\ pc[h] = "set" => job[h].types = job[h].seen
BadgeInv == ~overlap /\ clean => (\A u \in Users : Covers(u)) /\ (\A h \in Handlers : HasCounted(h))

NotesInv == NoteTypes /\ (\A h \in Handlers : InHand(h)) /\ OneAtWork /\ HookInv /\ BadgeInv

(* Notifications counts as this module does. *)
LEMMA SameCount ==
    ASSUME NEW S
    PROVE  No!Cardinality(S) = Cardinality(S) /\ No!IsFiniteSet(S) = IsFiniteSet(S)
BY DEF No!Cardinality, Cardinality, No!IsFiniteSet, IsFiniteSet

(* What the assumptions say of notifications. *)
LEMMA NotesGiven ==
    /\ IsFiniteSet(Handlers) /\ IsFiniteSet(Users) /\ Everybody \notin Users
    /\ Overlaps \subseteq BOOLEAN /\ BadgeTtl \in Nat /\ MaxTime \in Nat \ {0}
    /\ MaxRequests \in Nat /\ MaxFaults \in Nat
BY ServicesAssumption, SameCount DEF No!NotificationsAssumption

(* A bulk goes to each user. *)
LEMMA BulkCovers ==
    ASSUME NEW us \in No!AllUsers
    PROVE  /\ us \in Seq(Users) /\ Len(us) \in Nat /\ DOMAIN us = 1..Len(us)
           /\ \A u \in Users : \E i \in DOMAIN us : us[i] = u
<1>1. Cardinality(Users) \in Nat
  BY NotesGiven, FS_CardinalityType
<1>2. us \in [1..Cardinality(Users) -> Users] /\ \A u \in Users : \E i \in 1..Cardinality(Users) : us[i] = u
  BY <1>1, SameCount DEF No!AllUsers, No!Bijection, No!Injection, No!Surjection
<1> HIDE DEF No!AllUsers
<1>3. us \in Seq(Users)
  BY ONLY <1>1, <1>2
<1>4. DOMAIN us = 1..Cardinality(Users)
  BY ONLY <1>2
<1> QED
  BY ONLY <1>2, <1>3, <1>4

(* The invariant holds initially. *)
LEMMA NotesInit == No!Init => NotesInv
<1> SUFFICES ASSUME No!Init PROVE NotesInv
  OBVIOUS
<1> USE DEF No!Init
<1>1. NoteTypes
  <2>1. No!NoJob \in NoteJobs /\ overlap \in BOOLEAN /\ notes \in Seq(NoteRows(now) \cup {None})
    BY NotesGiven DEF No!NoJob, NoteJobs
  <2> QED
    BY <2>1, NotesGiven DEF NoteTypes, NoteSteps
<1>2. (\A h \in Handlers : InHand(h)) /\ OneAtWork /\ BadgeInv
  BY DEF InHand, OneAtWork, BadgeInv, Covers, HasCounted
<1>3. HookInv
  <2>1. \A k : Inserting(k) = {}
    BY DEF Inserting
  <2>2. Cardinality({}) = 0 /\ Cardinality(Handlers) \in Nat
    BY NotesGiven, FS_EmptySet, FS_CardinalityType
  <2>3. AtOnce \in Nat
    BY <2>2 DEF AtOnce
  <2>4. ASSUME NEW k \in Hooks PROVE hooks[k].on = 0 /\ Cardinality(Inserting(k)) = 0
    BY <2>1, <2>2
  <2>5. requests = 0 /\ 0 <= AtOnce
    BY <2>3
  <2> QED
    BY ONLY <2>4, <2>5 DEF HookInv
<1> QED
  BY <1>1, <1>2, <1>3 DEF NotesInv

(* A request that changes notifications: what it appends to a user alone is *)
(* his badge's to be deleted. *)
Rewrites(h, us) ==
    /\ No!Start(h) /\ No!ForgetBadges(h, us) /\ us \in Seq(Users)
    /\ notes' \in Seq(NoteRows(now) \cup {None}) /\ Len(notes) <= Len(notes')
    /\ \A u \in Users : Personal(u)' \subseteq Personal(u) \/ \E i \in DOMAIN us : us[i] = u
    /\ UNCHANGED <<overlap, now, badge, hooks, faults, clean>>

(* Rows that are read, deleted or left alone are unread for nobody new. *)
LEMMA NobodyNew ==
    ASSUME NoteTypes, notes' \in Seq(NoteRows(now) \cup {None}), Len(notes') = Len(notes),
           \A n \in DOMAIN notes :
              \/ notes'[n] = notes[n]
              \/ notes'[n] = None
              \/ notes[n] # None /\ notes'[n] = [notes[n] EXCEPT !.read = TRUE]
    PROVE  \A u \in Users : Personal(u)' \subseteq Personal(u)
<1> SUFFICES ASSUME NEW u \in Users, NEW n \in Personal(u)' PROVE n \in Personal(u)
  OBVIOUS
<1>1. /\ n \in DOMAIN notes' /\ notes'[n] # None /\ notes'[n].to = u /\ ~notes'[n].read
  BY DEF Personal, No!Unread, No!Rows
<1>2. n \in DOMAIN notes /\ notes \in Seq(NoteRows(now) \cup {None})
  BY <1>1 DEF NoteTypes
<1>3. notes[n] # None => notes[n] \in NoteRows(now)
  BY ONLY <1>2
<1>4. ~(notes[n] # None /\ notes'[n] = [notes[n] EXCEPT !.read = TRUE])
  BY ONLY <1>1, <1>3 DEF NoteRows
<1>5. notes'[n] = notes[n]
  BY <1>1, <1>2, <1>4
<1> QED
  BY <1>1, <1>2, <1>5 DEF Personal, No!Unread, No!Rows

LEMMA NotesRewritten ==
    ASSUME NoteTypes, NEW h \in Handlers,
           \/ \E to \in Users \cup {Everybody} : No!Send(h, to)
           \/ No!SendBulk(h)
           \/ \E n \in DOMAIN notes : No!MarkAsRead(h, n) \/ No!DeleteNotification(h, n)
           \/ \E cutoff \in 2..MaxTime : No!DeleteOlderThan(h, cutoff)
           \/ \E u \in Users : No!MarkAllAsRead(h, u)
    PROVE  \E us : Rewrites(h, us)
<1> DEFINE Row == NoteRows(now) \cup {None}
<1>0. notes \in Seq(Row) /\ Len(notes) \in Nat /\ DOMAIN notes = 1..Len(notes)
  BY DEF NoteTypes
<1>e. <<>> \in Seq(Users) /\ No!ForgetBadges(h, <<>>) <=> UNCHANGED <<pc, job>>
  BY DEF No!ForgetBadges
<1>n. \A u \in Users \cup {Everybody} : No!NewNote(u) \in NoteRows(now)
  BY DEF No!NewNote, NoteRows, NoteTypes
<1>1. ASSUME NEW to \in Users \cup {Everybody}, No!Send(h, to) PROVE \E us : Rewrites(h, us)
  <2> DEFINE us == IF to = Everybody THEN <<>> ELSE <<to>>
  <2>1. us \in Seq(Users) /\ (to # Everybody => us[1] = to /\ DOMAIN us = {1})
    OBVIOUS
  <2>2. notes' = Append(notes, No!NewNote(to)) /\ No!NewNote(to) \in Row
    BY <1>1, <1>n DEF No!Send
  <2> HIDE DEF Row
  <2>3. notes' \in Seq(Row) /\ Len(notes') = Len(notes) + 1 /\ notes'[Len(notes) + 1] = No!NewNote(to)
        /\ \A n \in DOMAIN notes : notes'[n] = notes[n]
    BY ONLY <1>0, <2>2
  <2>4. ASSUME NEW u \in Users, NEW n \in Personal(u)' PROVE n \in Personal(u) \/ \E i \in DOMAIN us : us[i] = u
    <3>1. n \in DOMAIN notes' /\ notes'[n] # None /\ notes'[n].to = u /\ ~notes'[n].read
      BY <2>4 DEF Personal, No!Unread, No!Rows
    <3>2. CASE n \in DOMAIN notes
      BY <3>1, <3>2, <2>3 DEF Personal, No!Unread, No!Rows
    <3>3. CASE n = Len(notes) + 1
      <4>1. to = u
        BY <3>1, <3>3, <2>3 DEF No!NewNote
      <4> QED
        BY <4>1, <2>1, NotesGiven
    <3> QED
      BY <3>1, <3>2, <3>3, <2>3, <1>0
  <2>5. No!Start(h) /\ No!ForgetBadges(h, us) /\ UNCHANGED <<overlap, now, badge, hooks, faults, clean>>
    BY <1>1 DEF No!Send
  <2> HIDE DEF us
  <2>6. Len(notes) <= Len(notes')
    BY <1>0, <2>3
  <2> USE DEF Row
  <2>7. Rewrites(h, us)
    BY <2>1, <2>3, <2>4, <2>5, <2>6 DEF Rewrites
  <2> QED
    BY <2>7
<1>2. ASSUME No!SendBulk(h) PROVE \E us : Rewrites(h, us)
  <2>1. PICK us \in No!AllUsers :
           /\ No!Start(h) /\ notes' = notes \o [i \in DOMAIN us |-> No!NewNote(us[i])]
           /\ No!ForgetBadges(h, us) /\ UNCHANGED <<overlap, now, badge, hooks, faults, clean>>
    BY <1>2 DEF No!SendBulk
  <2>2. us \in Seq(Users) /\ Len(us) \in Nat /\ DOMAIN us = 1..Len(us) /\ \A u \in Users : \E i \in DOMAIN us : us[i] = u
    BY BulkCovers
  <2> DEFINE new == [i \in DOMAIN us |-> No!NewNote(us[i])]
  <2>3. new \in [1..Len(us) -> Row]
    BY <2>2, <1>n
  <2> HIDE DEF new, Row
  <2>4. new \in Seq(Row)
    BY ONLY <2>2, <2>3
  <2>5. notes' \in Seq(Row) /\ Len(notes') = Len(notes) + Len(new) /\ Len(new) \in Nat
    BY ONLY <1>0, <2>1, <2>4 DEF new
  <2> USE DEF Row
  <2> QED
    BY <1>0, <2>1, <2>2, <2>5 DEF Rewrites
<1>3. ASSUME No!Start(h), UNCHANGED <<overlap, now, badge, hooks, faults, clean>>,
             NEW us \in Seq(Users), No!ForgetBadges(h, us),
             notes' \in [DOMAIN notes -> Row],
             \A n \in DOMAIN notes :
               \/ notes'[n] = notes[n]
               \/ notes'[n] = None
               \/ notes[n] # None /\ notes'[n] = [notes[n] EXCEPT !.read = TRUE]
      PROVE  Rewrites(h, us)
  <2> HIDE DEF Row
  <2>1. notes' \in Seq(Row) /\ Len(notes') = Len(notes)
    BY ONLY <1>0, <1>3
  <2> USE DEF Row
  <2>2. \A u \in Users : Personal(u)' \subseteq Personal(u)
    BY <1>3, <2>1, NobodyNew
  <2> QED
    BY <1>0, <1>3, <2>1, <2>2 DEF Rewrites
<1>4. ASSUME NEW n \in DOMAIN notes, No!MarkAsRead(h, n) \/ No!DeleteNotification(h, n) PROVE \E us : Rewrites(h, us)
  <2>1. notes[n] # None /\ notes[n] \in NoteRows(now)
    BY <1>4, <1>0 DEF No!MarkAsRead, No!DeleteNotification, No!Rows
  <2>2. [notes[n] EXCEPT !.read = TRUE] \in NoteRows(now)
    BY ONLY <2>1 DEF NoteRows
  <2>3. \/ notes' = [notes EXCEPT ![n] = [notes[n] EXCEPT !.read = TRUE]]
        \/ notes' = [notes EXCEPT ![n] = None]
    BY <1>4 DEF No!MarkAsRead, No!DeleteNotification
  <2>a. PICK row \in Row : notes' = [notes EXCEPT ![n] = row] /\ (row = None \/ row = [notes[n] EXCEPT !.read = TRUE])
    BY <2>2, <2>3
  <2> HIDE DEF Row
  <2>b. notes \in [DOMAIN notes -> Row]
    BY ONLY <1>0
  <2>4. notes' \in [DOMAIN notes -> Row] /\ \A m \in DOMAIN notes : m # n => notes'[m] = notes[m]
    BY ONLY <2>a, <2>b
  <2>5. notes'[n] = None \/ notes'[n] = [notes[n] EXCEPT !.read = TRUE]
    BY ONLY <2>a, <2>b, <1>4
  <2> USE DEF Row
  <2>6. \A m \in DOMAIN notes : \/ notes'[m] = notes[m]
                                \/ notes'[m] = None
                                \/ notes[m] # None /\ notes'[m] = [notes[m] EXCEPT !.read = TRUE]
    BY ONLY <2>1, <2>4, <2>5
  <2>7. No!Start(h) /\ UNCHANGED <<overlap, now, badge, hooks, faults, clean>> /\ UNCHANGED <<pc, job>>
    BY <1>4 DEF No!MarkAsRead, No!DeleteNotification
  <2>8. Rewrites(h, <<>>)
    BY <1>3, <1>e, <2>4, <2>6, <2>7
  <2> QED
    BY <2>8
<1>5. ASSUME NEW cutoff \in 2..MaxTime, No!DeleteOlderThan(h, cutoff) PROVE \E us : Rewrites(h, us)
  <2>1. notes' = [n \in DOMAIN notes |-> IF n \in No!Rows /\ notes[n].at < cutoff THEN None ELSE notes[n]]
        /\ No!Start(h) /\ UNCHANGED <<overlap, now, badge, hooks, faults, clean>> /\ UNCHANGED <<pc, job>>
    BY <1>5 DEF No!DeleteOlderThan
  <2>2. notes' \in [DOMAIN notes -> Row] /\ \A n \in DOMAIN notes : notes'[n] = notes[n] \/ notes'[n] = None
    BY <1>0, <2>1
  <2>3. Rewrites(h, <<>>)
    BY <1>3, <1>e, <2>1, <2>2
  <2> QED
    BY <2>3
<1>6. ASSUME NEW u \in Users, No!MarkAllAsRead(h, u) PROVE \E us : Rewrites(h, us)
  <2>1. notes' = [n \in DOMAIN notes |-> IF n \in No!Unread(u) THEN [notes[n] EXCEPT !.read = TRUE] ELSE notes[n]]
        /\ No!Start(h) /\ UNCHANGED <<overlap, now, badge, hooks, faults, clean>> /\ No!ForgetBadges(h, <<u>>)
    BY <1>6 DEF No!MarkAllAsRead
  <2>2. ASSUME NEW n \in No!Unread(u) PROVE notes[n] # None /\ [notes[n] EXCEPT !.read = TRUE] \in NoteRows(now)
    <3>1. notes[n] # None /\ notes[n] \in NoteRows(now)
      BY <1>0 DEF No!Unread, No!Rows
    <3> QED
      BY ONLY <3>1 DEF NoteRows
  <2>3. notes' \in [DOMAIN notes -> Row]
        /\ \A n \in DOMAIN notes : \/ notes'[n] = notes[n]
                                   \/ notes[n] # None /\ notes'[n] = [notes[n] EXCEPT !.read = TRUE]
    BY <1>0, <2>1, <2>2
  <2>4. <<u>> \in Seq(Users)
    OBVIOUS
  <2>5. Rewrites(h, <<u>>)
    BY <1>3, <2>1, <2>3, <2>4
  <2> QED
    BY <2>5
<1> QED
  BY <1>1, <1>2, <1>4, <1>5, <1>6

(* The steps of a request that leave notifications alone. *)
Leaves(h) ==
    \/ No!Forget(h) \/ No!CountTypes(h) \/ No!SetBadge(h) \/ No!InsertHook(h)
    \/ \E u \in Users : No!GetBadge(h, u)
    \/ \E k \in Hooks : No!CountHooks(h, k) \/ No!DeactivateWebhook(h, k) \/ No!DeleteWebhook(h, k)

LEMMA NoteStepKinds ==
    NoteTypes /\ [No!Next]_(No!notifications) =>
      \/ \E h \in Handlers : (\E us : Rewrites(h, us)) \/ Leaves(h)
      \/ No!Tick \/ UNCHANGED No!notifications
<1> SUFFICES ASSUME NoteTypes, No!Next
             PROVE  (\E h \in Handlers : (\E us : Rewrites(h, us)) \/ Leaves(h)) \/ No!Tick
  OBVIOUS
<1>1. CASE No!Tick
  BY <1>1
<1>2. ASSUME NEW h \in Handlers,
             \/ \E to \in Users \cup {Everybody} : No!Send(h, to)
             \/ No!SendBulk(h)
             \/ \E n \in DOMAIN notes : No!MarkAsRead(h, n) \/ No!DeleteNotification(h, n)
             \/ \E cutoff \in 2..MaxTime : No!DeleteOlderThan(h, cutoff)
             \/ \E u \in Users : No!MarkAllAsRead(h, u)
      PROVE  \E us : Rewrites(h, us)
  BY <1>2, NotesRewritten
<1> QED
  BY <1>1, <1>2 DEF No!Next, Leaves

(* Where a step leaves its request. *)
MovesTo(h, step, j) ==
    /\ pc' = [pc EXCEPT ![h] = step] /\ job' = [job EXCEPT ![h] = j]
    /\ step \in {"forget", "types", "set"} => j.for # <<>>
    /\ step = "insert" => j.hook \in Hooks
    /\ step # "idle" => pc[h] # "idle" \/ overlap \/ \A g \in Handlers : pc[g] = "idle"

LEMMA Movement ==
    ASSUME NoteTypes, NEW h \in Handlers, InHand(h), (\E us : Rewrites(h, us)) \/ Leaves(h)
    PROVE  \E step \in NoteSteps, j \in NoteJobs : MovesTo(h, step, j)
<1>0. pc \in [Handlers -> NoteSteps] /\ job \in [Handlers -> NoteJobs] /\ pc[h] \in NoteSteps /\ job[h] \in NoteJobs
  BY DEF NoteTypes
<1>n. No!NoJob \in NoteJobs
  BY DEF No!NoJob, NoteJobs
<1>i. No!Start(h) => pc[h] = "idle" /\ (overlap \/ \A g \in Handlers : pc[g] = "idle")
  BY DEF No!Start
<1>s. /\ "idle" \in NoteSteps /\ "forget" \in NoteSteps /\ "types" \in NoteSteps
      /\ "set" \in NoteSteps /\ "insert" \in NoteSteps
  BY DEF NoteSteps
<1>q. ASSUME UNCHANGED <<pc, job>> PROVE MovesTo(h, pc[h], job[h])
  <2>1. pc' = [pc EXCEPT ![h] = pc[h]] /\ job' = [job EXCEPT ![h] = job[h]]
    BY ONLY <1>0, <1>q
  <2> QED
    BY <2>1 DEF MovesTo, InHand
<1>r. ASSUME No!Return(h) PROVE MovesTo(h, "idle", No!NoJob)
  BY <1>r DEF No!Return, No!Goto, MovesTo
<1>u. ASSUME NEW us \in Seq(Users)
      PROVE  [job[h] EXCEPT !.for = us] \in NoteJobs /\ [job[h] EXCEPT !.for = us].for = us
  BY <1>0 DEF NoteJobs
<1>1. ASSUME NEW us, Rewrites(h, us) PROVE \E step \in NoteSteps, j \in NoteJobs : MovesTo(h, step, j)
  <2>1. us \in Seq(Users) /\ No!Start(h) /\ No!ForgetBadges(h, us)
    BY <1>1 DEF Rewrites
  <2>2. CASE us = <<>>
    BY <2>1, <2>2, <1>q, <1>0 DEF No!ForgetBadges
  <2>3. CASE us # <<>>
    <3> DEFINE j == [job[h] EXCEPT !.for = us]
    <3>1. pc' = [pc EXCEPT ![h] = "forget"] /\ job' = [job EXCEPT ![h] = j]
      BY <2>1, <2>3, <1>0 DEF No!ForgetBadges, No!Goto
    <3>2. j \in NoteJobs /\ j.for # <<>>
      BY <2>1, <2>3, <1>u
    <3> HIDE DEF j
    <3>3. MovesTo(h, "forget", j)
      BY <3>1, <3>2, <1>i, <2>1 DEF MovesTo
    <3> QED
      BY <3>2, <3>3, <1>s
  <2> QED
    BY <2>2, <2>3
<1>2. CASE No!Forget(h)
  <2>1. pc[h] = "forget" /\ job[h].for # <<>> /\ job[h].for \in Seq(Users)
    BY <1>2, <1>0 DEF No!Forget, InHand, NoteJobs
  <2>2. CASE No!Return(h)
    BY <2>2, <1>r, <1>n, <1>s
  <2>3. CASE Tail(job[h].for) # <<>> /\ job' = [job EXCEPT ![h].for = Tail(job[h].for)] /\ UNCHANGED pc
    <3> DEFINE us == Tail(job[h].for)
               j == [job[h] EXCEPT !.for = us]
    <3>1. us \in Seq(Users)
      BY ONLY <2>1
    <3>2. pc' = [pc EXCEPT ![h] = "forget"] /\ job' = [job EXCEPT ![h] = j]
      BY <2>1, <2>3, <1>0
    <3>3. j \in NoteJobs /\ j.for # <<>>
      BY <3>1, <2>3, <1>u
    <3> HIDE DEF j
    <3>4. MovesTo(h, "forget", j)
      BY <3>2, <3>3, <2>1 DEF MovesTo
    <3> QED
      BY <3>3, <3>4, <1>s
  <2> QED
    BY <1>2, <2>2, <2>3 DEF No!Forget
<1>3. ASSUME NEW u \in Users, No!GetBadge(h, u) PROVE \E step \in NoteSteps, j \in NoteJobs : MovesTo(h, step, j)
  <2>1. \E found \in SUBSET DOMAIN notes : job' = [job EXCEPT ![h] = [job[h] EXCEPT !.for = <<u>>, !.seen = found]]
    <3>1. No!Unread(u) \in SUBSET DOMAIN notes
      BY DEF No!Unread, No!Rows
    <3>2. job[h].seen \in SUBSET DOMAIN notes /\ [job[h] EXCEPT !.for = <<u>>] = [job[h] EXCEPT !.for = <<u>>, !.seen = job[h].seen]
      BY <1>0 DEF NoteJobs
    <3>3. \/ job' = [job EXCEPT ![h] = [job[h] EXCEPT !.for = <<u>>, !.seen = No!Unread(u)]]
          \/ job' = [job EXCEPT ![h] = [job[h] EXCEPT !.for = <<u>>]]
      BY <1>3, <1>0 DEF No!GetBadge
    <3> QED
      BY <3>1, <3>2, <3>3
  <2>2. PICK found \in SUBSET DOMAIN notes : job' = [job EXCEPT ![h] = [job[h] EXCEPT !.for = <<u>>, !.seen = found]]
    BY <2>1
  <2> DEFINE j == [job[h] EXCEPT !.for = <<u>>, !.seen = found]
  <2>3. j \in NoteJobs /\ j.for # <<>>
    <3>1. <<u>> \in Seq(Users) /\ <<u>> # <<>>
      OBVIOUS
    <3>2. \A us \in Seq(Users) : [job[h] EXCEPT !.for = us, !.seen = found] \in NoteJobs
                                /\ [job[h] EXCEPT !.for = us, !.seen = found].for = us
      BY <1>0 DEF NoteJobs
    <3> QED
      BY <3>1, <3>2
  <2>4. pc' = [pc EXCEPT ![h] = "types"] /\ job' = [job EXCEPT ![h] = j] /\ No!Start(h)
    BY <1>3, <2>2 DEF No!GetBadge, No!Goto
  <2> HIDE DEF j
  <2>5. MovesTo(h, "types", j)
    BY <2>3, <2>4, <1>i DEF MovesTo
  <2> QED
    BY <2>3, <2>5, <1>s
<1>4. CASE No!CountTypes(h)
  <2> DEFINE counted == [job[h] EXCEPT !.types = No!Unread(Head(job[h].for))]
  <2>0. /\ pc[h] = "types" /\ pc' = [pc EXCEPT ![h] = "set"] /\ job[h].for # <<>>
        /\ job' = [job EXCEPT ![h] = counted] \/ job' = job
    BY <1>4, <1>0 DEF No!CountTypes, No!Goto, InHand
  <2>i. job = [job EXCEPT ![h] = job[h]]
    BY <1>0
  <2> HIDE DEF counted
  <2>1. PICK j \in {counted, job[h]} : job' = [job EXCEPT ![h] = j]
    BY <2>0, <2>i
  <2>2. \A u : No!Unread(u) \in SUBSET DOMAIN notes
    BY DEF No!Unread, No!Rows
  <2>c. counted \in NoteJobs /\ counted.for = job[h].for
    BY <1>0, <2>2 DEF NoteJobs, counted
  <2>3. j \in NoteJobs /\ j.for = job[h].for
    BY <1>0, <2>1, <2>c
  <2>4. MovesTo(h, "set", j)
    BY <2>0, <2>1, <2>3 DEF MovesTo
  <2> QED
    BY <2>3, <2>4, <1>s
<1>5. CASE No!SetBadge(h) \/ No!InsertHook(h)
  BY <1>5, <1>r, <1>n, <1>s DEF No!SetBadge, No!InsertHook
<1>6. ASSUME NEW k \in Hooks, No!CountHooks(h, k) PROVE \E step \in NoteSteps, j \in NoteJobs : MovesTo(h, step, j)
  <2> DEFINE j == [job[h] EXCEPT !.hook = k]
  <2>1. pc' = [pc EXCEPT ![h] = "insert"] /\ job' = [job EXCEPT ![h] = j] /\ No!Start(h)
    BY <1>6, <1>0 DEF No!CountHooks, No!Goto
  <2>2. j \in NoteJobs /\ j.hook \in Hooks
    BY <1>0 DEF NoteJobs
  <2> HIDE DEF j
  <2>3. MovesTo(h, "insert", j)
    BY <2>1, <2>2, <1>i DEF MovesTo
  <2> QED
    BY <2>2, <2>3, <1>s
<1>7. ASSUME NEW k \in Hooks, No!DeactivateWebhook(h, k) \/ No!DeleteWebhook(h, k)
      PROVE  \E step \in NoteSteps, j \in NoteJobs : MovesTo(h, step, j)
  BY <1>7, <1>0, <1>q DEF No!DeactivateWebhook, No!DeleteWebhook
<1> QED
  BY <1>1, <1>2, <1>3, <1>4, <1>5, <1>6, <1>7 DEF Leaves

(* Types and requests in hand. *)
LEMMA NotesMoved ==
    ASSUME NoteTypes, \A g \in Handlers : InHand(g), OneAtWork, [No!Next]_(No!notifications)
    PROVE  /\ pc' \in [Handlers -> NoteSteps] /\ job' \in [Handlers -> NoteJobs]
           /\ (\A g \in Handlers : InHand(g))' /\ OneAtWork'
<1>0. pc \in [Handlers -> NoteSteps] /\ job \in [Handlers -> NoteJobs]
  BY DEF NoteTypes
<1>v. overlap' = overlap
  BY DEF No!Next, No!notifications, No!Send, No!SendBulk, No!MarkAsRead, No!DeleteNotification, No!DeleteOlderThan, No!MarkAllAsRead, No!Forget,
         No!GetBadge, No!CountTypes, No!SetBadge, No!CountHooks, No!InsertHook, No!DeactivateWebhook, No!DeleteWebhook, No!Tick
<1>1. CASE UNCHANGED <<pc, job>>
  BY <1>0, <1>1, <1>v DEF InHand, OneAtWork
<1>2. ASSUME NEW h \in Handlers, (\E us : Rewrites(h, us)) \/ Leaves(h)
      PROVE  /\ pc' \in [Handlers -> NoteSteps] /\ job' \in [Handlers -> NoteJobs]
             /\ (\A g \in Handlers : InHand(g))' /\ OneAtWork'
  <2>1. PICK step \in NoteSteps, j \in NoteJobs : MovesTo(h, step, j)
    BY <1>2, Movement
  <2>2. pc' = [pc EXCEPT ![h] = step] /\ job' = [job EXCEPT ![h] = j]
    BY <2>1 DEF MovesTo
  <2>3. pc' \in [Handlers -> NoteSteps] /\ job' \in [Handlers -> NoteJobs]
    BY ONLY <1>0, <2>2
  <2>4. /\ pc'[h] = step /\ job'[h] = j
        /\ \A g \in Handlers : g # h => pc'[g] = pc[g] /\ job'[g] = job[g]
    BY ONLY <1>0, <1>2, <2>2
  <2>5. ASSUME NEW g \in Handlers PROVE InHand(g)'
    BY <2>1, <2>4 DEF MovesTo, InHand
  <2>6. OneAtWork'
    BY <2>1, <2>4, <1>v DEF MovesTo, OneAtWork
  <2> QED
    BY <2>3, <2>5, <2>6
<1>3. UNCHANGED <<pc, job>> \/ \E h \in Handlers : (\E us : Rewrites(h, us)) \/ Leaves(h)
  BY NoteStepKinds DEF No!Tick, No!notifications
<1> QED
  BY <1>1, <1>2, <1>3

(* Time passes and notifications are only added. *)
LEMMA NotesGrow ==
    NoteTypes /\ [No!Next]_(No!notifications) =>
      /\ overlap' = overlap /\ now' \in now..MaxTime /\ clean' \in BOOLEAN /\ (clean' => clean)
      /\ notes' \in Seq(NoteRows(now') \cup {None}) /\ Len(notes) <= Len(notes')
      /\ faults' \in 0..MaxFaults /\ requests' \in requests..MaxRequests
<1> SUFFICES ASSUME NoteTypes, [No!Next]_(No!notifications)
             PROVE  /\ overlap' = overlap /\ now' \in now..MaxTime /\ clean' \in BOOLEAN /\ (clean' => clean)
                    /\ notes' \in Seq(NoteRows(now') \cup {None}) /\ Len(notes) <= Len(notes')
                    /\ faults' \in 0..MaxFaults /\ requests' \in requests..MaxRequests
  OBVIOUS
<1>0. /\ now \in 1..MaxTime /\ faults \in 0..MaxFaults /\ requests \in 0..MaxRequests /\ clean \in BOOLEAN
      /\ notes \in Seq(NoteRows(now) \cup {None}) /\ Len(notes) \in Nat
      /\ MaxTime \in Nat /\ MaxFaults \in Nat /\ MaxRequests \in Nat
  BY NotesGiven DEF NoteTypes
<1>1. ASSUME NEW h \in Handlers, NEW us, Rewrites(h, us)
      PROVE  /\ overlap' = overlap /\ now' \in now..MaxTime /\ clean' \in BOOLEAN /\ (clean' => clean)
             /\ notes' \in Seq(NoteRows(now') \cup {None}) /\ Len(notes) <= Len(notes')
             /\ faults' \in 0..MaxFaults /\ requests' \in requests..MaxRequests
  <2>1. requests < MaxRequests /\ requests' = requests + 1
    BY <1>1 DEF Rewrites, No!Start
  <2>2. /\ notes' \in Seq(NoteRows(now) \cup {None}) /\ Len(notes) <= Len(notes')
        /\ overlap' = overlap /\ now' = now /\ (clean' <=> clean) /\ clean' = clean /\ faults' = faults
    BY <1>1 DEF Rewrites
  <2>3. now' \in now..MaxTime /\ faults' \in 0..MaxFaults /\ requests' \in requests..MaxRequests
    BY ONLY <1>0, <2>1, <2>2
  <2>4. notes' \in Seq(NoteRows(now') \cup {None}) /\ clean' \in BOOLEAN
    BY <1>0, <2>2
  <2> QED
    BY <2>2, <2>3, <2>4
<1>2. ASSUME NEW h \in Handlers, Leaves(h)
      PROVE  /\ overlap' = overlap /\ now' \in now..MaxTime /\ clean' \in BOOLEAN /\ (clean' => clean)
             /\ notes' \in Seq(NoteRows(now') \cup {None}) /\ Len(notes) <= Len(notes')
             /\ faults' \in 0..MaxFaults /\ requests' \in requests..MaxRequests
  <2>1. overlap' = overlap /\ now' = now /\ notes' = notes
    BY <1>2 DEF Leaves, No!Forget, No!GetBadge, No!CountTypes, No!SetBadge, No!CountHooks, No!InsertHook, No!DeactivateWebhook, No!DeleteWebhook
  <2>2. UNCHANGED <<faults, clean>> \/ (faults < MaxFaults /\ faults' = faults + 1 /\ clean' = FALSE)
    BY <1>2 DEF Leaves, No!Forget, No!GetBadge, No!CountTypes, No!SetBadge, No!CountHooks, No!InsertHook, No!DeactivateWebhook, No!DeleteWebhook
  <2>3. requests' = requests \/ (requests < MaxRequests /\ requests' = requests + 1)
    BY <1>2 DEF Leaves, No!Forget, No!GetBadge, No!CountTypes, No!SetBadge, No!CountHooks, No!InsertHook, No!DeactivateWebhook, No!DeleteWebhook, No!Start
  <2>4. faults' \in 0..MaxFaults /\ requests' \in requests..MaxRequests /\ now' \in now..MaxTime
    BY ONLY <1>0, <2>1, <2>2, <2>3
  <2>a. clean' = clean \/ clean' = FALSE
    BY ONLY <2>2
  <2>5. clean' \in BOOLEAN /\ (clean' => clean)
    <3>1. CASE clean' = clean
      BY <1>0, <3>1
    <3>2. CASE clean' = FALSE
      BY <3>2
    <3> QED
      BY <2>a, <3>1, <3>2
  <2>6. notes' \in Seq(NoteRows(now') \cup {None}) /\ Len(notes) <= Len(notes')
    BY <1>0, <2>1
  <2> QED
    BY <2>1, <2>4, <2>5, <2>6
<1>3. CASE No!Tick
  <2>1. /\ now < MaxTime /\ now' = now + 1
        /\ overlap' = overlap /\ notes' = notes /\ requests' = requests /\ faults' = faults /\ clean' = clean
    BY <1>3 DEF No!Tick
  <2>2. now' \in now..MaxTime /\ 1..now \subseteq 1..now'
    BY ONLY <1>0, <2>1
  <2>3. NoteRows(now) \subseteq NoteRows(now')
    BY ONLY <2>2 DEF NoteRows
  <2>4. notes \in Seq(NoteRows(now') \cup {None})
    BY ONLY <1>0, <2>3
  <2>5. clean' \in BOOLEAN /\ (clean' => clean)
    BY <1>0, <2>1
  <2> QED
    BY <1>0, <2>1, <2>2, <2>4, <2>5
<1>4. CASE UNCHANGED No!notifications
  <2>1. /\ now' = now
        /\ overlap' = overlap /\ notes' = notes /\ requests' = requests /\ faults' = faults /\ clean' = clean
    BY <1>4 DEF No!notifications
  <2>2. clean' \in BOOLEAN /\ (clean' => clean)
    BY <1>0, <2>1
  <2>3. notes' \in Seq(NoteRows(now') \cup {None})
    BY <1>0, <2>1
  <2> QED
    BY <1>0, <2>1, <2>2, <2>3
<1> QED
  BY <1>1, <1>2, <1>3, <1>4, NoteStepKinds

LEMMA NotesTyped ==
    NoteTypes /\ (\A g \in Handlers : InHand(g)) /\ OneAtWork /\ [No!Next]_(No!notifications) =>
      NoteTypes' /\ (\A g \in Handlers : InHand(g))' /\ OneAtWork'
<1> SUFFICES ASSUME NoteTypes, \A g \in Handlers : InHand(g), OneAtWork, [No!Next]_(No!notifications)
             PROVE  NoteTypes' /\ (\A g \in Handlers : InHand(g))' /\ OneAtWork'
  OBVIOUS
<1>0. /\ overlap \in BOOLEAN /\ clean \in BOOLEAN /\ now \in 1..MaxTime /\ requests \in 0..MaxRequests
      /\ notes \in Seq(NoteRows(now) \cup {None}) /\ badge \in [Users -> Badges \cup {None}]
      /\ hooks \in [Hooks -> [on : Nat, off : Nat]]
      /\ pc \in [Handlers -> NoteSteps] /\ job \in [Handlers -> NoteJobs]
  BY DEF NoteTypes
<1>1. /\ overlap' = overlap /\ now' \in now..MaxTime /\ clean' \in BOOLEAN
      /\ notes' \in Seq(NoteRows(now') \cup {None}) /\ Len(notes) <= Len(notes')
      /\ faults' \in 0..MaxFaults /\ requests' \in requests..MaxRequests
  BY NotesGrow
<1>2. /\ pc' \in [Handlers -> NoteSteps] /\ job' \in [Handlers -> NoteJobs]
      /\ (\A g \in Handlers : InHand(g))' /\ OneAtWork'
  BY NotesMoved
<1>3. BadgeTtl \in Nat /\ MaxTime \in Nat /\ MaxRequests \in Nat
  BY NotesGiven
<1>4. DOMAIN notes \subseteq DOMAIN notes' /\ now' \in 1..MaxTime /\ requests' \in 0..MaxRequests
      /\ 1..now + BadgeTtl \subseteq 1..now' + BadgeTtl
  <2>1. DOMAIN notes = 1..Len(notes) /\ DOMAIN notes' = 1..Len(notes') /\ Len(notes) \in Nat /\ Len(notes') \in Nat
    BY ONLY <1>0, <1>1
  <2>2. now' \in 1..MaxTime /\ requests' \in 0..MaxRequests /\ now <= now' /\ now \in Int /\ now' \in Int
    BY ONLY <1>0, <1>1, <1>3
  <2>3. DOMAIN notes \subseteq DOMAIN notes'
    BY ONLY <1>1, <2>1
  <2>4. 1..now + BadgeTtl \subseteq 1..now' + BadgeTtl
    <3>1. ASSUME NEW t \in Int, now <= t PROVE 1..now + BadgeTtl \subseteq 1..t + BadgeTtl
      BY ONLY <1>3, <2>2, <3>1
    <3> QED
      BY ONLY <2>2, <3>1
  <2> QED
    BY ONLY <2>2, <2>3, <2>4
<1>5. NoteJobs \subseteq NoteJobs' /\ Badges \subseteq Badges'
  BY ONLY <1>4 DEF NoteJobs, Badges
<1>6. job' \in [Handlers -> NoteJobs']
  BY ONLY <1>2, <1>5
<1>7. badge' \in [Users -> Badges' \cup {None}]
  <2>1. CASE badge' = badge
    BY ONLY <1>0, <1>5, <2>1
  <2>2. ASSUME NEW u \in Users, NEW b \in Badges' \cup {None}, badge' = [badge EXCEPT ![u] = b] PROVE badge' \in [Users -> Badges' \cup {None}]
    BY ONLY <1>0, <1>5, <2>2
  <2>3. ASSUME NEW h \in Handlers, No!Forget(h) \/ No!SetBadge(h)
        PROVE  badge' = badge \/ \E u \in Users : \E b \in Badges' \cup {None} : badge' = [badge EXCEPT ![u] = b]
    <3>1. job[h].for \in Seq(Users) /\ job[h].for # <<>> /\ job[h] \in NoteJobs
      BY <1>0, <2>3 DEF No!Forget, No!SetBadge, InHand, NoteJobs
    <3>2. Head(job[h].for) \in Users
      BY ONLY <3>1
    <3>3. CASE No!Forget(h)
      BY <3>2, <3>3 DEF No!Forget
    <3>4. CASE No!SetBadge(h)
      <4> DEFINE b == [total |-> job[h].seen, types |-> job[h].types, until |-> now + BadgeTtl]
      <4>1. now + BadgeTtl \in 1..now + BadgeTtl
        BY ONLY <1>0, <1>3
      <4>2. job[h].seen \in SUBSET DOMAIN notes /\ job[h].types \in SUBSET DOMAIN notes
        BY ONLY <3>1 DEF NoteJobs
      <4>3. b \in Badges
        BY ONLY <4>1, <4>2 DEF Badges
      <4>4. badge' = [badge EXCEPT ![Head(job[h].for)] = b]
        BY <3>4 DEF No!SetBadge
      <4> HIDE DEF b
      <4> QED
        BY ONLY <1>5, <3>2, <4>3, <4>4
    <3> QED
      BY <2>3, <3>3, <3>4
  <2>4. badge' = badge \/ \E h \in Handlers : No!Forget(h) \/ No!SetBadge(h)
    BY NoteStepKinds
       DEF Rewrites, Leaves, No!GetBadge, No!CountTypes, No!CountHooks, No!InsertHook, No!DeactivateWebhook, No!DeleteWebhook, No!Tick, No!notifications
  <2> QED
    BY <2>1, <2>2, <2>3, <2>4
<1>8. hooks' \in [Hooks -> [on : Nat, off : Nat]]
  <2>1. CASE hooks' = hooks
    BY ONLY <1>0, <2>1
  <2>2. ASSUME NEW k \in Hooks, NEW a \in [on : Nat, off : Nat], hooks' = [hooks EXCEPT ![k] = a]
        PROVE  hooks' \in [Hooks -> [on : Nat, off : Nat]]
    BY ONLY <1>0, <2>2
  <2>3. ASSUME NEW h \in Handlers, No!InsertHook(h) PROVE \E k \in Hooks : \E a \in [on : Nat, off : Nat] : hooks' = [hooks EXCEPT ![k] = a]
    <3> DEFINE k == job[h].hook
               a == [hooks[k] EXCEPT !.on = @ + 1]
    <3>1. k \in Hooks
      BY <2>3 DEF No!InsertHook, InHand
    <3>2. hooks' = [hooks EXCEPT ![k] = a]
      BY <2>3 DEF No!InsertHook
    <3> HIDE DEF k
    <3>3. a \in [on : Nat, off : Nat]
      <4>1. hooks[k] \in [on : Nat, off : Nat]
        BY ONLY <1>0, <3>1
      <4> QED
        BY ONLY <4>1
    <3> HIDE DEF a
    <3> QED
      BY ONLY <3>1, <3>2, <3>3
  <2>4. ASSUME NEW h \in Handlers, NEW k \in Hooks, No!DeactivateWebhook(h, k) \/ No!DeleteWebhook(h, k)
        PROVE  \E a \in [on : Nat, off : Nat] : hooks' = [hooks EXCEPT ![k] = a]
    <3>1. hooks[k] \in [on : Nat, off : Nat]
      BY <1>0
    <3>2. \/ hooks[k].on > 0 /\ hooks' = [hooks EXCEPT ![k] = [on |-> hooks[k].on - 1, off |-> hooks[k].off + 1]]
          \/ hooks[k].on > 0 /\ hooks' = [hooks EXCEPT ![k] = [hooks[k] EXCEPT !.on = @ - 1]]
          \/ hooks[k].off > 0 /\ hooks' = [hooks EXCEPT ![k] = [hooks[k] EXCEPT !.off = @ - 1]]
      BY <2>4 DEF No!DeactivateWebhook, No!DeleteWebhook
    <3>3. /\ hooks[k].on > 0 => /\ [on |-> hooks[k].on - 1, off |-> hooks[k].off + 1] \in [on : Nat, off : Nat]
                                /\ [hooks[k] EXCEPT !.on = @ - 1] \in [on : Nat, off : Nat]
          /\ hooks[k].off > 0 => [hooks[k] EXCEPT !.off = @ - 1] \in [on : Nat, off : Nat]
      BY ONLY <3>1
    <3> QED
      BY <3>2, <3>3
  <2>5. \/ hooks' = hooks \/ \E h \in Handlers : No!InsertHook(h)
        \/ \E h \in Handlers : \E k \in Hooks : No!DeactivateWebhook(h, k) \/ No!DeleteWebhook(h, k)
    BY NoteStepKinds DEF Rewrites, Leaves, No!Forget, No!GetBadge, No!CountTypes, No!SetBadge, No!CountHooks, No!Tick, No!notifications
  <2> QED
    BY <2>1, <2>2, <2>3, <2>4, <2>5
<1> QED
  BY <1>0, <1>1, <1>2, <1>4, <1>6, <1>7, <1>8 DEF NoteTypes

(* Sets that differ in one element only count one more or one less. *)
LEMMA CountOne ==
    ASSUME NEW F, IsFiniteSet(F), NEW S \in SUBSET F, NEW T \in SUBSET F, NEW x, S \ {x} = T \ {x}
    PROVE  /\ Cardinality(S) \in Nat /\ Cardinality(T) \in Nat
           /\ Cardinality(T) =
                Cardinality(S) + (IF x \in T THEN 1 ELSE 0) - (IF x \in S THEN 1 ELSE 0)
<1>1. IsFiniteSet(S) /\ IsFiniteSet(T)
  BY FS_Subset
<1>2. /\ Cardinality(S) \in Nat /\ Cardinality(T) \in Nat
  BY <1>1, FS_CardinalityType
<1>3. Cardinality(S \ {x}) = IF x \in S THEN Cardinality(S) - 1 ELSE Cardinality(S)
  BY <1>1, FS_RemoveElement
<1>4. Cardinality(T \ {x}) = IF x \in T THEN Cardinality(T) - 1 ELSE Cardinality(T)
  BY <1>1, FS_RemoveElement
<1> QED
  BY <1>2, <1>3, <1>4

(* Requests about to insert a webhook are no more than may run at once. *)
LEMMA InsertingAtOnce ==
    OneAtWork => \A k : Cardinality(Inserting(k)) \in Nat /\ Cardinality(Inserting(k)) <= AtOnce
<1> SUFFICES ASSUME OneAtWork, NEW k
             PROVE  Cardinality(Inserting(k)) \in Nat /\ Cardinality(Inserting(k)) <= AtOnce
  OBVIOUS
<1>1. IsFiniteSet(Handlers) /\ Inserting(k) \in SUBSET Handlers
  BY NotesGiven DEF Inserting
<1>2. Cardinality(Inserting(k)) \in Nat /\ Cardinality(Inserting(k)) <= Cardinality(Handlers)
  BY ONLY <1>1, FS_Subset, FS_CardinalityType
<1>3. CASE ~overlap
  <2>1. \A g, h \in Inserting(k) : g = h
    BY <1>3 DEF OneAtWork, Inserting
  <2>2. Cardinality(Inserting(k)) <= 1
    <3>1. CASE Inserting(k) = {}
      BY <3>1, FS_EmptySet
    <3>2. ASSUME NEW g \in Inserting(k) PROVE Cardinality(Inserting(k)) <= 1
      <4>1. Inserting(k) = {g}
        BY ONLY <2>1, <3>2
      <4> QED
        BY <4>1, FS_Singleton
    <3> QED
      BY <3>1, <3>2
  <2> QED
    BY <1>2, <1>3, <2>2 DEF AtOnce
<1> QED
  BY <1>2, <1>3 DEF AtOnce

(* Webhooks are inserted by requests that have counted them. *)
LEMMA HooksCounted ==
    ASSUME NoteTypes, \A g \in Handlers : InHand(g), OneAtWork, OneAtWork', HookInv, NoteTypes', [No!Next]_(No!notifications)
    PROVE  HookInv'
<1>0. /\ pc \in [Handlers -> NoteSteps] /\ job \in [Handlers -> NoteJobs] /\ hooks \in [Hooks -> [on : Nat, off : Nat]]
      /\ requests \in Nat
  BY DEF NoteTypes
<1>a. /\ pc' \in [Handlers -> NoteSteps] /\ hooks' \in [Hooks -> [on : Nat, off : Nat]] /\ requests' \in Nat
  BY DEF NoteTypes
<1>g. /\ overlap' = overlap /\ (clean' => clean) /\ requests <= requests'
  BY <1>0, NotesGrow
<1>c. AtOnce' = AtOnce /\ AtOnce \in Nat
  <2>1. Cardinality(Handlers) \in Nat
    BY NotesGiven, FS_CardinalityType
  <2> QED
    BY <1>g, <2>1 DEF AtOnce
<1>k. \A k : Cardinality(Inserting(k)) \in Nat /\ Cardinality(Inserting(k)') \in Nat /\ Cardinality(Inserting(k)') <= AtOnce
  <2>1. \A k : Cardinality(Inserting(k)) \in Nat
    BY InsertingAtOnce
  <2>2. (\A k : Cardinality(Inserting(k)) \in Nat /\ Cardinality(Inserting(k)) <= AtOnce)'
    BY InsertingAtOnce, PTL
  <2> QED
    BY ONLY <1>c, <2>1, <2>2
<1> SUFFICES ASSUME NEW k \in Hooks
             PROVE  /\ hooks'[k].on + Cardinality(Inserting(k)') <= requests'
                    /\ clean' => hooks'[k].on + Cardinality(Inserting(k)') <= AtOnce
  BY <1>c DEF HookInv
<1>t. hooks[k].on \in Nat /\ hooks'[k].on \in Nat
  BY ONLY <1>0, <1>a
<1>h. /\ hooks[k].on + Cardinality(Inserting(k)) <= requests
      /\ clean => hooks[k].on + Cardinality(Inserting(k)) <= AtOnce
  BY DEF HookInv
<1> DEFINE Goal == /\ hooks'[k].on + Cardinality(Inserting(k)') <= requests'
                   /\ clean' => hooks'[k].on + Cardinality(Inserting(k)') <= AtOnce
(* No more are active or about to be than before. *)
<1>1. ASSUME hooks'[k].on + Cardinality(Inserting(k)') <= hooks[k].on + Cardinality(Inserting(k)) PROVE Goal
  <2>1. hooks'[k].on + Cardinality(Inserting(k)') <= requests'
    BY ONLY <1>0, <1>a, <1>g, <1>h, <1>k, <1>t, <1>1
  <2>2. ASSUME clean' PROVE hooks'[k].on + Cardinality(Inserting(k)') <= AtOnce
    <3>1. hooks[k].on + Cardinality(Inserting(k)) <= AtOnce
      BY <1>g, <1>h, <2>2
    <3> QED
      BY ONLY <1>c, <1>k, <1>t, <1>1, <3>1
  <2> QED
    BY <2>1, <2>2
<1>2. ASSUME NEW h \in Handlers, pc[h] # "insert", pc'[h] # "insert",
             \A g \in Handlers : g # h => pc'[g] = pc[g] /\ job'[g] = job[g]
      PROVE  Inserting(k)' = Inserting(k)
  BY ONLY <1>2 DEF Inserting
<1>3. ASSUME NEW h \in Handlers, (\E us : Rewrites(h, us)) \/ Leaves(h)
      PROVE  Goal
  <2>1. PICK step \in NoteSteps, j \in NoteJobs : MovesTo(h, step, j)
    BY <1>3, Movement
  <2>2. pc' = [pc EXCEPT ![h] = step] /\ job' = [job EXCEPT ![h] = j]
    BY <2>1 DEF MovesTo
  <2>3. /\ pc'[h] = step /\ job'[h] = j
        /\ \A g \in Handlers : g # h => pc'[g] = pc[g] /\ job'[g] = job[g]
    BY ONLY <1>0, <1>3, <2>2
  <2>4. ASSUME pc[h] # "insert", pc'[h] # "insert", hooks'[k].on <= hooks[k].on PROVE Goal
    <3>1. Inserting(k)' = Inserting(k)
      BY <1>2, <2>3, <2>4
    <3>2. hooks'[k].on + Cardinality(Inserting(k)') <= hooks[k].on + Cardinality(Inserting(k))
      BY ONLY <1>k, <1>t, <2>4, <3>1
    <3> QED
      BY <1>1, <3>2
  <2>5. ASSUME NEW us, Rewrites(h, us) PROVE Goal
    <3>1. pc[h] = "idle" /\ pc'[h] \in {"idle", "forget"} /\ hooks' = hooks
      BY <2>5, <1>0 DEF Rewrites, No!Start, No!ForgetBadges, No!Goto
    <3> QED
      BY <2>4, <3>1, <1>t
  <2>6. CASE No!Forget(h) \/ No!CountTypes(h) \/ No!SetBadge(h) \/ \E u \in Users : No!GetBadge(h, u)
    <3>1. pc[h] \in {"forget", "types", "set", "idle"} /\ hooks' = hooks
      BY <2>6 DEF No!Forget, No!CountTypes, No!SetBadge, No!GetBadge, No!Start
    <3>2. pc'[h] # "insert"
      BY <2>6, <1>0 DEF No!Forget, No!CountTypes, No!SetBadge, No!GetBadge, No!Start, No!Goto, No!Return
    <3> QED
      BY <2>4, <3>1, <3>2, <1>t
  <2>7. ASSUME NEW l \in Hooks, No!DeactivateWebhook(h, l) \/ No!DeleteWebhook(h, l) PROVE Goal
    <3>1. pc[h] = "idle" /\ pc'[h] = "idle"
      BY <2>7 DEF No!DeactivateWebhook, No!DeleteWebhook, No!Start
    <3>2. hooks'[k].on <= hooks[k].on
      <4>1. CASE k # l
        BY <2>7, <4>1, <1>0, <1>t DEF No!DeactivateWebhook, No!DeleteWebhook
      <4>2. CASE k = l
        <5>1. hooks[k] \in [on : Nat, off : Nat]
          BY ONLY <1>0
        <5>2. \/ hooks' = [hooks EXCEPT ![k] = [on |-> hooks[k].on - 1, off |-> hooks[k].off + 1]]
              \/ hooks' = [hooks EXCEPT ![k] = [hooks[k] EXCEPT !.on = @ - 1]]
              \/ hooks' = [hooks EXCEPT ![k] = [hooks[k] EXCEPT !.off = @ - 1]]
          BY <2>7, <4>2 DEF No!DeactivateWebhook, No!DeleteWebhook
        <5>3. hooks'[k].on = hooks[k].on - 1 \/ hooks'[k].on = hooks[k].on
          BY ONLY <1>0, <5>1, <5>2
        <5> QED
          BY ONLY <1>t, <5>3
      <4> QED
        BY <4>1, <4>2
    <3> QED
      BY <2>4, <3>1, <3>2
  <2>8. CASE No!InsertHook(h)
    <3> DEFINE l == job[h].hook
    <3>1. pc[h] = "insert" /\ pc'[h] = "idle" /\ l \in Hooks /\ hooks' = [hooks EXCEPT ![l] = [hooks[l] EXCEPT !.on = hooks[l].on + 1]]
      BY <2>8, <1>0 DEF No!InsertHook, No!Return, No!Goto, InHand
    <3>2. CASE k # l
      <4>1. Inserting(k)' = Inserting(k)
        BY <3>1, <3>2, <2>3 DEF Inserting
      <4>2. hooks'[k] = hooks[k]
        BY <1>0, <3>1, <3>2
      <4> QED
        BY <1>1, <1>k, <1>t, <4>1, <4>2
    <3>3. CASE k = l
      <4>1. hooks'[k].on = hooks[k].on + 1
        <5>1. hooks[k] \in [on : Nat, off : Nat] /\ hooks' = [hooks EXCEPT ![k] = [hooks[k] EXCEPT !.on = hooks[k].on + 1]]
          BY <1>0, <3>1, <3>3
        <5> QED
          BY ONLY <1>0, <5>1
      <4>2. h \in Inserting(k) /\ h \notin Inserting(k)' /\ Inserting(k) \ {h} = Inserting(k)' \ {h}
        BY <3>1, <3>3, <2>3 DEF Inserting
      <4>3. Inserting(k) \in SUBSET Handlers /\ Inserting(k)' \in SUBSET Handlers /\ IsFiniteSet(Handlers)
        BY NotesGiven DEF Inserting
      <4>4. Cardinality(Inserting(k)') = Cardinality(Inserting(k)) + 0 - 1
        BY ONLY <4>2, <4>3, CountOne
      <4>5. hooks'[k].on + Cardinality(Inserting(k)') <= hooks[k].on + Cardinality(Inserting(k))
        BY ONLY <1>k, <1>t, <4>1, <4>4
      <4> QED
        BY <1>1, <4>5
    <3> QED
      BY <3>2, <3>3
  <2>9. ASSUME NEW l \in Hooks, No!CountHooks(h, l) PROVE Goal
    <3>1. /\ pc[h] = "idle" /\ pc'[h] = "insert" /\ job'[h].hook = l /\ hooks' = hooks /\ requests' = requests + 1
          /\ hooks[l].on = 0 \/ ~clean'
      BY <2>9, <1>0 DEF No!CountHooks, No!Start, No!Goto, NoteJobs
    <3>2. CASE k # l
      <4>1. Inserting(k)' = Inserting(k)
        BY <3>1, <3>2, <2>3 DEF Inserting
      <4> QED
        BY <1>1, <1>k, <1>t, <3>1, <4>1
    <3>3. CASE k = l
      <4>2. h \notin Inserting(k) /\ h \in Inserting(k)' /\ Inserting(k) \ {h} = Inserting(k)' \ {h}
        BY <3>1, <3>3, <2>3 DEF Inserting
      <4>3. Inserting(k) \in SUBSET Handlers /\ Inserting(k)' \in SUBSET Handlers /\ IsFiniteSet(Handlers)
        BY NotesGiven DEF Inserting
      <4>4. Cardinality(Inserting(k)') = Cardinality(Inserting(k)) + 1 - 0
        BY ONLY <4>2, <4>3, CountOne
      <4>5. hooks'[k].on + Cardinality(Inserting(k)') <= requests'
        <5>1. hooks'[k].on = hooks[k].on /\ requests' = requests + 1
          BY ONLY <3>1
        <5> QED
          BY ONLY <1>0, <1>h, <1>k, <1>t, <4>4, <5>1
      <4>6. ASSUME clean' PROVE hooks'[k].on + Cardinality(Inserting(k)') <= AtOnce
        <5>1. hooks'[k].on = 0
          BY <3>1, <3>3, <4>6
        <5> QED
          BY ONLY <1>k, <5>1, <1>c
      <4> QED
        BY <4>5, <4>6
    <3> QED
      BY <3>2, <3>3
  <2> QED
    BY <1>3, <2>5, <2>6, <2>7, <2>8, <2>9 DEF Leaves
<1>4. ASSUME UNCHANGED <<pc, job, hooks>> PROVE Goal
  <2>1. Inserting(k)' = Inserting(k) /\ hooks'[k] = hooks[k]
    BY <1>4 DEF Inserting
  <2> QED
    BY <1>1, <1>k, <1>t, <2>1
<1> QED
  BY <1>3, <1>4, NoteStepKinds DEF No!Tick, No!notifications

(* One at a time, a badge keeps up with what its user has been sent. *)
LEMMA BadgesCover ==
    ASSUME NoteTypes, \A g \in Handlers : InHand(g), OneAtWork, BadgeInv, NoteTypes', OneAtWork', [No!Next]_(No!notifications)
    PROVE  BadgeInv'
<1>0. /\ pc \in [Handlers -> NoteSteps] /\ job \in [Handlers -> NoteJobs] /\ badge \in [Users -> Badges \cup {None}]
  BY DEF NoteTypes
<1>g. overlap' = overlap /\ (clean' => clean)
  BY NotesGrow
<1> DEFINE Goal == (\A u \in Users : Covers(u)') /\ (\A h \in Handlers : HasCounted(h)')
<1> SUFFICES ASSUME ~overlap, clean', clean PROVE Goal
  BY <1>g DEF BadgeInv
<1>b. /\ \A u \in Users : badge[u] # None =>
           badge[u].types = badge[u].total /\ (ToForget(u) \/ Personal(u) \subseteq badge[u].total)
      /\ \A h \in Handlers :
           /\ pc[h] \in {"types", "set"} => job[h].seen = No!Unread(Head(job[h].for))
           /\ pc[h] = "set" => job[h].types = job[h].seen
  BY DEF BadgeInv, Covers, HasCounted
<1>o. \A g, h \in Handlers : pc'[g] # "idle" /\ pc'[h] # "idle" => g = h
  BY <1>g DEF OneAtWork
<1> USE DEF Covers, HasCounted
(* Nothing that counts has changed. *)
<1>s. ASSUME notes' = notes
      PROVE  \A u : No!Unread(u)' = No!Unread(u) /\ Personal(u)' = Personal(u)
  BY <1>s DEF Personal, No!Unread, No!Rows
<1>1. ASSUME UNCHANGED <<notes, badge, pc, job>> PROVE Goal
  <2>1. \A u : ToForget(u)' <=> ToForget(u)
    BY <1>1 DEF ToForget
  <2> QED
    BY <1>1, <1>b, <1>s, <2>1
<1>2. ASSUME NEW h \in Handlers, (\E us : Rewrites(h, us)) \/ Leaves(h) PROVE Goal
  <2>1. PICK step \in NoteSteps, j \in NoteJobs : MovesTo(h, step, j)
    BY <1>2, Movement
  <2>2. pc' = [pc EXCEPT ![h] = step] /\ job' = [job EXCEPT ![h] = j]
    BY <2>1 DEF MovesTo
  <2>3. /\ pc'[h] = step /\ job'[h] = j
        /\ \A g \in Handlers : g # h => pc'[g] = pc[g] /\ job'[g] = job[g]
    BY ONLY <1>0, <1>2, <2>2
  <2>5. ASSUME NEW us, Rewrites(h, us) PROVE Goal
    <3>1. /\ pc[h] = "idle" /\ \A g \in Handlers : pc[g] = "idle"
          /\ us \in Seq(Users) /\ badge' = badge
          /\ \A u \in Users : Personal(u)' \subseteq Personal(u) \/ \E i \in DOMAIN us : us[i] = u
      BY <2>5 DEF Rewrites, No!Start
    <3>2. /\ us = <<>> => pc' = pc
          /\ us # <<>> => pc'[h] = "forget" /\ job'[h].for = us
      BY <2>5, <1>0 DEF Rewrites, No!ForgetBadges, No!Goto, NoteJobs
    <3>3. \A g \in Handlers : pc'[g] \notin {"types", "set"}
      BY <3>1, <3>2, <2>3
    <3>4. \A u : ~ToForget(u)
      BY <3>1 DEF ToForget
    <3>5. ASSUME NEW u \in Users, badge'[u] # None PROVE Covers(u)'
      <4>1. badge[u].types = badge[u].total /\ Personal(u) \subseteq badge[u].total
        BY <1>b, <3>1, <3>4, <3>5
      <4>2. CASE Personal(u)' \subseteq Personal(u)
        BY <4>1, <4>2, <3>1
      <4>3. ASSUME NEW i \in DOMAIN us, us[i] = u PROVE Covers(u)'
        <5>1. us # <<>>
          BY <4>3
        <5>2. ToForget(u)'
          BY <5>1, <3>2, <4>3 DEF ToForget
        <5> QED
          BY <5>2, <4>1, <3>1
      <4> QED
        BY <3>1, <4>2, <4>3
    <3> QED
      BY <3>3, <3>5
  <2>6. CASE No!Forget(h)
    <3> DEFINE us == job[h].for
    <3>1. /\ pc[h] = "forget" /\ us \in Seq(Users) /\ us # <<>>
          /\ notes' = notes /\ badge' = [badge EXCEPT ![Head(us)] = None]
      BY <2>6, <1>0 DEF No!Forget, InHand, NoteJobs
    <3>2. IF Tail(us) = <<>> THEN pc'[h] = "idle" ELSE pc'[h] = "forget" /\ job'[h].for = Tail(us)
      <4>1. CASE Tail(us) = <<>>
        BY <2>6, <4>1, <1>0 DEF No!Forget, No!Return, No!Goto
      <4>2. CASE Tail(us) # <<>>
        <5>1. job' = [job EXCEPT ![h] = [job[h] EXCEPT !.for = Tail(us)]] /\ pc' = pc
          BY <2>6, <4>2 DEF No!Forget
        <5> QED
          BY <5>1, <3>1, <4>2, <1>0 DEF NoteJobs
      <4> QED
        BY <4>1, <4>2
    <3> HIDE DEF us
    <3>3. \A g \in Handlers : pc'[g] \notin {"types", "set"}
      <4>1. pc'[h] \in {"idle", "forget"}
        BY <3>2
      <4>2. \A g \in Handlers : g # h => pc[g] = "idle"
        BY <3>1 DEF OneAtWork
      <4> QED
        BY ONLY <4>1, <4>2, <2>3
    <3>4. ASSUME NEW u \in Users, badge'[u] # None PROVE Covers(u)'
      <4>1. u # Head(us) /\ badge'[u] = badge[u]
        BY <3>1, <3>4, <1>0
      <4>2. badge[u].types = badge[u].total /\ (ToForget(u) \/ Personal(u) \subseteq badge[u].total)
        BY <1>b, <3>4, <4>1
      <4>3. CASE ToForget(u)
        <5>1. PICK g \in Handlers : pc[g] = "forget" /\ \E i \in DOMAIN job[g].for : job[g].for[i] = u
          BY <4>3 DEF ToForget
        <5>2. g = h
          BY <5>1, <3>1 DEF OneAtWork
        <5>3. PICK i \in DOMAIN us : us[i] = u
          BY <5>1, <5>2 DEF us
        <5>4. i \in 2..Len(us) /\ Len(us) \in Nat
          BY ONLY <3>1, <4>1, <5>3
        <5>5. Tail(us) # <<>> /\ i - 1 \in DOMAIN Tail(us) /\ Tail(us)[i - 1] = u
          BY ONLY <3>1, <5>3, <5>4
        <5>6. ToForget(u)'
          BY <3>2, <5>5 DEF ToForget
        <5> QED
          BY <4>1, <4>2, <5>6
      <4>4. CASE Personal(u) \subseteq badge[u].total
        BY <4>1, <4>2, <4>4, <3>1, <1>s
      <4> QED
        BY <4>2, <4>3, <4>4
    <3> QED
      BY <3>3, <3>4
  <2>7. ASSUME notes' = notes, badge' = badge, pc[h] # "forget" PROVE \A u \in Users : Covers(u)'
    <3>1. ASSUME NEW u \in Users, ToForget(u) PROVE ToForget(u)'
      <4>1. PICK g \in Handlers : pc[g] = "forget" /\ \E i \in DOMAIN job[g].for : job[g].for[i] = u
        BY <3>1 DEF ToForget
      <4>2. g # h
        BY <4>1, <2>7
      <4> QED
        BY <4>1, <4>2, <2>3 DEF ToForget
    <3> QED
      BY <1>b, <1>s, <2>7, <3>1
  <2>8. ASSUME notes' = notes, pc[h] = "idle" => \A g \in Handlers : pc[g] = "idle", HasCounted(h)' PROVE \A g \in Handlers : HasCounted(g)'
    BY <2>3, <2>8, <1>b, <1>s
  <2>9. ASSUME NEW u \in Users, No!GetBadge(h, u) PROVE Goal
    <3>1. /\ pc[h] = "idle" /\ (\A g \in Handlers : pc[g] = "idle") /\ notes' = notes /\ badge' = badge
          /\ pc'[h] = "types" /\ job' = [job EXCEPT ![h] = [job[h] EXCEPT !.for = <<u>>, !.seen = No!Unread(u)]]
      BY <2>9, <1>0 DEF No!GetBadge, No!Start, No!Goto
    <3>2. job'[h].for = <<u>> /\ job'[h].seen = No!Unread(u)
      BY <3>1, <1>0 DEF NoteJobs
    <3>3. Head(<<u>>) = u
      OBVIOUS
    <3>4. HasCounted(h)'
      BY <3>1, <3>2, <3>3, <1>s
    <3> QED
      BY <3>1, <3>4, <2>7, <2>8
  <2>10. CASE No!CountTypes(h)
    <3>1. /\ pc[h] = "types" /\ notes' = notes /\ badge' = badge /\ pc'[h] = "set"
          /\ job' = [job EXCEPT ![h] = [job[h] EXCEPT !.types = No!Unread(Head(job[h].for))]]
      BY <2>10, <1>0 DEF No!CountTypes, No!Goto
    <3>2. job'[h].for = job[h].for /\ job'[h].seen = job[h].seen /\ job'[h].types = No!Unread(Head(job[h].for))
      BY <3>1, <1>0 DEF NoteJobs
    <3>3. HasCounted(h)'
      BY <3>1, <3>2, <1>b, <1>s
    <3> QED
      BY <3>1, <3>3, <2>7, <2>8
  <2>11. CASE No!SetBadge(h)
    <3> DEFINE u == Head(job[h].for)
               b == [total |-> job[h].seen, types |-> job[h].types, until |-> now + BadgeTtl]
    <3>1. pc[h] = "set" /\ notes' = notes /\ pc'[h] = "idle" /\ badge' = [badge EXCEPT ![u] = b]
      BY <2>11, <1>0 DEF No!SetBadge, No!Return, No!Goto
    <3>2. b.total = No!Unread(u) /\ b.types = No!Unread(u)
      BY <3>1, <1>b
    <3>3. \A g \in Handlers : pc'[g] = "idle"
      BY <3>1, <2>3 DEF OneAtWork
    <3>4. \A v : ~ToForget(v)
      BY <3>1 DEF OneAtWork, ToForget
    <3> HIDE DEF u, b
    <3>5. ASSUME NEW v \in Users, badge'[v] # None PROVE Covers(v)'
      <4>1. CASE v = u
        <5>1. badge'[v] = b
          BY <4>1, <3>1, <3>5, <1>0
        <5>2. Personal(u) \subseteq No!Unread(u)
          BY DEF Personal
        <5> QED
          BY <4>1, <5>1, <5>2, <3>1, <3>2, <1>s
      <4>2. CASE v # u
        <5>1. badge'[v] = badge[v]
          BY <4>2, <3>1, <1>0
        <5> QED
          BY <5>1, <3>1, <3>4, <3>5, <1>b, <1>s
      <4> QED
        BY <4>1, <4>2
    <3> QED
      BY <3>3, <3>5
  <2>12. CASE No!InsertHook(h) \/ \E k \in Hooks : No!CountHooks(h, k) \/ No!DeactivateWebhook(h, k) \/ No!DeleteWebhook(h, k)
    <3>1. /\ notes' = notes /\ badge' = badge /\ pc[h] \in {"idle", "insert"}
          /\ pc[h] = "idle" => \A g \in Handlers : pc[g] = "idle"
      BY <2>12 DEF No!InsertHook, No!CountHooks, No!DeactivateWebhook, No!DeleteWebhook, No!Start
    <3>2. pc'[h] \in {"idle", "insert"}
      BY <2>12, <1>0 DEF No!InsertHook, No!CountHooks, No!DeactivateWebhook, No!DeleteWebhook, No!Start, No!Goto, No!Return
    <3>3. HasCounted(h)'
      BY <3>2
    <3> QED
      BY <3>1, <3>3, <2>7, <2>8
  <2> QED
    BY <1>2, <2>5, <2>6, <2>9, <2>10, <2>11, <2>12 DEF Leaves
<1>3. UNCHANGED <<notes, badge, pc, job>> \/ \E h \in Handlers : (\E us : Rewrites(h, us)) \/ Leaves(h)
  BY NoteStepKinds DEF No!Tick, No!notifications
<1> HIDE DEF Covers, HasCounted
<1> QED
  BY <1>1, <1>2, <1>3

LEMMA NotesStep == NotesInv /\ [No!Next]_(No!notifications) => NotesInv'
BY NotesTyped, HooksCounted, BadgesCover DEF NotesInv

LEMMA NotesHold == NotesInv => No!NotificationsSound
<1> SUFFICES ASSUME NotesInv PROVE No!NotificationsSound
  OBVIOUS
<1>0. /\ overlap \in BOOLEAN /\ clean \in BOOLEAN /\ now \in 1..MaxTime
      /\ notes \in Seq(NoteRows(now) \cup {None}) /\ badge \in [Users -> Badges \cup {None}]
      /\ hooks \in [Hooks -> [on : Nat, off : Nat]] /\ faults \in 0..MaxFaults /\ requests \in 0..MaxRequests
  BY DEF NotesInv, NoteTypes
<1>1. ASSUME NEW k \in Hooks
      PROVE  hooks[k].on \in 0..requests /\ (clean => hooks[k].on <= AtOnce)
  <2>1. Cardinality(Inserting(k)) \in Nat
    BY InsertingAtOnce DEF NotesInv
  <2>2. /\ hooks[k].on + Cardinality(Inserting(k)) <= requests
        /\ clean => hooks[k].on + Cardinality(Inserting(k)) <= AtOnce
    BY DEF NotesInv, HookInv
  <2>3. Cardinality(Handlers) \in Nat
    BY NotesGiven, FS_CardinalityType
  <2>4. hooks[k].on \in Nat /\ requests \in Nat /\ AtOnce \in Nat
    BY <1>0, <2>3 DEF AtOnce
  <2>5. hooks[k].on <= requests
    BY ONLY <2>1, <2>2, <2>4
  <2>6. ASSUME clean PROVE hooks[k].on <= AtOnce
    <3>1. hooks[k].on + Cardinality(Inserting(k)) <= AtOnce
      BY <2>2, <2>6
    <3> QED
      BY ONLY <2>1, <2>4, <3>1
  <2> QED
    BY <2>4, <2>5, <2>6
<1>2. No!TypeOK
  <2>1. \A n \in DOMAIN notes : notes[n] # None => notes[n].to \in Users \cup {Everybody} /\ notes[n].at \in 1..now
    <3> SUFFICES ASSUME NEW n \in DOMAIN notes, notes[n] # None PROVE notes[n].to \in Users \cup {Everybody} /\ notes[n].at \in 1..now
      OBVIOUS
    <3>1. notes[n] \in NoteRows(now)
      BY <1>0
    <3> QED
      BY ONLY <3>1 DEF NoteRows
  <2>2. ASSUME NEW u \in Users, badge[u] # None
        PROVE  badge[u].total \cup badge[u].types \subseteq DOMAIN notes /\ badge[u].until \in 1..now + BadgeTtl
    <3>1. badge[u] \in Badges
      BY <1>0, <2>2
    <3> QED
      BY ONLY <3>1 DEF Badges
  <2> QED
    BY <1>0, <1>1, <2>1, <2>2 DEF No!TypeOK
<1>3. No!SerialBadgeCoversPersonal
  <2> SUFFICES ASSUME ~overlap, clean, \A h \in Handlers : pc[h] = "idle", NEW u \in Users, badge[u] # None
               PROVE  {n \in No!Unread(u) : notes[n].to = u} \subseteq badge[u].total /\ badge[u].types = badge[u].total
    BY DEF No!SerialBadgeCoversPersonal
  <2>1. ~ToForget(u)
    BY DEF ToForget
  <2> QED
    BY <2>1 DEF NotesInv, BadgeInv, Covers, Personal
<1>4. No!WebhooksWithinHandlers
  BY <1>1, SameCount DEF No!WebhooksWithinHandlers, AtOnce
<1> QED
  BY <1>2, <1>3, <1>4 DEF No!NotificationsSound

(* A behaviour of notifications steps as Notifications does. *)
LEMMA NotesRun == part = "notifications" /\ [Next]_all => part' = "notifications" /\ [No!Next]_(No!notifications)
BY DEF Next, all, No!notifications

(* While requests take turns and no call fails, a badge never hides what    *)
(* its user alone was sent; however many overlap, an event is delivered to  *)
(* a URL at most as often as requests run at once (Notification.go), for    *)
(* every number of handlers, users, requests and errors. *)
THEOREM NothingHidden == Spec => []NotificationsSound
<1> DEFINE Inv == part = "notifications" => NotesInv
<1>1. Init => Inv
  BY NotesInit DEF Init
<1>2. Inv /\ [Next]_all => Inv'
  <2> SUFFICES ASSUME Inv, [Next]_all, part' = "notifications" PROVE NotesInv'
    OBVIOUS
  <2>1. part = "notifications"
    BY DEF Next, all
  <2> QED
    BY <2>1, NotesRun, NotesStep
<1>3. Inv => NotificationsSound
  BY NotesHold DEF NotificationsSound
<1> QED
  BY <1>1, <1>2, <1>3, PTL DEF Spec

-----------------------------------------------------------------------------
(* Reports. *)

(* The states a report passes through, one before each stage. *)
Stations(r) ==
    IF r.start = "start_collect" THEN <<"collecting", "aggregating", "enriching", "delivering">>
    ELSE <<"ingesting", "feature_engineering", "model_training", "scoring", "post_processing", "publishing">>

(* What the machines make of them: each stage leads to the next station and *)
(* the last one to the end, and only the first is guarded. *)
Passable(r) ==
    /\ Len(r.stages) \in Nat \ {0, 1} /\ DOMAIN r.stages = 1..Len(r.stages) /\ DOMAIN Stations(r) = 1..Len(r.stages)
    /\ r.needs \in Nat /\ (r.counts # r.stages[1] => r.needs > 0)
    /\ Pi!Target(r.fsm, "idle", r.start) = Stations(r)[1]
    /\ \A n \in 1..Len(r.stages) :
         /\ Stations(r)[n] \in r.fsm.states \ {"idle", "completed", "failed"}
         /\ Pi!Target(r.fsm, Stations(r)[n], r.stages[n]) = IF n = Len(r.stages) THEN "completed" ELSE Stations(r)[n + 1]
         /\ n > 1 => r.stages[n] # r.stages[1]
         /\ r.cached => (r.stages[n] = "delivered" <=> n = Len(r.stages))
    /\ Pi!Target(r.fsm, Stations(r)[1], "fail") = "failed"
    /\ {"idle", "completed", "failed"} \subseteq r.fsm.states
    /\ <<Stations(r)[1], r.stages[1]>> \in {<<t[1], t[2]>> : t \in r.fsm.guarded}

(* What a call has in hand: it is at the station its stage begins at; past  *)
(* the first stage its rows were enough, and are those of the orders as     *)
(* they are unless these have changed since within the same unit of time.   *)
Readings == {None} \cup UNION {[D -> Nat] : D \in SUBSET Days}
Answers == {"hit", "report", "refused", "error"}
Places == {"idle", "completed", "failed", "collecting", "aggregating", "enriching", "delivering", "ingesting",
           "feature_engineering", "model_training", "scoring", "post_processing", "publishing"}
PipeCalls == [report : Reports \cup {None}, state : Places, stage : Nat, count : Nat, rows : Readings,
              answer : Answers \cup {None}, at : Nat]
Current(r, got) == got = Pi!Rows(r) \/ wrote = time
CallInv(c) ==
    LET j == call[c]
        r == Pi!R(c)
    IN /\ j.at <= time
       /\ j.report = None => j.answer = None /\ j.state = "idle" /\ j.stage = 0
       /\ j.report # None /\ j.answer = None =>
            /\ j.stage \in 1..Len(r.stages) /\ j.state = Stations(r)[j.stage]
            /\ j.stage = 1 => j.count = 0
            /\ j.stage > 1 => /\ r.counts = r.stages[1] /\ Pi!Cardinality(DOMAIN j.rows) >= r.needs
                              /\ Current(r, j.rows)
       /\ j.answer = "hit" => j.state = "idle" /\ (j.at = time => j.rows = Pi!Rows(r) \/ time <= wrote + ReportTTL)
       /\ j.answer = "report" => /\ j.state = "completed" /\ r.counts = r.stages[1]
                                 /\ Pi!Cardinality(DOMAIN j.rows) >= r.needs
       /\ j.answer = "error" => j.state = "failed"
       /\ j.answer = "refused" => /\ j.state = Stations(r)[1]
                                  /\ ~(r.counts = r.stages[1] /\ Pi!Cardinality(DOMAIN j.rows) >= r.needs)

(* A cached report is of the orders as they are, or they changed within its *)
(* lifetime. *)
Entries == [rows : Readings, until : Int]
EntryInv(n) ==
    cache[n] # None =>
        /\ cache[n].until <= time + ReportTTL
        /\ cache[n].rows = Pi!Rows(Pi!Report[n]) \/ cache[n].until <= wrote + ReportTTL

PipesInv ==
    /\ time \in Nat /\ wrote \in 0..time
    /\ orders \in [Days -> [live : Nat, cancelled : Nat]]
    /\ cache \in [Reports -> Entries \cup {None}] /\ call \in [Callers -> PipeCalls]
    /\ \A c \in Callers : CallInv(c)
    /\ \A n \in Reports : EntryInv(n)

(* What the assumptions say of reports. *)
LEMMA SameSize ==
    ASSUME NEW S
    PROVE  Pi!Cardinality(S) = Cardinality(S) /\ Pi!IsFiniteSet(S) = IsFiniteSet(S)
BY DEF Pi!Cardinality, Cardinality, Pi!IsFiniteSet, IsFiniteSet

LEMMA PipesGiven ==
    /\ IsFiniteSet(Days) /\ Reports \subseteq DOMAIN Pi!Report /\ Enough \in Nat /\ ReportTTL \in Nat
    /\ None \notin Reports /\ None \notin Answers
BY ServicesAssumption, SameSize DEF Pi!PipelinesAssumption, Answers

(* The only transition by an event gives its target. *)
LEMMA OnlyTarget ==
    ASSUME NEW fsm, NEW s, NEW e, NEW to, <<s, e, to>> \in fsm.trans,
           \A t \in fsm.trans : t[1] = s /\ t[2] = e => t = <<s, e, to>>
    PROVE  Pi!Target(fsm, s, e) = to
<1>1. Pi!Lookup(fsm.trans, s, e) = <<s, e, to>>
  <2>1. \E t \in fsm.trans : t[1] = s /\ t[2] = e
    <3>1. <<s, e, to>>[1] = s /\ <<s, e, to>>[2] = e
      OBVIOUS
    <3> QED
      BY <3>1
  <2> DEFINE P(t) == t \in fsm.trans /\ t[1] = s /\ t[2] = e
  <2>2. Pi!Lookup(fsm.trans, s, e) \in fsm.trans /\ Pi!Lookup(fsm.trans, s, e)[1] = s /\ Pi!Lookup(fsm.trans, s, e)[2] = e
    BY <2>1 DEF Pi!Lookup
  <2> QED
    BY <2>2
<1> QED
  BY <1>1 DEF Pi!Target

(* The machines of the two kinds of report. *)
LEMMA AnalyticsMoves ==
    LET fsm == Pi!AnalyticsPipelineFSM
    IN /\ Pi!Target(fsm, "idle", "start_collect") = "collecting"
       /\ Pi!Target(fsm, "collecting", "collected") = "aggregating"
       /\ Pi!Target(fsm, "aggregating", "aggregated") = "enriching"
       /\ Pi!Target(fsm, "enriching", "enriched") = "delivering"
       /\ Pi!Target(fsm, "delivering", "delivered") = "completed"
       /\ Pi!Target(fsm, "collecting", "fail") = "failed"
       /\ fsm.states = {"idle", "collecting", "aggregating", "enriching", "delivering", "completed", "failed"}
       /\ <<"collecting", "collected">> \in {<<t[1], t[2]>> : t \in fsm.guarded}
<1> DEFINE fsm == Pi!AnalyticsPipelineFSM
<1>1. /\ <<"idle", "start_collect", "collecting">> \in fsm.trans
      /\ <<"collecting", "collected", "aggregating">> \in fsm.trans
      /\ <<"aggregating", "aggregated", "enriching">> \in fsm.trans
      /\ <<"enriching", "enriched", "delivering">> \in fsm.trans
      /\ <<"delivering", "delivered", "completed">> \in fsm.trans
      /\ <<"collecting", "fail", "failed">> \in fsm.trans
  BY DEF Pi!AnalyticsPipelineFSM, Pi!Definition, Pi!FromEach
<1>2. \A t \in fsm.trans :
         \/ t = <<"idle", "start_collect", "collecting">>
         \/ t = <<"collecting", "collected", "aggregating">>
         \/ t = <<"aggregating", "aggregated", "enriching">>
         \/ t = <<"enriching", "enriched", "delivering">>
         \/ t = <<"delivering", "delivered", "completed">>
         \/ t = <<"collecting", "fail", "failed">>
         \/ t = <<"aggregating", "fail", "failed">>
         \/ t = <<"enriching", "fail", "failed">>
         \/ t = <<"delivering", "fail", "failed">>
  BY DEF Pi!AnalyticsPipelineFSM, Pi!Definition, Pi!FromEach
<1>3. /\ fsm.states = {"idle", "collecting", "aggregating", "enriching", "delivering", "completed", "failed"}
      /\ <<"collecting", "collected", "aggregating">> \in fsm.guarded
  BY DEF Pi!AnalyticsPipelineFSM, Pi!Definition
<1>4. <<"collecting", "collected">> \in {<<t[1], t[2]>> : t \in fsm.guarded}
  BY <1>3
<1> HIDE DEF fsm
<1>5. Pi!Target(fsm, "idle", "start_collect") = "collecting"
  BY <1>1, <1>2, OnlyTarget
<1>6. Pi!Target(fsm, "collecting", "collected") = "aggregating"
  BY <1>1, <1>2, OnlyTarget
<1>7. Pi!Target(fsm, "aggregating", "aggregated") = "enriching"
  BY <1>1, <1>2, OnlyTarget
<1>8. Pi!Target(fsm, "enriching", "enriched") = "delivering"
  BY <1>1, <1>2, OnlyTarget
<1>9. Pi!Target(fsm, "delivering", "delivered") = "completed"
  BY <1>1, <1>2, OnlyTarget
<1>10. Pi!Target(fsm, "collecting", "fail") = "failed"
  BY <1>1, <1>2, OnlyTarget
<1> QED
  BY <1>3, <1>4, <1>5, <1>6, <1>7, <1>8, <1>9, <1>10 DEF fsm

LEMMA ForecastMoves ==
    LET fsm == Pi!ForecastPipelineFSM
    IN /\ Pi!Target(fsm, "idle", "start_ingest") = "ingesting"
       /\ Pi!Target(fsm, "ingesting", "ingested") = "feature_engineering"
       /\ Pi!Target(fsm, "feature_engineering", "features_ready") = "model_training"
       /\ Pi!Target(fsm, "model_training", "model_trained") = "scoring"
       /\ Pi!Target(fsm, "scoring", "scored") = "post_processing"
       /\ Pi!Target(fsm, "post_processing", "post_processed") = "publishing"
       /\ Pi!Target(fsm, "publishing", "published") = "completed"
       /\ Pi!Target(fsm, "ingesting", "fail") = "failed"
       /\ fsm.states = {"idle", "ingesting", "feature_engineering", "model_training", "scoring", "post_processing",
                        "publishing", "completed", "failed"}
       /\ <<"ingesting", "ingested">> \in {<<t[1], t[2]>> : t \in fsm.guarded}
<1> DEFINE fsm == Pi!ForecastPipelineFSM
<1>1. /\ <<"idle", "start_ingest", "ingesting">> \in fsm.trans
      /\ <<"ingesting", "ingested", "feature_engineering">> \in fsm.trans
      /\ <<"feature_engineering", "features_ready", "model_training">> \in fsm.trans
      /\ <<"model_training", "model_trained", "scoring">> \in fsm.trans
      /\ <<"scoring", "scored", "post_processing">> \in fsm.trans
      /\ <<"post_processing", "post_processed", "publishing">> \in fsm.trans
      /\ <<"publishing", "published", "completed">> \in fsm.trans
      /\ <<"ingesting", "fail", "failed">> \in fsm.trans
  BY DEF Pi!ForecastPipelineFSM, Pi!Definition, Pi!FromEach
<1>2. \A t \in fsm.trans :
         \/ t = <<"idle", "start_ingest", "ingesting">>
         \/ t = <<"ingesting", "ingested", "feature_engineering">>
         \/ t = <<"feature_engineering", "features_ready", "model_training">>
         \/ t = <<"model_training", "model_trained", "scoring">>
         \/ t = <<"scoring", "scored", "post_processing">>
         \/ t = <<"post_processing", "post_processed", "publishing">>
         \/ t = <<"publishing", "published", "completed">>
         \/ t = <<"ingesting", "fail", "failed">>
         \/ t = <<"feature_engineering", "fail", "failed">>
         \/ t = <<"model_training", "fail", "failed">>
         \/ t = <<"scoring", "fail", "failed">>
         \/ t = <<"post_processing", "fail", "failed">>
         \/ t = <<"publishing", "fail", "failed">>
  BY DEF Pi!ForecastPipelineFSM, Pi!Definition, Pi!FromEach
<1>3. /\ fsm.states = {"idle", "ingesting", "feature_engineering", "model_training", "scoring", "post_processing",
                       "publishing", "completed", "failed"}
      /\ <<"ingesting", "ingested", "feature_engineering">> \in fsm.guarded
  BY DEF Pi!ForecastPipelineFSM, Pi!Definition
<1>4. <<"ingesting", "ingested">> \in {<<t[1], t[2]>> : t \in fsm.guarded}
  BY <1>3
<1> HIDE DEF fsm
<1>5. Pi!Target(fsm, "idle", "start_ingest") = "ingesting"
  BY <1>1, <1>2, OnlyTarget
<1>6. Pi!Target(fsm, "ingesting", "ingested") = "feature_engineering"
  BY <1>1, <1>2, OnlyTarget
<1>7. Pi!Target(fsm, "feature_engineering", "features_ready") = "model_training"
  BY <1>1, <1>2, OnlyTarget
<1>8. Pi!Target(fsm, "model_training", "model_trained") = "scoring"
  BY <1>1, <1>2, OnlyTarget
<1>9. Pi!Target(fsm, "scoring", "scored") = "post_processing"
  BY <1>1, <1>2, OnlyTarget
<1>10. Pi!Target(fsm, "post_processing", "post_processed") = "publishing"
  BY <1>1, <1>2, OnlyTarget
<1>11. Pi!Target(fsm, "publishing", "published") = "completed"
  BY <1>1, <1>2, OnlyTarget
<1>12. Pi!Target(fsm, "ingesting", "fail") = "failed"
  BY <1>1, <1>2, OnlyTarget
<1> QED
  BY <1>3, <1>4, <1>5, <1>6, <1>7, <1>8, <1>9, <1>10, <1>11, <1>12 DEF fsm

(* Every report passes its machine. *)
LEMMA KeptPassable ==
    ASSUME NEW counts \in {"collected", "aggregated"}, NEW live \in BOOLEAN, NEW cached \in BOOLEAN
    PROVE  Passable(Pi!Kept(counts, live, cached))
<1> DEFINE r == Pi!Kept(counts, live, cached)
<1>1. /\ r.fsm = Pi!AnalyticsPipelineFSM /\ r.start = "start_collect" /\ r.needs = 1 /\ r.counts = counts
      /\ r.stages = <<"collected", "aggregated", "enriched", "delivered">>
  BY DEF Pi!Kept
<1> HIDE DEF r
<1>2. Stations(r) = <<"collecting", "aggregating", "enriching", "delivering">>
  BY <1>1 DEF Stations
<1>3. Len(r.stages) = 4
  BY <1>1
<1>4. ASSUME NEW n \in 1..4
      PROVE  /\ Stations(r)[n] \in r.fsm.states \ {"idle", "completed", "failed"}
             /\ Pi!Target(r.fsm, Stations(r)[n], r.stages[n]) = IF n = 4 THEN "completed" ELSE Stations(r)[n + 1]
             /\ n > 1 => r.stages[n] # r.stages[1]
             /\ r.stages[n] = "delivered" <=> n = 4
  <2>1. n = 1 \/ n = 2 \/ n = 3 \/ n = 4
    BY <1>4
  <2>2. CASE n = 1
    BY <2>2, <1>1, <1>2, AnalyticsMoves
  <2>3. CASE n = 2
    BY <2>3, <1>1, <1>2, AnalyticsMoves
  <2>4. CASE n = 3
    BY <2>4, <1>1, <1>2, AnalyticsMoves
  <2>5. CASE n = 4
    BY <2>5, <1>1, <1>2, AnalyticsMoves
  <2> QED
    BY <2>1, <2>2, <2>3, <2>4, <2>5
<1>5. /\ Pi!Target(r.fsm, "idle", r.start) = Stations(r)[1] /\ Pi!Target(r.fsm, Stations(r)[1], "fail") = "failed"
      /\ {"idle", "completed", "failed"} \subseteq r.fsm.states
      /\ <<Stations(r)[1], r.stages[1]>> \in {<<t[1], t[2]>> : t \in r.fsm.guarded}
  BY <1>1, <1>2, AnalyticsMoves
<1>6. DOMAIN r.stages = 1..4 /\ DOMAIN Stations(r) = 1..4 /\ r.needs \in Nat /\ r.needs > 0
  BY <1>1, <1>2
<1>7. Passable(r)
  BY <1>3, <1>4, <1>5, <1>6 DEF Passable
<1> QED
  BY <1>7 DEF r

LEMMA ForecastPassable == Passable(Pi!Forecast)
<1> DEFINE r == Pi!Forecast
<1>1. /\ r.fsm = Pi!ForecastPipelineFSM /\ r.start = "start_ingest" /\ r.needs = Enough /\ r.counts = "ingested" /\ ~r.cached
      /\ r.stages = <<"ingested", "features_ready", "model_trained", "scored", "post_processed", "published">>
  BY DEF Pi!Forecast
<1> HIDE DEF r
<1>2. Stations(r) = <<"ingesting", "feature_engineering", "model_training", "scoring", "post_processing", "publishing">>
  BY <1>1 DEF Stations
<1>3. Len(r.stages) = 6
  BY <1>1
<1>4. ASSUME NEW n \in 1..6
      PROVE  /\ Stations(r)[n] \in r.fsm.states \ {"idle", "completed", "failed"}
             /\ Pi!Target(r.fsm, Stations(r)[n], r.stages[n]) = IF n = 6 THEN "completed" ELSE Stations(r)[n + 1]
             /\ n > 1 => r.stages[n] # r.stages[1]
  <2>1. n = 1 \/ n = 2 \/ n = 3 \/ n = 4 \/ n = 5 \/ n = 6
    BY <1>4
  <2>2. CASE n = 1
    BY <2>2, <1>1, <1>2, ForecastMoves
  <2>3. CASE n = 2
    BY <2>3, <1>1, <1>2, ForecastMoves
  <2>4. CASE n = 3
    BY <2>4, <1>1, <1>2, ForecastMoves
  <2>5. CASE n = 4
    BY <2>5, <1>1, <1>2, ForecastMoves
  <2>6. CASE n = 5
    BY <2>6, <1>1, <1>2, ForecastMoves
  <2>7. CASE n = 6
    BY <2>7, <1>1, <1>2, ForecastMoves
  <2> QED
    BY <2>1, <2>2, <2>3, <2>4, <2>5, <2>6, <2>7
<1>5. /\ Pi!Target(r.fsm, "idle", r.start) = Stations(r)[1] /\ Pi!Target(r.fsm, Stations(r)[1], "fail") = "failed"
      /\ {"idle", "completed", "failed"} \subseteq r.fsm.states
      /\ <<Stations(r)[1], r.stages[1]>> \in {<<t[1], t[2]>> : t \in r.fsm.guarded}
  BY <1>1, <1>2, ForecastMoves
<1>6. DOMAIN r.stages = 1..6 /\ DOMAIN Stations(r) = 1..6 /\ r.needs \in Nat /\ r.counts = r.stages[1]
  BY <1>1, <1>2, PipesGiven
<1>7. Passable(r)
  BY <1>1, <1>3, <1>4, <1>5, <1>6 DEF Passable
<1> QED
  BY <1>7 DEF r

LEMMA ReportsPass == \A n \in Reports : Passable(Pi!Report[n])
<1> SUFFICES ASSUME NEW n \in Reports PROVE Passable(Pi!Report[n])
  OBVIOUS
<1>1. n \in {"overview", "trend", "category", "volume", "status", "peak", "top", "turnover", "wastage",
             "demand", "revenue", "reorder"}
  BY PipesGiven DEF Pi!Report
<1>2. /\ Passable(Pi!GetRevenueOverview) /\ Passable(Pi!GetRevenueTrend) /\ Passable(Pi!GetRevenueByCategory)
      /\ Passable(Pi!GetOrderVolume) /\ Passable(Pi!GetOrderStatusDistribution) /\ Passable(Pi!GetPeakHours)
      /\ Passable(Pi!GetTopSellingItems) /\ Passable(Pi!GetInventoryTurnover) /\ Passable(Pi!GetWastageReport)
  <2>1. /\ Passable(Pi!Kept("collected", TRUE, TRUE)) /\ Passable(Pi!Kept("aggregated", TRUE, TRUE))
        /\ Passable(Pi!Kept("aggregated", TRUE, FALSE)) /\ Passable(Pi!Kept("aggregated", FALSE, FALSE))
    BY KeptPassable
  <2> QED
    BY ONLY <2>1 DEF Pi!GetRevenueOverview, Pi!GetRevenueTrend, Pi!GetRevenueByCategory, Pi!GetOrderVolume,
       Pi!GetOrderStatusDistribution, Pi!GetPeakHours, Pi!GetTopSellingItems, Pi!GetInventoryTurnover, Pi!GetWastageReport
<1>3. Passable(Pi!ForecastDemand) /\ Passable(Pi!ForecastRevenue) /\ Passable(Pi!ForecastReorderDates)
  BY ONLY ForecastPassable DEF Pi!ForecastDemand, Pi!ForecastRevenue, Pi!ForecastReorderDates
<1>4. \/ Pi!Report[n] \in {Pi!GetRevenueOverview, Pi!GetRevenueTrend, Pi!GetRevenueByCategory, Pi!GetOrderVolume,
                        Pi!GetOrderStatusDistribution, Pi!GetPeakHours}
      \/ Pi!Report[n] \in {Pi!GetTopSellingItems, Pi!GetInventoryTurnover, Pi!GetWastageReport, Pi!ForecastDemand,
                        Pi!ForecastRevenue, Pi!ForecastReorderDates}
  BY ONLY <1>1 DEF Pi!Report
<1> QED
  BY ONLY <1>2, <1>3, <1>4

(* What the steps leave of the parts that they do not touch. *)
LEMMA CallsKept ==
    ASSUME PipesInv, time' = time, ReportTTL \in Nat, NEW c \in Callers, call'[c] = call[c],
           \/ orders' = orders /\ wrote' = wrote
           \/ wrote' = time
    PROVE  CallInv(c)'
<1> DEFINE j == call[c]
<1>1. CallInv(c) /\ time \in Nat /\ j \in PipeCalls
  BY DEF PipesInv
<1>2. Pi!R(c)' = Pi!R(c)
  BY DEF Pi!R
<1>3. ASSUME NEW r PROVE Pi!Rows(r)' = Pi!Rows(r) \/ wrote' = time
  <2>1. CASE wrote' = time
    BY <2>1
  <2>2. CASE orders' = orders
    BY <2>2 DEF Pi!Rows, Pi!Counted
  <2> QED
    BY <2>1, <2>2
<1>4. ASSUME NEW r, NEW g, Current(r, g) PROVE Current(r, g)'
  BY <1>3, <1>4 DEF Current
<1>5. ASSUME j.answer = "hit" /\ j.at = time PROVE j.rows = Pi!Rows(Pi!R(c))' \/ time <= wrote' + ReportTTL
  <2>1. j.rows = Pi!Rows(Pi!R(c)) \/ time <= wrote + ReportTTL
    BY <1>5, <1>1 DEF CallInv
  <2>2. CASE wrote' = time
    BY <2>2, <1>1
  <2>3. CASE orders' = orders /\ wrote' = wrote
    <3>1. Pi!Rows(Pi!R(c))' = Pi!Rows(Pi!R(c))
      BY <2>3, <1>2 DEF Pi!Rows, Pi!Counted
    <3> QED
      BY <3>1, <2>1, <2>3
  <2> QED
    BY <2>2, <2>3
<1> QED
  BY <1>1, <1>2, <1>4, <1>5 DEF CallInv

LEMMA EntriesKept ==
    ASSUME PipesInv, time' = time, ReportTTL \in Nat, NEW n \in Reports, cache'[n] = cache[n],
           \/ orders' = orders /\ wrote' = wrote
           \/ wrote' = time
    PROVE  EntryInv(n)'
<1> SUFFICES ASSUME cache[n] # None
             PROVE  cache[n].until <= time + ReportTTL /\ (cache[n].rows = Pi!Rows(Pi!Report[n])' \/ cache[n].until <= wrote' + ReportTTL)
  BY DEF EntryInv
<1>1. /\ cache[n].until <= time + ReportTTL
      /\ cache[n].rows = Pi!Rows(Pi!Report[n]) \/ cache[n].until <= wrote + ReportTTL
  BY DEF PipesInv, EntryInv
<1>2. CASE wrote' = time
  BY <1>1, <1>2
<1>3. CASE orders' = orders /\ wrote' = wrote
  BY <1>1, <1>3 DEF Pi!Rows, Pi!Counted
<1> QED
  BY <1>2, <1>3

(* A call's record. *)
Record(a, s, k, m, g, w, t) ==
    [report |-> a, state |-> s, stage |-> k, count |-> m, rows |-> g, answer |-> w, at |-> t]

LEMMA MakeRecord ==
    ASSUME NEW a \in Reports \cup {None}, NEW s \in Places, NEW k \in Nat, NEW m \in Nat, NEW g \in Readings,
           NEW w \in Answers \cup {None}, NEW t \in Nat
    PROVE  Record(a, s, k, m, g, w, t) \in PipeCalls
BY ONLY a \in Reports \cup {None}, s \in Places, k \in Nat, m \in Nat, g \in Readings,
        w \in Answers \cup {None}, t \in Nat DEF PipeCalls, Record

LEMMA SameRecord ==
    ASSUME NEW j \in PipeCalls
    PROVE  j = Record(j.report, j.state, j.stage, j.count, j.rows, j.answer, j.at)
BY ONLY j \in PipeCalls DEF Record, PipeCalls

LEMMA PipesStart == Pi!Init => PipesInv
<1> SUFFICES ASSUME Pi!Init PROVE PipesInv
  OBVIOUS
<1>1. Pi!NoCall \in PipeCalls
  <2>1. None \in Readings
    BY DEF Readings
  <2> QED
    <3>1. "idle" \in Places
      BY DEF Places
    <3> QED
      BY <2>1, <3>1, MakeRecord DEF Pi!NoCall, Record
<1>2. /\ orders \in [Days -> [live : Nat, cancelled : Nat]]
      /\ cache \in [Reports -> Entries \cup {None}] /\ call \in [Callers -> PipeCalls]
      /\ time \in Nat /\ wrote \in 0..time
  BY <1>1 DEF Pi!Init
<1>3. ASSUME NEW c \in Callers PROVE CallInv(c)
  BY PipesGiven DEF Pi!Init, Pi!NoCall, CallInv, Answers
<1>4. ASSUME NEW n \in Reports PROVE EntryInv(n)
  BY DEF Pi!Init, EntryInv
<1> QED
  BY <1>2, <1>3, <1>4 DEF PipesInv

(* The rows a report reads. *)
LEMMA RowsRead ==
    ASSUME NEW r, orders \in [Days -> [live : Nat, cancelled : Nat]]
    PROVE  Pi!Rows(r) \in Readings /\ Pi!Cardinality(DOMAIN Pi!Rows(r)) \in Nat
<1> DEFINE D == {e \in Days : Pi!Counted(r, e) > 0}
<1>1. ASSUME NEW d \in D PROVE Pi!Counted(r, d) \in Nat
  BY DEF Pi!Counted
<1>2. Pi!Rows(r) \in [D -> Nat]
  BY <1>1 DEF Pi!Rows
<1>3. D \in SUBSET Days
  OBVIOUS
<1> HIDE DEF D
<1>4. Pi!Cardinality(D) \in Nat
  BY <1>3, PipesGiven, SameSize, FS_Subset, FS_CardinalityType
<1> QED
  BY <1>2, <1>3, <1>4 DEF Readings

(* The steps. *)
LEMMA AskPipes ==
    ASSUME PipesInv, NEW c \in Callers, Pi!Ask(c)
    PROVE  PipesInv'
<1> USE PipesGiven
<1>1. PICK n \in Reports :
         LET asked == [Pi!NoCall EXCEPT !.report = n, !.at = time]
             fresh == cache[n] # None /\ time <= cache[n].until
             miss == [asked EXCEPT !.state = Pi!Target(Pi!Report[n].fsm, "idle", Pi!Report[n].start), !.stage = 1]
         IN \/ call' = [call EXCEPT ![c] = IF fresh THEN [asked EXCEPT !.rows = cache[n].rows, !.answer = "hit"] ELSE miss]
            \/ fresh /\ call' = [call EXCEPT ![c] = miss]
  BY Zenon DEF Pi!Ask
<1> DEFINE found == Record(n, "idle", 0, 0, cache[n].rows, "hit", time)
           begun == Record(n, Stations(Pi!Report[n])[1], 1, 0, None, None, time)
<1>2. UNCHANGED <<orders, cache, wrote, time, writes>>
  BY DEF Pi!Ask
<1>3. Passable(Pi!Report[n])
  BY ReportsPass
<1>4. /\ [[Pi!NoCall EXCEPT !.report = n, !.at = time] EXCEPT !.rows = cache[n].rows, !.answer = "hit"] = found
      /\ [[Pi!NoCall EXCEPT !.report = n, !.at = time] EXCEPT
             !.state = Pi!Target(Pi!Report[n].fsm, "idle", Pi!Report[n].start), !.stage = 1] = begun
  <2> DEFINE called == [Pi!NoCall EXCEPT !.report = n]
             asked == [called EXCEPT !.at = time]
             fetched == [asked EXCEPT !.rows = cache[n].rows]
             led == [asked EXCEPT !.state = Stations(Pi!Report[n])[1]]
  <2>1. called = Record(n, "idle", 0, 0, None, None, 0)
    BY ONLY DEF Pi!NoCall, Record
  <2> HIDE DEF called
  <2>2. asked = Record(n, "idle", 0, 0, None, None, time)
    BY ONLY <2>1 DEF Record
  <2> HIDE DEF asked
  <2>3. fetched = Record(n, "idle", 0, 0, cache[n].rows, None, time)
    BY ONLY <2>2 DEF Record
  <2>4. led = Record(n, Stations(Pi!Report[n])[1], 0, 0, None, None, time)
    BY ONLY <2>2 DEF Record
  <2> HIDE DEF fetched, led
  <2>5. [fetched EXCEPT !.answer = "hit"] = found
    BY ONLY <2>3 DEF Record
  <2>6. [led EXCEPT !.stage = 1] = begun
    BY ONLY <2>4 DEF Record
  <2>7. Pi!Target(Pi!Report[n].fsm, "idle", Pi!Report[n].start) = Stations(Pi!Report[n])[1]
    BY <1>3 DEF Passable
  <2> QED
    BY ONLY <2>5, <2>6, <2>7 DEF fetched, led, asked, called
<1>5. \/ call' = [call EXCEPT ![c] = begun]
      \/ cache[n] # None /\ time <= cache[n].until /\ call' = [call EXCEPT ![c] = found]
  BY <1>1, <1>4
<1>6. call \in [Callers -> PipeCalls] /\ time \in Nat /\ cache \in [Reports -> Entries \cup {None}]
  BY DEF PipesInv
<1>7. \A b \in Callers \ {c} : call'[b] = call[b]
  BY <1>5, <1>6
<1>8. begun \in PipeCalls
  <2>1. Stations(Pi!Report[n])[1] \in Places
    BY DEF Stations, Places
  <2>2. None \in Readings
    BY DEF Readings
  <2> QED
    BY <2>1, <2>2, <1>6, MakeRecord
<1>9. cache[n] # None => found \in PipeCalls
  <2> HAVE cache[n] # None
  <2>1. cache[n].rows \in Readings
    BY <1>6 DEF Entries
  <2>2. "hit" \in Answers /\ "idle" \in Places
    BY DEF Answers, Places
  <2> QED
    BY <2>1, <2>2, <1>6, MakeRecord
<1>10. call' \in [Callers -> PipeCalls]
  BY <1>5, <1>6, <1>8, <1>9
<1>11. CallInv(c)'
  <2>1. CASE call' = [call EXCEPT ![c] = begun]
    <3>1. call'[c] = begun /\ Pi!R(c)' = Pi!Report[n]
      BY <2>1, <1>6 DEF Pi!R, Record
    <3>2. 1 \in 1..Len(Pi!Report[n].stages)
      BY <1>3 DEF Passable
    <3> QED
      BY <3>1, <3>2, <1>2, <1>6 DEF CallInv, Answers, Record
  <2>2. CASE cache[n] # None /\ time <= cache[n].until /\ call' = [call EXCEPT ![c] = found]
    <3>1. call'[c] = found /\ Pi!R(c)' = Pi!Report[n]
      BY <2>2, <1>6 DEF Pi!R, Record
    <3>2. cache[n].rows = Pi!Rows(Pi!Report[n]) \/ cache[n].until <= wrote + ReportTTL
      BY <2>2 DEF PipesInv, EntryInv
    <3>3. cache[n].rows = Pi!Rows(Pi!Report[n]) \/ time <= wrote + ReportTTL
      <4>1. cache[n].until \in Int /\ wrote \in Int
        BY <2>2, <1>6 DEF Entries, PipesInv
      <4> QED
        BY <2>2, <3>2, <4>1, <1>6
    <3>4. Pi!Rows(Pi!Report[n])' = Pi!Rows(Pi!Report[n])
      BY <1>2 DEF Pi!Rows, Pi!Counted
    <3> QED
      BY <3>1, <3>3, <3>4, <1>2, <1>6 DEF CallInv, Answers, Record
  <2> QED
    BY <1>5, <2>1, <2>2
<1>12. \A b \in Callers : CallInv(b)'
  BY <1>2, <1>7, <1>11, CallsKept
<1>13. \A m \in Reports : EntryInv(m)'
  BY <1>2, EntriesKept
<1>14. /\ time' \in Nat /\ wrote' \in 0..time'
       /\ orders' \in [Days -> [live : Nat, cancelled : Nat]]
       /\ cache' \in [Reports -> Entries \cup {None}]
  BY <1>2 DEF PipesInv
<1> QED
  BY <1>10, <1>12, <1>13, <1>14 DEF PipesInv

(* What a stage leaves of a call. *)
LEMMA StageLeaves ==
    ASSUME PipesInv, NEW c \in Callers, Pi!RunStage(c)
    PROVE  LET j == call[c]
               r == Pi!R(c)
               n == j.stage
               ev == r.stages[n]
               got == IF n = 1 THEN Pi!Rows(r) ELSE j.rows
               m == IF ev = r.counts THEN Pi!Cardinality(DOMAIN got) ELSE j.count
               to == Pi!Target(r.fsm, j.state, ev)
           IN /\ j.report \in Reports /\ j.answer = None /\ n > 0
              /\ call' = [call EXCEPT ![c] =
                    IF ~Pi!GuardHolds(r, ev, m) THEN Record(j.report, j.state, n, m, got, "refused", j.at)
                    ELSE IF n = Len(r.stages) THEN Record(j.report, to, n, m, got, "report", j.at)
                    ELSE Record(j.report, to, n + 1, m, got, None, j.at)]
              /\ \/ /\ r.cached /\ ev = "delivered"
                    /\ cache' = [cache EXCEPT ![j.report] = [rows |-> got, until |-> time + ReportTTL]]
                 \/ ~(r.cached /\ ev = "delivered") /\ cache' = cache
<1> DEFINE j == call[c]
           r == Pi!R(c)
           n == j.stage
           ev == r.stages[n]
           got == IF n = 1 THEN Pi!Rows(r) ELSE j.rows
           m == IF ev = r.counts THEN Pi!Cardinality(DOMAIN got) ELSE j.count
           to == Pi!Target(r.fsm, j.state, ev)
           ran == [j EXCEPT !.rows = got, !.count = m]
<1>1. /\ n > 0 /\ j.answer = None
      /\ call' = [call EXCEPT ![c] =
            IF ~Pi!GuardHolds(r, ev, m) THEN [ran EXCEPT !.answer = "refused"]
            ELSE IF n = Len(r.stages) THEN [ran EXCEPT !.state = to, !.answer = "report"]
            ELSE [ran EXCEPT !.state = to, !.stage = @ + 1]]
      /\ IF r.cached /\ ev = "delivered"
         THEN cache' = [cache EXCEPT ![j.report] = [rows |-> got, until |-> time + ReportTTL]]
         ELSE UNCHANGED cache
  BY Zenon DEF Pi!RunStage, Pi!Done
<1>2. j \in PipeCalls /\ CallInv(c)
  BY DEF PipesInv
<1>3. j.report \in Reports
  <2>1. j.report \in Reports \cup {None}
    BY <1>2 DEF PipeCalls
  <2> QED
    BY <2>1, <1>1, <1>2 DEF CallInv
<1>4. j = Record(j.report, j.state, n, j.count, j.rows, None, j.at)
  BY <1>1, <1>2, SameRecord
<1>5. /\ [ran EXCEPT !.answer = "refused"] = Record(j.report, j.state, n, m, got, "refused", j.at)
      /\ [ran EXCEPT !.state = to, !.answer = "report"] = Record(j.report, to, n, m, got, "report", j.at)
      /\ [ran EXCEPT !.state = to, !.stage = @ + 1] = Record(j.report, to, n + 1, m, got, None, j.at)
  <2> DEFINE y0 == [j EXCEPT !.rows = got]
             y == [y0 EXCEPT !.count = m]
             z == [y EXCEPT !.state = to]
  <2> HIDE DEF got, m, to
  <2>1. y0 = Record(j.report, j.state, n, j.count, got, None, j.at)
    <3> HIDE DEF j
    <3> QED
      BY ONLY <1>4 DEF Record
  <2> HIDE DEF y0
  <2>2. y = Record(j.report, j.state, n, m, got, None, j.at)
    BY ONLY <2>1 DEF Record
  <2> HIDE DEF y
  <2>3. [y EXCEPT !.answer = "refused"] = Record(j.report, j.state, n, m, got, "refused", j.at)
    BY ONLY <2>2 DEF Record
  <2>4. z = Record(j.report, to, n, m, got, None, j.at) /\ y.stage = n
    BY ONLY <2>2 DEF Record
  <2> HIDE DEF z
  <2>5. [z EXCEPT !.answer = "report"] = Record(j.report, to, n, m, got, "report", j.at)
    BY ONLY <2>4 DEF Record
  <2>6. [z EXCEPT !.stage = n + 1] = Record(j.report, to, n + 1, m, got, None, j.at)
    BY ONLY <2>4 DEF Record
  <2>7. ran = y
    BY DEF y, y0
  <2>8. [ran EXCEPT !.state = to, !.stage = @ + 1] = [z EXCEPT !.stage = n + 1]
    BY ONLY <2>4, <2>7 DEF z
  <2>9. [ran EXCEPT !.state = to, !.answer = "report"] = [z EXCEPT !.answer = "report"]
    BY ONLY <2>7 DEF z
  <2> QED
    BY ONLY <2>3, <2>5, <2>6, <2>7, <2>8, <2>9
<1> HIDE DEF ran, to, m, got, ev
<1>6. /\ call' = [call EXCEPT ![c] =
            IF ~Pi!GuardHolds(r, ev, m) THEN Record(j.report, j.state, n, m, got, "refused", j.at)
            ELSE IF n = Len(r.stages) THEN Record(j.report, to, n, m, got, "report", j.at)
            ELSE Record(j.report, to, n + 1, m, got, None, j.at)]
  BY ONLY <1>1, <1>5
<1>7. \/ /\ r.cached /\ ev = "delivered"
         /\ cache' = [cache EXCEPT ![j.report] = [rows |-> got, until |-> time + ReportTTL]]
      \/ ~(r.cached /\ ev = "delivered") /\ cache' = cache
  BY ONLY <1>1
<1> QED
  BY <1>1, <1>3, <1>6, <1>7 DEF ran, to, m, got, ev

LEMMA RunPipes ==
    ASSUME PipesInv, NEW c \in Callers, Pi!RunStage(c)
    PROVE  PipesInv'
<1> USE PipesGiven
<1> DEFINE j == call[c]
           r == Pi!R(c)
           n == j.stage
           ev == r.stages[n]
           got == IF n = 1 THEN Pi!Rows(r) ELSE j.rows
           m == IF ev = r.counts THEN Pi!Cardinality(DOMAIN got) ELSE j.count
           to == Pi!Target(r.fsm, j.state, ev)
           refused == Record(j.report, j.state, n, m, got, "refused", j.at)
           given == Record(j.report, to, n, m, got, "report", j.at)
           onward == Record(j.report, to, n + 1, m, got, None, j.at)
<1>1. UNCHANGED <<orders, wrote, time>>
  BY DEF Pi!RunStage
<1>a. ASSUME NEW q PROVE Pi!Rows(q)' = Pi!Rows(q)
  BY <1>1 DEF Pi!Rows, Pi!Counted
<1>b. ASSUME NEW q, NEW g, Current(q, g) PROVE Current(q, g)'
  BY <1>a, <1>b, <1>1 DEF Current
<1>2. j.report \in Reports /\ j.answer = None /\ n > 0
  BY StageLeaves
<1>3. call' = [call EXCEPT ![c] = IF ~Pi!GuardHolds(r, ev, m) THEN refused ELSE IF n = Len(r.stages) THEN given ELSE onward]
  BY StageLeaves
<1>4. \/ /\ r.cached /\ ev = "delivered"
         /\ cache' = [cache EXCEPT ![j.report] = [rows |-> got, until |-> time + ReportTTL]]
      \/ ~(r.cached /\ ev = "delivered") /\ cache' = cache
  BY StageLeaves
<1>5. /\ j \in PipeCalls /\ CallInv(c) /\ call \in [Callers -> PipeCalls] /\ time \in Nat
      /\ orders \in [Days -> [live : Nat, cancelled : Nat]] /\ cache \in [Reports -> Entries \cup {None}]
  BY DEF PipesInv
<1>6. Passable(r)
  BY <1>2, ReportsPass DEF Pi!R
<1>7. n \in 1..Len(r.stages) /\ j.state = Stations(r)[n] /\ Len(r.stages) \in Nat /\ Len(r.stages) > 1
  <2>1. n \in 1..Len(r.stages) /\ j.state = Stations(r)[n]
    BY <1>2, <1>5 DEF CallInv
  <2>2. Len(r.stages) \in Nat /\ Len(r.stages) > 1
    <3> DEFINE L == Len(r.stages)
    <3>1. L \in Nat \ {0, 1}
      BY ONLY <1>6 DEF Passable
    <3> HIDE DEF L
    <3>2. L \in Nat /\ L > 1
      BY ONLY <3>1
    <3> QED
      BY ONLY <3>2 DEF L
  <2> QED
    BY <2>1, <2>2
<1>8. /\ j.state \in r.fsm.states \ {"idle", "completed", "failed"} /\ j.state \in Places
      /\ to = IF n = Len(r.stages) THEN "completed" ELSE Stations(r)[n + 1]
      /\ n > 1 => ev # r.stages[1]
      /\ r.cached => (ev = "delivered" <=> n = Len(r.stages))
      /\ r.needs \in Nat /\ (r.counts # r.stages[1] => r.needs > 0)
  <2>1. j.state \in Places
    BY <1>5 DEF PipeCalls
  <2> QED
    BY <2>1, <1>6, <1>7 DEF Passable
<1>9. to \in Places
  <2>1. CASE n = Len(r.stages)
    BY <2>1, <1>8 DEF Places
  <2>2. CASE n # Len(r.stages)
    <3>1. Stations(r)[n + 1] \in Places
      <4>1. n + 1 \in DOMAIN Stations(r)
        BY <2>2, <1>6, <1>7 DEF Passable
      <4> QED
        BY <4>1 DEF Stations, Places
    <3> QED
      BY <2>2, <3>1, <1>8
  <2> QED
    BY <2>1, <2>2
<1>10. got \in Readings /\ m \in Nat
  <2>1. Pi!Rows(r) \in Readings /\ Pi!Cardinality(DOMAIN Pi!Rows(r)) \in Nat
    BY <1>5, RowsRead
  <2>2. j.rows \in Readings /\ j.count \in Nat
    BY <1>5 DEF PipeCalls
  <2>3. n # 1 => ev # r.counts
    BY <1>2, <1>5, <1>7, <1>8 DEF CallInv
  <2> QED
    BY <2>1, <2>2, <2>3
<1>11. Pi!GuardHolds(r, ev, m) =>
         r.counts = r.stages[1] /\ Pi!Cardinality(DOMAIN got) >= r.needs /\ Current(r, got)
  <2> SUFFICES ASSUME Pi!GuardHolds(r, ev, m)
               PROVE  r.counts = r.stages[1] /\ Pi!Cardinality(DOMAIN got) >= r.needs /\ Current(r, got)
    OBVIOUS
  <2>1. CASE n = 1
    <3>1. m >= r.needs /\ j.count = 0
      BY <2>1, <1>2, <1>5, <1>7 DEF Pi!GuardHolds, CallInv
    <3>2. r.counts = r.stages[1]
      <4> SUFFICES ASSUME r.counts # r.stages[1] PROVE FALSE
        OBVIOUS
      <4>1. m = 0
        BY <2>1, <3>1
      <4> QED
        BY <3>1, <4>1, <1>8
    <3>3. m = Pi!Cardinality(DOMAIN got)
      BY <2>1, <3>2
    <3> HIDE DEF m
    <3>4. got = Pi!Rows(r)
      BY <2>1
    <3> QED
      BY <3>1, <3>2, <3>3, <3>4 DEF Current
  <2>2. CASE n # 1
    <3>1. n > 1 /\ got = j.rows
      BY <2>2, <1>7
    <3> QED
      BY <3>1, <1>2, <1>5, <1>7 DEF CallInv
  <2> QED
    BY <2>1, <2>2
<1>12. ~Pi!GuardHolds(r, ev, m) =>
         /\ n = 1
         /\ ~(r.counts = r.stages[1] /\ Pi!Cardinality(DOMAIN got) >= r.needs)
  <2> SUFFICES ASSUME ~Pi!GuardHolds(r, ev, m)
               PROVE  n = 1 /\ ~(r.counts = r.stages[1] /\ Pi!Cardinality(DOMAIN got) >= r.needs)
    OBVIOUS
  <2>1. ev = r.stages[1] /\ ~(m >= r.needs)
    BY DEF Pi!GuardHolds
  <2>2. n = 1
    BY <2>1, <1>7, <1>8
  <2>3. r.counts = r.stages[1] => m = Pi!Cardinality(DOMAIN got)
    BY <2>1
  <2> HIDE DEF m, got, ev
  <2> QED
    BY <2>1, <2>2, <2>3
<1>13. refused \in PipeCalls /\ given \in PipeCalls /\ onward \in PipeCalls
  <2>1. j.at \in Nat /\ n \in Nat /\ n + 1 \in Nat
    BY <1>5 DEF PipeCalls
  <2>2. "refused" \in Answers /\ "report" \in Answers
    BY DEF Answers
  <2> HIDE DEF got, m, to, r, j, n
  <2> QED
    BY <1>2, <1>8, <1>9, <1>10, <2>1, <2>2, MakeRecord DEF n
<1>14. call' \in [Callers -> PipeCalls] /\ \A b \in Callers \ {c} : call'[b] = call[b]
  <2> HIDE DEF refused, given, onward, m, ev
  <2> QED
    BY <1>3, <1>5, <1>13
<1>15. Pi!R(c)' = r /\ j.at <= time
  <2>1. call'[c].report = j.report
    BY <1>3, <1>5 DEF Record
  <2> QED
    BY <2>1, <1>5 DEF Pi!R, CallInv
<1>16. CallInv(c)'
  <2> HIDE DEF got, m, to
  <2>1. CASE ~Pi!GuardHolds(r, ev, m)
    <3>1. call'[c] = refused
      BY <2>1, <1>3, <1>5
    <3>2. j.state = Stations(r)[1] /\ ~(r.counts = r.stages[1] /\ Pi!Cardinality(DOMAIN got) >= r.needs)
      BY <2>1, <1>7, <1>12
    <3> HIDE DEF ev
    <3> QED
      BY <3>1, <3>2, <1>1, <1>2, <1>15 DEF CallInv, Record, Answers
  <2>2. CASE Pi!GuardHolds(r, ev, m) /\ n = Len(r.stages)
    <3>1. call'[c] = given /\ to = "completed"
      BY <2>2, <1>3, <1>5, <1>8
    <3>2. r.counts = r.stages[1] /\ Pi!Cardinality(DOMAIN got) >= r.needs
      BY <2>2, <1>11
    <3> HIDE DEF ev
    <3> QED
      BY <3>1, <3>2, <1>1, <1>2, <1>15 DEF CallInv, Record, Answers
  <2>3. CASE Pi!GuardHolds(r, ev, m) /\ n # Len(r.stages)
    <3>1. call'[c] = onward /\ to = Stations(r)[n + 1]
      BY <2>3, <1>3, <1>5, <1>8
    <3>2. r.counts = r.stages[1] /\ Pi!Cardinality(DOMAIN got) >= r.needs /\ Current(r, got)
      BY <2>3, <1>11
    <3>3. n + 1 \in 1..Len(r.stages) /\ n + 1 # 1
      <4> HIDE DEF n, r
      <4> QED
        BY <2>3, <1>7
    <3>4. /\ call'[c].report = j.report /\ call'[c].state = Stations(r)[n + 1] /\ call'[c].stage = n + 1
          /\ call'[c].rows = got /\ call'[c].answer = None /\ call'[c].at = j.at
      BY <3>1 DEF Record
    <3> HIDE DEF ev, got, n
    <3> QED
      BY <3>2, <3>3, <3>4, <1>1, <1>2, <1>15, <1>b DEF CallInv, Answers
  <2> QED
    BY <2>1, <2>2, <2>3
<1>17. \A b \in Callers : CallInv(b)'
  BY <1>1, <1>14, <1>16, CallsKept
<1>18. cache' \in [Reports -> Entries \cup {None}] /\ \A q \in Reports : EntryInv(q)'
  <2>1. CASE ~(r.cached /\ ev = "delivered") /\ cache' = cache
    BY <2>1, <1>1, <1>5, EntriesKept
  <2>2. CASE /\ r.cached /\ ev = "delivered"
             /\ cache' = [cache EXCEPT ![j.report] = [rows |-> got, until |-> time + ReportTTL]]
    <3> DEFINE entry == [rows |-> got, until |-> time + ReportTTL]
    <3>1. n = Len(r.stages) /\ Pi!GuardHolds(r, ev, m)
      BY <2>2, <1>7, <1>8, <1>12
    <3>2. Current(r, got)
      BY <3>1, <1>11
    <3>3. entry \in Entries
      <4> HIDE DEF got
      <4> QED
        BY <1>5, <1>10 DEF Entries
    <3>4. cache'[j.report] = entry /\ \A q \in Reports \ {j.report} : cache'[q] = cache[q]
      BY <2>2, <1>2, <1>5
    <3>5. cache' \in [Reports -> Entries \cup {None}]
      BY <2>2, <3>3, <1>5
    <3>6. ASSUME NEW q \in Reports, q = j.report PROVE EntryInv(q)'
      <4>1. entry.until = time + ReportTTL /\ entry.rows = got
        OBVIOUS
      <4>2. Pi!Report[q] = r
        BY <3>6 DEF Pi!R
      <4>3. cache'[q] = entry
        BY <3>4, <3>6
      <4> HIDE DEF entry, got
      <4>4. cache'[q].until <= time' + ReportTTL
        BY <4>1, <4>3, <1>1, <1>5
      <4>5. Pi!Rows(Pi!Report[q])' = Pi!Rows(r)
        BY <4>2, <1>a
      <4>6. got = Pi!Rows(r) \/ wrote' = time
        BY <3>2, <1>1 DEF Current
      <4>7. cache'[q].rows = Pi!Rows(Pi!Report[q])' \/ cache'[q].until <= wrote' + ReportTTL
        BY <4>1, <4>3, <4>5, <4>6, <1>5
      <4> QED
        BY <4>4, <4>7 DEF EntryInv
    <3>7. ASSUME NEW q \in Reports, q # j.report PROVE EntryInv(q)'
      BY <3>4, <3>7, <1>1, EntriesKept
    <3> QED
      BY <3>5, <3>6, <3>7
  <2> QED
    BY <1>4, <2>1, <2>2
<1>19. time' \in Nat /\ wrote' \in 0..time' /\ orders' \in [Days -> [live : Nat, cancelled : Nat]]
  BY <1>1 DEF PipesInv
<1> QED
  BY <1>14, <1>17, <1>18, <1>19 DEF PipesInv

LEMMA FailPipes ==
    ASSUME PipesInv, NEW c \in Callers, Pi!StageFails(c)
    PROVE  PipesInv'
<1> USE PipesGiven
<1> DEFINE j == call[c]
           r == Pi!R(c)
           to == Pi!Target(r.fsm, j.state, "fail")
<1>1. /\ UNCHANGED <<orders, cache, wrote, time>> /\ j.stage = 1 /\ j.answer = None
      /\ call' = [call EXCEPT ![c] = [[j EXCEPT !.state = to] EXCEPT !.answer = "error"]]
  <2>1. call \in [Callers -> PipeCalls]
    BY DEF PipesInv
  <2> QED
    BY <2>1 DEF Pi!StageFails, Pi!Done
<1>2. j \in PipeCalls /\ CallInv(c) /\ call \in [Callers -> PipeCalls] /\ time \in Nat
  BY DEF PipesInv
<1>3. j.report \in Reports
  <2>1. j.report \in Reports \cup {None}
    BY <1>2 DEF PipeCalls
  <2> QED
    BY <2>1, <1>1, <1>2 DEF CallInv
<1>4. to = "failed"
  <2>1. Passable(r) /\ j.state = Stations(r)[1]
    BY <1>1, <1>2, <1>3, ReportsPass DEF Pi!R, CallInv
  <2> QED
    BY <2>1 DEF Passable
<1>5. [[j EXCEPT !.state = to] EXCEPT !.answer = "error"] = Record(j.report, "failed", 1, j.count, j.rows, "error", j.at)
  <2> DEFINE y == [j EXCEPT !.state = to]
  <2>1. j = Record(j.report, j.state, 1, j.count, j.rows, None, j.at)
    BY <1>1, <1>2, SameRecord
  <2>2. y = Record(j.report, "failed", 1, j.count, j.rows, None, j.at)
    <3> HIDE DEF j, to
    <3> QED
      BY ONLY <2>1, <1>4 DEF Record
  <2> HIDE DEF y
  <2>3. [y EXCEPT !.answer = "error"] = Record(j.report, "failed", 1, j.count, j.rows, "error", j.at)
    BY ONLY <2>2 DEF Record
  <2> QED
    BY ONLY <2>3 DEF y
<1>6. Record(j.report, "failed", 1, j.count, j.rows, "error", j.at) \in PipeCalls
  <2>1. j.count \in Nat /\ j.rows \in Readings /\ j.at \in Nat
    BY <1>2 DEF PipeCalls
  <2>2. "failed" \in Places /\ "error" \in Answers
    BY DEF Places, Answers
  <2> HIDE DEF j
  <2> QED
    BY <1>3, <2>1, <2>2, MakeRecord
<1>7. call' = [call EXCEPT ![c] = Record(j.report, "failed", 1, j.count, j.rows, "error", j.at)]
  BY ONLY <1>1, <1>5
<1>8. call' \in [Callers -> PipeCalls] /\ \A b \in Callers \ {c} : call'[b] = call[b]
  BY <1>2, <1>6, <1>7
<1>9. /\ call'[c].report = j.report /\ call'[c].state = "failed" /\ call'[c].answer = "error" /\ call'[c].at = j.at
  BY <1>2, <1>7 DEF Record
<1>10. CallInv(c)'
  <2>1. j.at <= time
    BY <1>2 DEF CallInv
  <2> QED
    BY <2>1, <1>1, <1>3, <1>9 DEF CallInv, Answers
<1>11. \A b \in Callers : CallInv(b)'
  BY <1>1, <1>8, <1>10, CallsKept
<1>12. \A q \in Reports : EntryInv(q)'
  BY <1>1, EntriesKept
<1>13. /\ time' \in Nat /\ wrote' \in 0..time' /\ orders' \in [Days -> [live : Nat, cancelled : Nat]]
       /\ cache' \in [Reports -> Entries \cup {None}]
  BY <1>1 DEF PipesInv
<1> QED
  BY <1>8, <1>11, <1>12, <1>13 DEF PipesInv

(* Orders come and go. *)
LEMMA WritePipes ==
    ASSUME PipesInv, NEW d \in Days, Pi!Place(d) \/ Pi!Cancel(d)
    PROVE  PipesInv'
<1>1. UNCHANGED <<cache, call, time>> /\ wrote' = time
  BY DEF Pi!Place, Pi!Cancel
<1>2. time \in Nat /\ orders \in [Days -> [live : Nat, cancelled : Nat]]
  BY DEF PipesInv
<1>3. orders' \in [Days -> [live : Nat, cancelled : Nat]]
  <2>1. CASE Pi!Place(d)
    <3>1. orders' = [orders EXCEPT ![d].live = orders[d].live + 1]
      BY <2>1 DEF Pi!Place
    <3> QED
      BY <3>1, <1>2
  <2>2. CASE Pi!Cancel(d)
    <3>1. orders[d].live > 0 /\ orders' = [orders EXCEPT ![d].live = @ - 1, ![d].cancelled = @ + 1]
      BY <2>2 DEF Pi!Cancel
    <3> QED
      BY <3>1, <1>2
  <2> QED
    BY <2>1, <2>2
<1>4. \A b \in Callers : CallInv(b)'
  BY <1>1, CallsKept, PipesGiven
<1>5. \A q \in Reports : EntryInv(q)'
  BY <1>1, EntriesKept, PipesGiven
<1>6. /\ time' \in Nat /\ wrote' \in 0..time' /\ call' \in [Callers -> PipeCalls]
      /\ cache' \in [Reports -> Entries \cup {None}]
  BY <1>1 DEF PipesInv
<1> QED
  BY <1>3, <1>4, <1>5, <1>6 DEF PipesInv

(* Time passes while nobody is in a call. *)
LEMMA TickPipes ==
    ASSUME PipesInv, Pi!Tick
    PROVE  PipesInv'
<1>1. /\ UNCHANGED <<orders, cache, call, wrote>> /\ time' = time + 1
      /\ \A c \in Callers : call[c].stage > 0 => call[c].answer # None
  BY DEF Pi!Tick, Pi!Done
<1>2. time \in Nat /\ wrote \in 0..time /\ ReportTTL \in Nat
  BY PipesGiven DEF PipesInv
<1>3. ASSUME NEW c \in Callers PROVE CallInv(c)'
  <2>1. CallInv(c) /\ call[c] \in PipeCalls
    BY DEF PipesInv
  <2>2. call[c].at \in Nat /\ call[c].at <= time
    BY <2>1 DEF CallInv, PipeCalls
  <2>3. call[c].at <= time + 1 /\ call[c].at # time + 1
    BY <1>2, <2>2
  <2>4. call[c].answer = None => call[c].report = None
    <3> SUFFICES ASSUME call[c].answer = None, call[c].report # None PROVE FALSE
      OBVIOUS
    <3>1. call[c].stage \in 1..Len(Pi!R(c).stages)
      BY <2>1 DEF CallInv
    <3> QED
      BY <3>1, <1>1
  <2>5. Pi!R(c)' = Pi!R(c)
    BY <1>1 DEF Pi!R
  <2> QED
    BY <1>1, <2>1, <2>3, <2>4, <2>5, PipesGiven DEF CallInv, Answers
<1>4. ASSUME NEW q \in Reports PROVE EntryInv(q)'
  <2> SUFFICES ASSUME cache[q] # None
               PROVE  cache[q].until <= time + 1 + ReportTTL /\ (cache[q].rows = Pi!Rows(Pi!Report[q])' \/ cache[q].until <= wrote + ReportTTL)
    BY <1>1 DEF EntryInv
  <2>1. EntryInv(q) /\ cache[q].until \in Int
    <3>1. cache[q] \in Entries
      BY DEF PipesInv
    <3> QED
      BY <3>1 DEF PipesInv, Entries
  <2>2. Pi!Rows(Pi!Report[q])' = Pi!Rows(Pi!Report[q])
    BY <1>1 DEF Pi!Rows, Pi!Counted
  <2>3. cache[q].until <= time + ReportTTL /\ (cache[q].rows = Pi!Rows(Pi!Report[q]) \/ cache[q].until <= wrote + ReportTTL)
    BY <2>1 DEF EntryInv
  <2>4. cache[q].until <= time + 1 + ReportTTL
    BY <1>2, <2>1, <2>3
  <2> QED
    BY <2>2, <2>3, <2>4
<1>5. /\ time' \in Nat /\ wrote' \in 0..time' /\ orders' \in [Days -> [live : Nat, cancelled : Nat]]
      /\ cache' \in [Reports -> Entries \cup {None}] /\ call' \in [Callers -> PipeCalls]
  BY <1>1, <1>2 DEF PipesInv
<1> QED
  BY <1>3, <1>4, <1>5 DEF PipesInv

LEMMA PipesStep == PipesInv /\ [Pi!Next]_(Pi!pipelines) => PipesInv'
<1> SUFFICES ASSUME PipesInv, [Pi!Next]_(Pi!pipelines) PROVE PipesInv'
  OBVIOUS
<1>1. ASSUME NEW c \in Callers, Pi!Ask(c) \/ Pi!RunStage(c) \/ Pi!StageFails(c) PROVE PipesInv'
  BY <1>1, AskPipes, RunPipes, FailPipes
<1>2. ASSUME NEW d \in Days, Pi!Place(d) \/ Pi!Cancel(d) PROVE PipesInv'
  BY <1>2, WritePipes
<1>3. CASE Pi!Tick
  BY <1>3, TickPipes
<1>4. CASE UNCHANGED Pi!pipelines
  <2>1. UNCHANGED <<orders, cache, call, wrote, time>>
    BY <1>4 DEF Pi!pipelines
  <2>2. \A c \in Callers : CallInv(c)'
    BY <2>1, CallsKept, PipesGiven
  <2>3. \A q \in Reports : EntryInv(q)'
    BY <2>1, EntriesKept, PipesGiven
  <2> QED
    BY <2>1, <2>2, <2>3 DEF PipesInv
<1> QED
  BY <1>1, <1>2, <1>3, <1>4 DEF Pi!Next

(* What is told follows. *)
LEMMA PipesHold == PipesInv => Pi!PipelinesSound
<1> SUFFICES ASSUME PipesInv PROVE Pi!PipelinesSound
  OBVIOUS
<1>1. ASSUME NEW c \in Callers
      PROVE  /\ CallInv(c) /\ call[c] \in PipeCalls /\ call[c].report \in Reports \cup {None}
             /\ call[c].answer \in Answers \cup {None}
             /\ call[c].report # None => Passable(Pi!R(c))
  <2>1. CallInv(c) /\ call[c] \in PipeCalls
    BY DEF PipesInv
  <2>2. call[c].report \in Reports \cup {None} /\ call[c].answer \in Answers \cup {None}
    BY <2>1 DEF PipeCalls
  <2>3. call[c].report # None => Passable(Pi!R(c))
    BY <2>2, ReportsPass DEF Pi!R
  <2> QED
    BY <2>1, <2>2, <2>3
<1>2. ASSUME NEW c \in Callers, call[c].report # None, call[c].answer = None
      PROVE  /\ call[c].stage \in 1..Len(Pi!R(c).stages)
             /\ call[c].state \in Pi!R(c).fsm.states \ {"idle", "completed", "failed"}
  <2>1. call[c].stage \in 1..Len(Pi!R(c).stages) /\ call[c].state = Stations(Pi!R(c))[call[c].stage]
    BY <1>1, <1>2 DEF CallInv
  <2> QED
    BY <1>1, <1>2, <2>1 DEF Passable
<1>3. ASSUME NEW c \in Callers, call[c].answer = "refused"
      PROVE  /\ call[c].state = Stations(Pi!R(c))[1] /\ call[c].report # None
             /\ call[c].state \in Pi!R(c).fsm.states \ {"idle", "completed", "failed"}
             /\ <<call[c].state, Pi!R(c).stages[1]>> \in {<<t[1], t[2]>> : t \in Pi!R(c).fsm.guarded}
  <2>1. call[c].state = Stations(Pi!R(c))[1] /\ call[c].report # None
    BY <1>1, <1>3, PipesGiven DEF CallInv, Answers
  <2>2. Passable(Pi!R(c))
    BY <1>1, <2>1
  <2>3. 1 \in 1..Len(Pi!R(c).stages)
    <3> DEFINE L == Len(Pi!R(c).stages)
    <3>1. L \in Nat \ {0, 1}
      BY ONLY <2>2 DEF Passable
    <3> HIDE DEF L
    <3>2. 1 \in 1..L
      BY ONLY <3>1
    <3> QED
      BY ONLY <3>2 DEF L
  <2> QED
    BY <2>1, <2>2, <2>3 DEF Passable
<1>4. ASSUME NEW c \in Callers PROVE call[c].answer = "report" <=> call[c].state = "completed"
  BY <1>1, <1>2, <1>3, PipesGiven DEF CallInv, Answers
<1>5. ASSUME NEW c \in Callers PROVE call[c].answer = "error" <=> call[c].state = "failed"
  BY <1>1, <1>2, <1>3, PipesGiven DEF CallInv, Answers
<1>6. Pi!AnswersMatchMachine
  BY <1>3, <1>4, <1>5 DEF Pi!AnswersMatchMachine
<1>7. Pi!RefusedExactly
  BY <1>1 DEF Pi!RefusedExactly, CallInv
<1>8. Pi!HitsWithinTTL
  BY <1>1 DEF Pi!HitsWithinTTL, CallInv
<1>9. ASSUME NEW c \in Callers, call[c].report # None PROVE call[c].state \in Pi!R(c).fsm.states
  <2>1. {"idle", "completed", "failed"} \subseteq Pi!R(c).fsm.states
    BY <1>1, <1>9 DEF Passable
  <2> QED
    BY <2>1, <1>1, <1>2, <1>3, <1>9 DEF CallInv, Answers
<1>10. Pi!Types
  <2>1. \A q \in Reports : cache[q] # None => cache[q].until <= time + ReportTTL
    BY DEF PipesInv, EntryInv
  <2>2. \A c \in Callers : call[c].answer \in {None, "hit", "report", "refused", "error"}
    BY <1>1 DEF Answers
  <2> QED
    BY <1>9, <2>1, <2>2 DEF Pi!Types
<1> QED
  BY <1>6, <1>7, <1>8, <1>10 DEF Pi!PipelinesSound

(* A behaviour of the reports steps as Pipelines does. *)
LEMMA PipesRun == part = "pipelines" /\ [Next]_all => part' = "pipelines" /\ [Pi!Next]_(Pi!pipelines)
BY DEF Next, all, Pi!pipelines

(* A caller is told what the machine of his report says: rows of a run that *)
(* completed, the error of one that failed, a refusal of one that its guard *)
(* stopped, which is every report that counts nothing before the guard      *)
(* looks (Analytics.go, forecast.go); and a cached report is at most its    *)
(* lifetime behind the orders, for every number of callers, reports, days,  *)
(* orders and errors. *)
THEOREM ReportsAnswer == Spec => []PipelinesSound
<1> DEFINE Inv == part = "pipelines" => PipesInv
<1>1. Init => Inv
  BY PipesStart DEF Init
<1>2. Inv /\ [Next]_all => Inv'
  <2> SUFFICES ASSUME Inv, [Next]_all, part' = "pipelines" PROVE PipesInv'
    OBVIOUS
  <2>1. part = "pipelines"
    BY DEF Next, all
  <2> QED
    BY <2>1, PipesRun, PipesStep
<1>3. Inv => PipelinesSound
  BY PipesHold DEF PipelinesSound
<1> QED
  BY <1>1, <1>2, <1>3, PTL DEF Spec

-----------------------------------------------------------------------------
(* Menu. *)

MenuSteps == {"idle", "read", "query", "fill", "full", "items", "mods", "prices", "fillFull", "check", "write",
              "forget", "reorder", "commit"}
MenuJob(r, ks, is, at, cat) == [r |-> r, keys |-> ks, is |-> is, at |-> at, cat |-> cat]
ForgetKeys == Me!Keys \cup {<<"category", None>>}

(* A copy of an item names its category. *)
CopyOf(k, is) == k[1] = "item" => is.cat \in Cats

MenuTypes ==
    /\ overlap \in BOOLEAN /\ clean \in BOOLEAN /\ now \in Me!Times
    /\ cats \in [Cats -> {None} \cup Me!CatRows] /\ items \in [Items -> {None} \cup Me!ItemRows] /\ bands \in Seq(Me!Bands)
    /\ redis = [k \in Me!Keys |-> redis[k]]
    /\ \A k \in Me!Keys : redis[k] # None => redis[k].at \in 0..now /\ CopyOf(k, redis[k].is)
    /\ pc \in [Handlers -> MenuSteps] /\ job = [h \in Handlers |-> job[h]]

(* What a request has in hand at a step. *)
Handed(step, j, t) ==
    /\ j = MenuJob(j.r, j.keys, j.is, j.at, j.cat)
    /\ step = "idle" <=> j = Me!NoJob
    /\ step # "idle" => j.r \in Me!Requests
    /\ j.at \in 0..t /\ j.cat \in Cats \cup {None}
    /\ step \in {"read", "query", "fill"} => j.keys \in Seq(Me!Keys) /\ j.keys # <<>>
    /\ step = "fill" => CopyOf(Head(j.keys), j.is)
    /\ step = "forget" => j.keys \in Seq(ForgetKeys) /\ j.keys # <<>>
    /\ step = "check" => j.r.kind \in {"deleteCategory", "deleteItem", "createPricing"}
    /\ step = "write" => j.r.kind \notin {"get", "getFull", "reorder"}
    /\ step \in {"reorder", "commit"} => j.r.kind = "reorder"

(* The bands of an item at a time, and the requests that have found none    *)
(* and are about to insert one, are no more than requests run at once. *)
Covering(i, t) == {n \in DOMAIN bands : bands[n].item = i /\ Me!Covers(bands[n], t)}
Pricing(i, t) ==
    {h \in Handlers : /\ pc[h] = "write" /\ job[h].r.kind = "createPricing"
                      /\ job[h].r.band.item = i /\ Me!Covers(job[h].r.band, t)}
BandsInv == \A i \in Items, t \in Me!Times : Cardinality(Covering(i, t)) + Cardinality(Pricing(i, t)) <= AtOnce

(* Without overlap or error, a copy is what is stored or is about to be     *)
(* forgotten, and so is what a request is about to store. *)
Fresh(k) ==
    /\ k[1] = "price" => redis[k].is # None
    /\ IF k[1] = "category" THEN cats[k[2]] # None /\ redis[k].is.active = cats[k[2]].active
       ELSE redis[k].is = Me!Stored(k, redis[k].at)
Stale(k) == \E h \in Handlers : pc[h] = "forget" /\ k \in {job[h].keys[n] : n \in DOMAIN job[h].keys}
Gathered(h) ==
    LET j == job[h]
    IN /\ pc[h] = "fill" => j.is # None /\ j.is = Me!Stored(Head(j.keys), j.at)
       /\ pc[h] = "items" => j.is = <<Me!ActiveCats>>
       /\ pc[h] = "mods" => j.is = <<Me!ActiveCats, Me!AvailableItems>>
       /\ pc[h] = "prices" => j.is = <<Me!ActiveCats, Me!AvailableItems, mods>>
       /\ pc[h] = "fillFull" => j.is = Me!Stored(Me!Full, j.at)
       /\ pc[h] = "commit" => redis[Me!Full] = None
CopiesInv ==
    ~overlap /\ clean =>
        /\ \A k \in Me!Keys : redis[k] # None => Fresh(k) \/ Stale(k)
        /\ \A h \in Handlers : Gathered(h)

MenuInv ==
    /\ MenuTypes /\ OneAtWork /\ (\A h \in Handlers : Handed(pc[h], job[h], now))
    /\ BandsInv /\ CopiesInv

(* What the assumptions say of the menu. *)
LEMMA SameMenuSize ==
    ASSUME NEW S
    PROVE  Me!Cardinality(S) = Cardinality(S) /\ Me!IsFiniteSet(S) = IsFiniteSet(S)
BY DEF Me!Cardinality, Cardinality, Me!IsFiniteSet, IsFiniteSet

LEMMA MenuGiven ==
    /\ IsFiniteSet(Handlers) /\ IsFiniteSet(Cats) /\ Overlaps \subseteq BOOLEAN
    /\ MaxTime \in Nat \ {0} /\ None \notin Me!Requests \cup Me!CatRows \cup Me!ItemRows
    /\ Me!Cardinality(Cats) \in Nat /\ \A c \in Cats : 1 \in 1..Me!Cardinality(Cats)
<1>1. /\ IsFiniteSet(Handlers) /\ IsFiniteSet(Cats) /\ Overlaps \subseteq BOOLEAN
      /\ MaxTime \in Nat \ {0} /\ None \notin Me!Requests \cup Me!CatRows \cup Me!ItemRows
  BY ServicesAssumption, SameMenuSize DEF Me!MenuAssumption
<1>2. Cardinality(Cats) \in Nat
  BY <1>1, FS_CardinalityType
<1>3. ASSUME NEW c \in Cats PROVE Cardinality(Cats) # 0
  BY <1>1, <1>3, FS_EmptySet
<1>4. Me!Cardinality(Cats) = Cardinality(Cats)
  BY SameMenuSize
<1> QED
  BY <1>1, <1>2, <1>3, <1>4

(* The fields of a request. *)
LEMMA RequestFields ==
    ASSUME NEW r \in Me!Requests
    PROVE  /\ r.kind \in {"get", "getFull", "createCategory", "updateCategory", "deleteCategory", "reorder",
                          "createItem", "updateItem", "availability", "deleteItem", "createPricing",
                          "createModifier", "updateModifier"}
           /\ r.kind = "get" => r.key \in Me!Keys
           /\ r.kind \in {"createCategory", "updateCategory", "deleteCategory", "createItem"} => r.cat \in Cats
           /\ r.kind = "updateCategory" => r.active \in BOOLEAN
           /\ r.kind = "reorder" => r.order \in [Cats -> 1..Me!Cardinality(Cats)]
           /\ r.kind \in {"createItem", "updateItem", "availability", "deleteItem", "createPricing",
                          "createModifier", "updateModifier"} => r.item \in Items
           /\ r.kind \in {"createItem", "updateItem"} => r.base \in BasePrices
           /\ r.kind \in {"updateItem", "availability"} => r.on \in BOOLEAN
           /\ r.kind = "updateItem" => r.cat \in Cats \cup {None}
           /\ r.kind = "createPricing" => r.band \in Me!Bands /\ r.band.item = r.item
<1>1. r \in [kind : {"get"}, key : Me!Keys \ {Me!Full}] \/ r \in [kind : {"getFull"}]
        \/ r \in [kind : {"createCategory"}, cat : Cats]
        \/ r \in [kind : {"updateCategory"}, cat : Cats, active : BOOLEAN]
        \/ r \in [kind : {"deleteCategory"}, cat : Cats]
        \/ r \in [kind : {"reorder"}, order : [Cats -> 1..Me!Cardinality(Cats)]]
        \/ r \in [kind : {"createItem"}, item : Items, cat : Cats, base : BasePrices]
        \/ r \in [kind : {"updateItem"}, item : Items, cat : Cats \cup {None}, base : BasePrices, on : BOOLEAN]
        \/ r \in [kind : {"availability"}, item : Items, on : BOOLEAN]
        \/ r \in [kind : {"deleteItem"}, item : Items]
        \/ (\E b \in Me!Bands : r = [kind |-> "createPricing", item |-> b.item, band |-> b])
        \/ r \in [kind : {"createModifier", "updateModifier"}, item : Items]
  <2> DEFINE Orders == {f \in [Cats -> 1..Me!Cardinality(Cats)] : \A c, d \in Cats : f[c] = f[d] => c = d}
             Real == {c \in Me!Bands : c.to = None \/ c.to >= c.from}
  <2>1. Orders \subseteq [Cats -> 1..Me!Cardinality(Cats)] /\ Real \subseteq Me!Bands
    OBVIOUS
  <2>2. r \in [kind : {"get"}, key : Me!Keys \ {Me!Full}] \/ r \in [kind : {"getFull"}]
        \/ r \in [kind : {"createCategory"}, cat : Cats]
        \/ r \in [kind : {"updateCategory"}, cat : Cats, active : BOOLEAN]
        \/ r \in [kind : {"deleteCategory"}, cat : Cats]
        \/ r \in [kind : {"reorder"}, order : Orders]
        \/ r \in [kind : {"createItem"}, item : Items, cat : Cats, base : BasePrices]
        \/ r \in [kind : {"updateItem"}, item : Items, cat : Cats \cup {None}, base : BasePrices, on : BOOLEAN]
        \/ r \in [kind : {"availability"}, item : Items, on : BOOLEAN]
        \/ r \in [kind : {"deleteItem"}, item : Items]
        \/ r \in {[kind |-> "createPricing", item |-> b.item, band |-> b] : b \in Real}
        \/ r \in [kind : {"createModifier", "updateModifier"}, item : Items]
    BY Zenon DEF Me!Requests, Me!Reads, Me!Writes
  <2>3. r \in [kind : {"reorder"}, order : Orders] => r \in [kind : {"reorder"}, order : [Cats -> 1..Me!Cardinality(Cats)]]
    BY ONLY <2>1
  <2>4. r \in {[kind |-> "createPricing", item |-> b.item, band |-> b] : b \in Real} =>
          \E b \in Me!Bands : r = [kind |-> "createPricing", item |-> b.item, band |-> b]
    BY ONLY <2>1
  <2> HIDE DEF Orders, Real
  <2> QED
    BY ONLY <2>2, <2>3, <2>4
<1>2. CASE r \in [kind : {"get"}, key : Me!Keys \ {Me!Full}] \/ r \in [kind : {"getFull"}]
             \/ r \in [kind : {"createCategory"}, cat : Cats]
             \/ r \in [kind : {"updateCategory"}, cat : Cats, active : BOOLEAN]
             \/ r \in [kind : {"deleteCategory"}, cat : Cats]
             \/ r \in [kind : {"reorder"}, order : [Cats -> 1..Me!Cardinality(Cats)]]
  BY ONLY <1>2
<1>3. CASE r \in [kind : {"createItem"}, item : Items, cat : Cats, base : BasePrices]
             \/ r \in [kind : {"updateItem"}, item : Items, cat : Cats \cup {None}, base : BasePrices, on : BOOLEAN]
             \/ r \in [kind : {"availability"}, item : Items, on : BOOLEAN]
             \/ r \in [kind : {"deleteItem"}, item : Items]
             \/ r \in [kind : {"createModifier", "updateModifier"}, item : Items]
  BY ONLY <1>3
<1>4. CASE \E b \in Me!Bands : r = [kind |-> "createPricing", item |-> b.item, band |-> b]
  <2>1. PICK b \in Me!Bands : r = [kind |-> "createPricing", item |-> b.item, band |-> b]
    BY <1>4
  <2>2. b.item \in Items
    BY DEF Me!Bands
  <2>3. r.kind = "createPricing" /\ r.item = b.item /\ r.band = b
    BY ONLY <2>1
  <2> QED
    BY ONLY <2>2, <2>3, b \in Me!Bands
<1> QED
  BY ONLY <1>1, <1>2, <1>3, <1>4

(* The keys that requests go through. *)
LEMMA RequestKeys ==
    ASSUME NEW r \in Me!Requests
    PROVE  /\ Me!Needs(r) \in Seq(Me!Keys)
           /\ \A cat \in Cats \cup {None} :
                /\ Me!Forgets(r, cat) \in Seq(ForgetKeys)
                /\ r.kind \notin {"get", "getFull", "reorder"} => Me!Forgets(r, cat) # <<>>
<1>0. /\ r.kind = "get" => r.key \in Me!Keys
      /\ r.kind \in {"createCategory", "updateCategory", "deleteCategory", "createItem"} => r.cat \in Cats
      /\ r.kind \in {"createItem", "updateItem", "availability", "deleteItem", "createPricing",
                     "createModifier", "updateModifier"} => r.item \in Items
      /\ r.kind = "updateItem" => r.cat \in Cats \cup {None}
      /\ r.kind \in {"get", "getFull", "createCategory", "updateCategory", "deleteCategory", "reorder",
                          "createItem", "updateItem", "availability", "deleteItem", "createPricing",
                          "createModifier", "updateModifier"}
  BY RequestFields
<1>1. /\ \A c \in Cats : <<"category", c>> \in Me!Keys
      /\ \A i \in Items : <<"item", i>> \in Me!Keys /\ <<"price", i>> \in Me!Keys
      /\ Me!Full \in Me!Keys
  BY DEF Me!Keys, Me!Full
<1>2. /\ \A cat \in Cats \cup {None} : <<"category", cat>> \in ForgetKeys
      /\ Me!Keys \subseteq ForgetKeys
  BY <1>1 DEF ForgetKeys
<1>3. \A k \in Me!Keys : <<k>> \in Seq(Me!Keys)
  OBVIOUS
<1>4. \A k, l \in Me!Keys : <<k>> \o <<l>> \in Seq(Me!Keys) /\ <<k>> \o <<>> \in Seq(Me!Keys)
  OBVIOUS
<1>5. <<>> \in Seq(Me!Keys) /\ <<>> \in Seq(ForgetKeys)
  OBVIOUS
<1>6. \A a, b, c, d \in ForgetKeys :
        /\ <<a, b>> \in Seq(ForgetKeys) /\ <<a, b, c>> \in Seq(ForgetKeys) /\ <<a, b, c, d>> \in Seq(ForgetKeys)
        /\ <<a, b>> # <<>> /\ <<a, b, c>> # <<>> /\ <<a, b, c, d>> # <<>>
  OBVIOUS
<1>7. Me!Needs(r) \in Seq(Me!Keys)
  BY ONLY <1>0, <1>1, <1>3, <1>4, <1>5 DEF Me!Needs
<1>8. ASSUME NEW cat \in Cats \cup {None}
      PROVE  /\ Me!Forgets(r, cat) \in Seq(ForgetKeys)
             /\ r.kind \notin {"get", "getFull", "reorder"} => Me!Forgets(r, cat) # <<>>
  <2>1. <<"category", cat>> \in ForgetKeys /\ Me!Full \in ForgetKeys
    BY <1>1, <1>2, <1>8
  <2>2. CASE r.kind \in {"createCategory", "updateCategory", "deleteCategory"}
    <3>1. Me!Forgets(r, cat) = <<<<"category", r.cat>>, Me!Full>>
      BY ONLY <2>2 DEF Me!Forgets
    <3>2. <<"category", r.cat>> \in ForgetKeys
      BY ONLY <1>0, <1>1, <1>2, <2>2
    <3> QED
      BY ONLY <2>1, <3>1, <3>2, <1>6
  <2>3. CASE r.kind \in {"createItem", "availability", "updateItem", "deleteItem", "createPricing", "createModifier", "updateModifier"}
    <3>1. <<"item", r.item>> \in ForgetKeys /\ <<"price", r.item>> \in ForgetKeys
      BY ONLY <1>0, <1>1, <1>2, <2>3
    <3>2. Me!Forgets(r, cat) \in {<<<<"item", r.item>>, <<"category", cat>>, Me!Full>>,
                              <<<<"item", r.item>>, <<"price", r.item>>, <<"category", cat>>, Me!Full>>,
                              <<<<"price", r.item>>, Me!Full>>, <<<<"item", r.item>>, Me!Full>>}
      BY ONLY <2>3 DEF Me!Forgets
    <3> QED
      BY ONLY <2>1, <3>1, <3>2, <1>6
  <2>4. CASE r.kind \in {"get", "getFull", "reorder"}
    <3>1. Me!Forgets(r, cat) = <<>>
      BY ONLY <2>4 DEF Me!Forgets
    <3> QED
      BY ONLY <2>4, <3>1, <1>5
  <2> QED
    BY ONLY <1>0, <2>2, <2>3, <2>4
<1> QED
  BY <1>7, <1>8

-----------------------------------------------------------------------------
(* What the database would answer changes with its rows only. *)
LEMMA SameAnswers ==
    ASSUME UNCHANGED Me!rows
    PROVE  /\ Me!ActiveCats' = Me!ActiveCats /\ Me!AvailableItems' = Me!AvailableItems
           /\ \A is, t : Me!PricesOf(is, t)' = Me!PricesOf(is, t)
           /\ \A k, t : Me!Stored(k, t)' = Me!Stored(k, t)
<1>1. cats' = cats /\ items' = items /\ mods' = mods /\ bands' = bands
  BY DEF Me!rows
<1>2. Me!ActiveCats' = Me!ActiveCats
  BY <1>1 DEF Me!ActiveCats
<1>3. Me!AvailableItems' = Me!AvailableItems
  BY <1>1 DEF Me!AvailableItems
<1>4. ASSUME NEW is, NEW t PROVE Me!PricesOf(is, t)' = Me!PricesOf(is, t)
  BY <1>1 DEF Me!PricesOf
<1>5. ASSUME NEW k, NEW t PROVE Me!Stored(k, t)' = Me!Stored(k, t)
  BY <1>1, <1>2, <1>3 DEF Me!Stored, Me!PricesOf, Me!BasePrice
<1> QED
  BY <1>2, <1>3, <1>4, <1>5

LEMMA SameFresh ==
    ASSUME UNCHANGED Me!rows, NEW k, redis'[k] = redis[k], Fresh(k)
    PROVE  Fresh(k)'
BY SameAnswers DEF Fresh, Me!rows

(* The time matters to prices and the menu only. *)
LEMMA StampEnough ==
    ASSUME NEW k \in Me!Keys
    PROVE  Me!Stored(k, now) = Me!Stored(k, Me!Stamp(k))
<1>1. k[1] \in {"category", "item", "price", "full"}
  BY DEF Me!Keys
<1>2. CASE k[1] \in {"price", "full"}
  BY <1>2 DEF Me!Stamp
<1>3. CASE k[1] \in {"category", "item"}
  BY <1>3 DEF Me!Stored
<1> QED
  BY <1>1, <1>2, <1>3

-----------------------------------------------------------------------------
(* A request moves. *)
Turn(h, step, j) == pc' = [pc EXCEPT ![h] = step] /\ job' = [job EXCEPT ![h] = j]

LEMMA Turned ==
    ASSUME MenuInv, NEW h \in Handlers, NEW step, NEW j, Turn(h, step, j)
    PROVE  /\ pc'[h] = step /\ job'[h] = j
           /\ \A g \in Handlers \ {h} : pc'[g] = pc[g] /\ job'[g] = job[g]
BY DEF MenuInv, MenuTypes, Turn

LEMMA HandsMoved ==
    ASSUME MenuInv, NEW h \in Handlers, NEW step \in MenuSteps, NEW j, Turn(h, step, j), now' = now,
           Handed(step, j, now)
    PROVE  /\ pc' \in [Handlers -> MenuSteps] /\ job' = [g \in Handlers |-> job'[g]]
           /\ \A g \in Handlers : Handed(pc'[g], job'[g], now')
<1>1. /\ pc' \in [Handlers -> MenuSteps] /\ job' = [g \in Handlers |-> job'[g]]
  BY DEF MenuInv, MenuTypes, Turn
<1>2. \A g \in Handlers : Handed(pc[g], job[g], now)
  BY DEF MenuInv
<1>3. \A g \in Handlers : Handed(pc'[g], job'[g], now)
  BY <1>2, Turned
<1> QED
  BY <1>1, <1>3

LEMMA WorkMoved ==
    ASSUME MenuInv, NEW h \in Handlers, NEW step, NEW j, Turn(h, step, j), overlap' = overlap,
           pc[h] = "idle" => overlap \/ \A g \in Handlers : pc[g] = "idle"
    PROVE  /\ OneAtWork'
           /\ ~overlap => \A g \in Handlers \ {h} : pc[g] = "idle" /\ pc'[g] = "idle"
<1>1. ~overlap => \A g \in Handlers \ {h} : pc[g] = "idle"
  BY DEF MenuInv, OneAtWork
<1>2. \A g \in Handlers \ {h} : pc'[g] = pc[g]
  BY Turned
<1> QED
  BY <1>1, <1>2 DEF OneAtWork

(* Nobody new is about to insert a band. *)
LEMMA BandsMoved ==
    ASSUME MenuInv, NEW h \in Handlers, NEW step, NEW j, Turn(h, step, j), UNCHANGED <<overlap, bands>>,
           step = "write" => j.r.kind # "createPricing"
    PROVE  BandsInv'
<1> SUFFICES ASSUME NEW i \in Items, NEW t \in Me!Times
             PROVE  (Cardinality(Covering(i, t)) + Cardinality(Pricing(i, t)) <= AtOnce)'
  BY DEF BandsInv
<1>1. Covering(i, t)' = Covering(i, t)
  BY DEF Covering
<1>2. Pricing(i, t)' \subseteq Pricing(i, t)
  BY Turned DEF Pricing
<1>3. IsFiniteSet(Pricing(i, t))
  BY MenuGiven, FS_Subset DEF Pricing
<1>4. Cardinality(Pricing(i, t)') <= Cardinality(Pricing(i, t)) /\ Cardinality(Pricing(i, t)') \in Nat
  BY <1>2, <1>3, FS_Subset, FS_CardinalityType
<1>5. Cardinality(Pricing(i, t)) \in Nat
  BY <1>3, FS_CardinalityType
<1>6. Cardinality(Covering(i, t)) \in Nat
  <2>1. bands \in Seq(Me!Bands)
    BY DEF MenuInv, MenuTypes
  <2>2. Covering(i, t) \subseteq 1..Len(bands) /\ Len(bands) \in Nat
    BY <2>1 DEF Covering
  <2>3. IsFiniteSet(1..Len(bands))
    BY ONLY <2>2, FS_Interval
  <2> QED
    BY <2>2, <2>3, FS_Subset, FS_CardinalityType
<1>7. Cardinality(Covering(i, t)) + Cardinality(Pricing(i, t)) <= AtOnce
  BY DEF MenuInv, BandsInv
<1>8. AtOnce' = AtOnce /\ AtOnce \in Nat
  BY MenuGiven, FS_CardinalityType DEF AtOnce
<1> HIDE DEF Covering, Pricing, AtOnce
<1> QED
  BY <1>1, <1>4, <1>5, <1>6, <1>7, <1>8

(* When requests take turns, every copy that its request has left is what   *)
(* is stored. *)
LEMMA AllFresh ==
    ASSUME MenuInv, ~overlap, clean, NEW h \in Handlers,
           pc[h] # "forget", pc[h] # "idle" \/ \A g \in Handlers : pc[g] = "idle"
    PROVE  \A k \in Me!Keys : redis[k] # None => Fresh(k)
<1>1. \A g \in Handlers : pc[g] # "forget"
  BY DEF MenuInv, OneAtWork
<1> QED
  BY <1>1 DEF MenuInv, CopiesInv, Stale

LEMMA CopiesMoved ==
    ASSUME MenuInv, NEW h \in Handlers, NEW step, NEW j, Turn(h, step, j), overlap' = overlap,
           pc[h] = "idle" => overlap \/ \A g \in Handlers : pc[g] = "idle",
           ~overlap /\ clean' => /\ \A k \in Me!Keys : redis'[k] # None => (Fresh(k) \/ Stale(k))'
                                 /\ Gathered(h)'
    PROVE  CopiesInv'
<1> SUFFICES ASSUME ~overlap, clean'
             PROVE  /\ \A k \in Me!Keys : redis'[k] # None => (Fresh(k) \/ Stale(k))'
                    /\ \A g \in Handlers : Gathered(g)'
  BY DEF CopiesInv
<1>1. \A g \in Handlers \ {h} : pc'[g] = "idle"
  BY WorkMoved
<1>2. \A g \in Handlers \ {h} : Gathered(g)'
  BY <1>1 DEF Gathered
<1> QED
  BY <1>2

(* A step that neither stores nor forgets. *)
LEMMA QuietTurn ==
    ASSUME MenuInv, NEW h \in Handlers, NEW step \in {"idle", "read", "query", "full", "check", "reorder", "write"}, NEW j,
           Turn(h, step, j), Handed(step, j, now), (step = "write" => j.r.kind # "createPricing") \/ BandsInv',
           UNCHANGED <<overlap, now, Me!rows, redis>>, clean' \in BOOLEAN, clean' => clean, pc[h] # "forget",
           pc[h] = "idle" => overlap \/ \A g \in Handlers : pc[g] = "idle"
    PROVE  MenuInv'
<1>1. step \in MenuSteps
  BY DEF MenuSteps
<1>2. OneAtWork'
  BY WorkMoved
<1>3. BandsInv'
  BY BandsMoved DEF Me!rows
<1>4. CopiesInv'
  <2> SUFFICES ASSUME ~overlap, clean'
               PROVE  /\ \A k \in Me!Keys : redis'[k] # None => (Fresh(k) \/ Stale(k))'
                      /\ Gathered(h)'
    BY CopiesMoved
  <2>1. \A k \in Me!Keys : redis[k] # None => Fresh(k)
    BY AllFresh
  <2>2. \A k \in Me!Keys : redis'[k] # None => Fresh(k)'
    BY <2>1, SameFresh
  <2>3. Gathered(h)'
    BY Turned DEF Gathered
  <2> QED
    BY <2>2, <2>3
<1>5. MenuTypes'
  BY <1>1, HandsMoved DEF MenuInv, MenuTypes, Me!rows
<1>6. \A g \in Handlers : Handed(pc[g], job[g], now)'
  BY <1>1, HandsMoved
<1> QED
  BY <1>2, <1>3, <1>4, <1>5, <1>6 DEF MenuInv

-----------------------------------------------------------------------------
(* The steps. *)

(* A field of what a request has in hand is set. *)
LEMMA JobSet ==
    ASSUME NEW r, NEW ks, NEW is, NEW at, NEW cat, NEW v
    PROVE  /\ [MenuJob(r, ks, is, at, cat) EXCEPT !.keys = v] = MenuJob(r, v, is, at, cat)
           /\ [MenuJob(r, ks, is, at, cat) EXCEPT !.is = v] = MenuJob(r, ks, v, at, cat)
           /\ [MenuJob(r, ks, is, at, cat) EXCEPT !.at = v] = MenuJob(r, ks, is, v, cat)
           /\ [MenuJob(r, ks, is, at, cat) EXCEPT !.cat = v] = MenuJob(r, ks, is, at, v)
<1>1. [MenuJob(r, ks, is, at, cat) EXCEPT !.keys = v] = MenuJob(r, v, is, at, cat)
  BY ONLY DEF MenuJob
<1>2. [MenuJob(r, ks, is, at, cat) EXCEPT !.is = v] = MenuJob(r, ks, v, at, cat)
  BY ONLY DEF MenuJob
<1>3. [MenuJob(r, ks, is, at, cat) EXCEPT !.at = v] = MenuJob(r, ks, is, v, cat)
  BY ONLY DEF MenuJob
<1>4. [MenuJob(r, ks, is, at, cat) EXCEPT !.cat = v] = MenuJob(r, ks, is, at, v)
  BY ONLY DEF MenuJob
<1> QED
  BY ONLY <1>1, <1>2, <1>3, <1>4

LEMMA JobFields ==
    ASSUME NEW r, NEW ks, NEW is, NEW at, NEW cat
    PROVE  LET j == MenuJob(r, ks, is, at, cat)
           IN j.r = r /\ j.keys = ks /\ j.is = is /\ j.at = at /\ j.cat = cat
BY ONLY DEF MenuJob

LEMMA IdleHanded ==
    ASSUME NEW t \in Nat
    PROVE  Handed("idle", Me!NoJob, t)
<1>1. Me!NoJob = MenuJob(None, <<>>, None, 0, None)
  BY DEF Me!NoJob, MenuJob
<1> HIDE DEF Me!NoJob
<1> QED
  BY <1>1, JobFields DEF Handed

(* A job that is at work is a request's. *)
LEMMA WorkHanded ==
    ASSUME NEW t \in Nat, NEW r \in Me!Requests, NEW ks, NEW is, NEW at \in 0..t, NEW cat \in Cats \cup {None},
           NEW step \in MenuSteps \ {"idle"},
           step \in {"read", "query", "fill"} => ks \in Seq(Me!Keys) /\ ks # <<>>,
           step = "fill" => CopyOf(Head(ks), is),
           step = "forget" => ks \in Seq(ForgetKeys) /\ ks # <<>>,
           step = "check" => r.kind \in {"deleteCategory", "deleteItem", "createPricing"},
           step = "write" => r.kind \notin {"get", "getFull", "reorder"},
           step \in {"reorder", "commit"} => r.kind = "reorder"
    PROVE  Handed(step, MenuJob(r, ks, is, at, cat), t)
<1> DEFINE j == MenuJob(r, ks, is, at, cat)
<1>1. j.r = r /\ j.keys = ks /\ j.is = is /\ j.at = at /\ j.cat = cat
  BY JobFields
<1>2. Me!NoJob.r = None /\ None \notin Me!Requests
  BY MenuGiven DEF Me!NoJob
<1>3. j = MenuJob(j.r, j.keys, j.is, j.at, j.cat)
  BY <1>1
<1>4. j # Me!NoJob
  BY <1>1, <1>2
<1> HIDE DEF j
<1>5. Handed(step, j, t)
  BY <1>1, <1>3, <1>4 DEF Handed
<1> QED
  BY <1>5 DEF j

(* What a request does after its reads. *)
LEMMA ReadOn ==
    ASSUME NEW r \in Me!Requests
    PROVE  /\ Me!AfterReads(r) \in {"idle", "full", "check", "reorder", "write"}
           /\ Me!AfterReads(r) = "check" => r.kind \in {"deleteCategory", "deleteItem", "createPricing"}
           /\ Me!AfterReads(r) = "write" => r.kind \notin {"get", "getFull", "reorder", "createPricing"}
           /\ Me!AfterReads(r) = "reorder" => r.kind = "reorder"
           /\ Me!Needs(r) = <<>> => Me!AfterReads(r) # "idle"
<1>1. Me!Needs(r) = <<>> => r.kind # "get"
  BY DEF Me!Needs
<1> QED
  BY <1>1, RequestFields DEF Me!AfterReads

LEMMA BeginMenu ==
    ASSUME MenuInv, NEW h \in Handlers, NEW r \in Me!Requests, Me!Begin(h, r)
    PROVE  MenuInv'
<1> DEFINE step == IF Me!Needs(r) # <<>> THEN "read" ELSE Me!AfterReads(r)
           j == MenuJob(r, Me!Needs(r), None, 0, None)
<1>1. /\ pc[h] = "idle" /\ (overlap \/ \A g \in Handlers : pc[g] = "idle")
      /\ pc' = [pc EXCEPT ![h] = step]
      /\ job' = [job EXCEPT ![h] = [[Me!NoJob EXCEPT !.r = r] EXCEPT !.keys = Me!Needs(r)]]
      /\ UNCHANGED <<overlap, now, Me!rows, redis, clean>>
  BY DEF Me!Begin, Me!Goto
<1>2. [[Me!NoJob EXCEPT !.r = r] EXCEPT !.keys = Me!Needs(r)] = j
  <2> DEFINE y == [Me!NoJob EXCEPT !.r = r]
  <2>1. y = MenuJob(r, <<>>, None, 0, None)
    BY ONLY DEF Me!NoJob, MenuJob
  <2> HIDE DEF y
  <2>2. [y EXCEPT !.keys = Me!Needs(r)] = j
    BY ONLY <2>1 DEF MenuJob
  <2> QED
    BY ONLY <2>2 DEF y
<1>3. Turn(h, step, j)
  BY ONLY <1>1, <1>2 DEF Turn
<1>4. step \in {"read", "full", "check", "reorder", "write"} /\ (step = "write" => r.kind # "createPricing")
  BY ReadOn
<1>5. now \in Nat /\ 0 \in 0..now /\ clean \in BOOLEAN
  BY MenuGiven DEF MenuInv, MenuTypes, Me!Times
<1>6. Handed(step, j, now)
  <2>1. step \in MenuSteps \ {"idle"}
    BY ONLY <1>4 DEF MenuSteps
  <2>2. step = "read" => Me!Needs(r) \in Seq(Me!Keys) /\ Me!Needs(r) # <<>>
    BY RequestKeys, ReadOn
  <2>3. /\ step = "check" => r.kind \in {"deleteCategory", "deleteItem", "createPricing"}
        /\ step = "write" => r.kind \notin {"get", "getFull", "reorder"}
        /\ step = "reorder" => r.kind = "reorder"
    BY ReadOn
  <2> HIDE DEF step, j
  <2>4. Handed(step, MenuJob(r, Me!Needs(r), None, 0, None), now)
    BY <1>4, <1>5, <2>1, <2>2, <2>3, WorkHanded
  <2> QED
    BY <2>4 DEF j
<1>7. step = "write" => j.r.kind # "createPricing"
  BY <1>4, JobFields
<1> HIDE DEF step, j
<1> QED
  BY <1>1, <1>3, <1>4, <1>5, <1>6, <1>7, QuietTurn

(* What a request has in hand while it works. *)
LEMMA InWork ==
    ASSUME MenuInv, NEW h \in Handlers, pc[h] # "idle"
    PROVE  LET j == job[h]
           IN /\ j = MenuJob(j.r, j.keys, j.is, j.at, j.cat) /\ j.r \in Me!Requests
              /\ j.at \in 0..now /\ j.cat \in Cats \cup {None}
              /\ now \in Nat /\ now \in Me!Times /\ clean \in BOOLEAN /\ overlap \in BOOLEAN
              /\ pc[h] \in {"read", "query", "fill"} => j.keys \in Seq(Me!Keys) /\ j.keys # <<>> /\ Head(j.keys) \in Me!Keys
              /\ Handed(pc[h], j, now)
<1> DEFINE j == job[h]
<1>1. Handed(pc[h], j, now) /\ now \in Me!Times /\ clean \in BOOLEAN /\ overlap \in BOOLEAN
  BY DEF MenuInv, MenuTypes
<1>2. /\ j = MenuJob(j.r, j.keys, j.is, j.at, j.cat) /\ j.r \in Me!Requests
      /\ j.at \in 0..now /\ j.cat \in Cats \cup {None}
      /\ pc[h] \in {"read", "query", "fill"} => j.keys \in Seq(Me!Keys) /\ j.keys # <<>>
  BY <1>1 DEF Handed
<1>3. j.keys \in Seq(Me!Keys) /\ j.keys # <<>> => Head(j.keys) \in Me!Keys
  <2> HIDE DEF j
  <2> QED
    OBVIOUS
<1>4. now \in Nat
  BY <1>1, MenuGiven DEF Me!Times
<1> QED
  BY <1>1, <1>2, <1>3, <1>4

LEMMA FoundTurns ==
    ASSUME MenuInv, NEW h \in Handlers, NEW is, Me!Found(h, is), pc[h] \in {"read", "fill"},
           CopyOf(Head(job[h].keys), is)
    PROVE  \E step \in {"idle", "read", "full", "check", "reorder", "write"} : \E j :
             Turn(h, step, j) /\ Handed(step, j, now) /\ (step = "write" => j.r.kind # "createPricing")
<1> DEFINE j == job[h]
           rest == Tail(j.keys)
           cat == IF Head(j.keys)[1] = "item" THEN is.cat ELSE j.cat
           step == IF rest # <<>> THEN "read" ELSE Me!AfterReads(j.r)
           next == MenuJob(j.r, rest, None, j.at, cat)
<1>1. /\ j = MenuJob(j.r, j.keys, j.is, j.at, j.cat) /\ j.r \in Me!Requests
      /\ j.at \in 0..now /\ j.cat \in Cats \cup {None} /\ now \in Nat
      /\ j.keys \in Seq(Me!Keys) /\ j.keys # <<>>
  BY InWork
<1>2. rest \in Seq(Me!Keys)
  <2> HIDE DEF j
  <2> QED
    BY <1>1
<1>3. cat \in Cats \cup {None}
  BY <1>1 DEF CopyOf
<1>4. step \in {"idle", "read", "full", "check", "reorder", "write"}
      /\ (step # "idle" => step \in MenuSteps \ {"idle"})
  BY <1>1, ReadOn DEF MenuSteps
<1>5. CASE step = "idle"
  <2>1. Turn(h, "idle", Me!NoJob)
    BY <1>5 DEF Me!Found, Me!Return, Me!Goto, Turn
  <2>2. Handed("idle", Me!NoJob, now)
    BY <1>1, IdleHanded
  <2> QED
    BY <2>1, <2>2
<1>6. CASE step # "idle"
  <2>1. [j EXCEPT !.keys = rest, !.cat = cat, !.is = None] = next
    <3> HIDE DEF cat, rest
    <3> DEFINE y == [j EXCEPT !.keys = rest]
               z == [y EXCEPT !.cat = cat]
    <3>1. y = MenuJob(j.r, rest, j.is, j.at, j.cat)
      <4> HIDE DEF j
      <4> QED
        BY ONLY <1>1 DEF MenuJob
    <3> HIDE DEF y
    <3>2. z = MenuJob(j.r, rest, j.is, j.at, cat)
      BY ONLY <3>1 DEF MenuJob
    <3> HIDE DEF z
    <3>3. [z EXCEPT !.is = None] = next
      BY ONLY <3>2 DEF MenuJob
    <3> QED
      BY ONLY <3>3 DEF y, z
  <2>2. Turn(h, step, next)
    <3>1. pc' = [pc EXCEPT ![h] = step] /\ job' = [job EXCEPT ![h] = [j EXCEPT !.keys = rest, !.cat = cat, !.is = None]]
      BY <1>6, Zenon DEF Me!Found, Me!Goto
    <3> HIDE DEF next, step
    <3> QED
      BY ONLY <2>1, <3>1 DEF Turn
  <2>3. Handed(step, next, now)
    <3>1. step = "read" => rest \in Seq(Me!Keys) /\ rest # <<>>
      BY <1>1, <1>2, ReadOn
    <3>2. /\ step = "check" => j.r.kind \in {"deleteCategory", "deleteItem", "createPricing"}
          /\ step = "write" => j.r.kind \notin {"get", "getFull", "reorder"}
          /\ step = "reorder" => j.r.kind = "reorder"
      BY <1>1, ReadOn
    <3> HIDE DEF step, rest, cat, j
    <3> QED
      BY <1>1, <1>3, <1>4, <1>6, <3>1, <3>2, WorkHanded
  <2>4. step = "write" => next.r.kind # "createPricing"
    <3>1. next.r = j.r
      BY JobFields
    <3> QED
      BY <1>1, <3>1, ReadOn
  <2> HIDE DEF step, next
  <2> QED
    BY <1>4, <2>2, <2>3, <2>4
<1> QED
  BY <1>5, <1>6

LEMMA ReadMenu ==
    ASSUME MenuInv, NEW h \in Handlers, Me!ReadRedis(h)
    PROVE  MenuInv'
<1> DEFINE j == job[h]
           k == Head(j.keys)
<1>1. pc[h] = "read" /\ UNCHANGED <<overlap, now, Me!rows, redis, clean>>
  BY DEF Me!ReadRedis
<1>2. /\ j = MenuJob(j.r, j.keys, j.is, j.at, j.cat) /\ j.r \in Me!Requests /\ clean \in BOOLEAN
      /\ j.at \in 0..now /\ j.cat \in Cats \cup {None} /\ now \in Nat
      /\ j.keys \in Seq(Me!Keys) /\ j.keys # <<>> /\ k \in Me!Keys
  BY <1>1, InWork
<1>3. CASE redis[k] # None
  <2>1. Me!Found(h, redis[k].is)
    BY <1>3 DEF Me!ReadRedis
  <2>2. CopyOf(k, redis[k].is)
    BY <1>2, <1>3 DEF MenuInv, MenuTypes
  <2>3. PICK step \in {"idle", "read", "full", "check", "reorder", "write"} : \E n :
          Turn(h, step, n) /\ Handed(step, n, now) /\ (step = "write" => n.r.kind # "createPricing")
    BY <1>1, <2>1, <2>2, FoundTurns
  <2> QED
    BY <1>1, <1>2, <2>3, QuietTurn
<1>4. CASE redis[k] = None
  <2>1. Turn(h, "query", j)
    <3>1. pc' = [pc EXCEPT ![h] = "query"] /\ job' = job
      BY <1>4 DEF Me!ReadRedis, Me!Goto
    <3>2. job = [job EXCEPT ![h] = job[h]]
      <4>1. job = [g \in Handlers |-> job[g]]
        BY DEF MenuInv, MenuTypes
      <4> QED
        BY ONLY <4>1
    <3> QED
      BY <3>1, <3>2 DEF Turn
  <2>2. Handed("query", j, now)
    <3>1. "query" \in MenuSteps \ {"idle"}
      BY DEF MenuSteps
    <3> HIDE DEF j, k
    <3> QED
      BY <1>2, <3>1, WorkHanded
  <2> QED
    BY <1>1, <1>2, <2>1, <2>2, QuietTurn
<1> QED
  BY <1>3, <1>4

LEMMA QueryMenu ==
    ASSUME MenuInv, NEW h \in Handlers, Me!Query(h)
    PROVE  MenuInv'
<1> DEFINE j == job[h]
           k == Head(j.keys)
           is == Me!Stored(k, now)
           next == MenuJob(j.r, j.keys, is, Me!Stamp(k), j.cat)
<1>1. pc[h] = "query" /\ UNCHANGED <<overlap, now, Me!rows, redis, clean>>
  BY DEF Me!Query
<1>2. /\ j = MenuJob(j.r, j.keys, j.is, j.at, j.cat) /\ j.r \in Me!Requests /\ clean \in BOOLEAN
      /\ j.at \in 0..now /\ j.cat \in Cats \cup {None} /\ now \in Nat
      /\ j.keys \in Seq(Me!Keys) /\ j.keys # <<>> /\ k \in Me!Keys
  BY <1>1, InWork
<1>3. CASE is = None
  <2>1. Turn(h, "idle", Me!NoJob)
    BY <1>3 DEF Me!Query, Me!Return, Me!Goto, Turn
  <2>2. Handed("idle", Me!NoJob, now)
    BY <1>2, IdleHanded
  <2> QED
    BY <1>1, <1>2, <2>1, <2>2, QuietTurn
<1>4. CASE is # None
  <2>1. Turn(h, "fill", next)
    <3>1. pc' = [pc EXCEPT ![h] = "fill"] /\ job' = [job EXCEPT ![h].is = is, ![h].at = Me!Stamp(k)]
      BY <1>4, Zenon DEF Me!Query, Me!Goto
    <3>2. [[j EXCEPT !.is = is] EXCEPT !.at = Me!Stamp(k)] = next
      <4> HIDE DEF is, k
      <4> DEFINE y == [j EXCEPT !.is = is]
      <4>1. y = MenuJob(j.r, j.keys, is, j.at, j.cat)
        <5> HIDE DEF j
        <5> QED
          BY ONLY <1>2 DEF MenuJob
      <4> HIDE DEF y
      <4>2. [y EXCEPT !.at = Me!Stamp(k)] = next
        BY ONLY <4>1 DEF MenuJob
      <4> QED
        BY ONLY <4>2 DEF y
    <3>3. job' = [job EXCEPT ![h] = [[j EXCEPT !.is = is] EXCEPT !.at = Me!Stamp(k)]]
      <4>1. job = [g \in Handlers |-> job[g]]
        BY DEF MenuInv, MenuTypes
      <4> HIDE DEF is, k
      <4> QED
        BY <3>1, <4>1
    <3> HIDE DEF next
    <3> QED
      BY ONLY <3>1, <3>2, <3>3 DEF Turn
  <2>2. CopyOf(k, is)
    <3> SUFFICES ASSUME k[1] = "item" PROVE is.cat \in Cats
      BY DEF CopyOf
    <3>1. is = items[k[2]] /\ k[2] \in Items
      BY <1>2 DEF Me!Stored, Me!Keys, Me!Full
    <3> QED
      BY <1>4, <3>1 DEF MenuInv, MenuTypes, Me!ItemRows
  <2>3. Me!Stamp(k) \in 0..now
    BY <1>2 DEF Me!Stamp
  <2>4. Handed("fill", next, now)
    <3>1. "fill" \in MenuSteps \ {"idle"}
      BY DEF MenuSteps
    <3>2. j.keys \in Seq(Me!Keys) /\ j.keys # <<>> /\ CopyOf(Head(j.keys), is)
      BY <1>2, <2>2
    <3> HIDE DEF j, k, is
    <3> QED
      BY <1>2, <2>3, <3>1, <3>2, WorkHanded
  <2>5. OneAtWork' /\ BandsInv'
    BY <1>1, <2>1, WorkMoved, BandsMoved DEF Me!rows
  <2>6. CopiesInv'
    <3> SUFFICES ASSUME ~overlap, clean'
                 PROVE  /\ \A q \in Me!Keys : redis'[q] # None => (Fresh(q) \/ Stale(q))'
                        /\ Gathered(h)'
      BY <1>1, <2>1, CopiesMoved
    <3>1. \A q \in Me!Keys : redis[q] # None => Fresh(q)
      BY <1>1, AllFresh
    <3>2. \A q \in Me!Keys : redis'[q] # None => Fresh(q)'
      BY <1>1, <3>1, SameFresh
    <3>3. pc'[h] = "fill" /\ job'[h] = next
      BY <2>1, Turned
    <3>4. next.is = is /\ next.at = Me!Stamp(k) /\ next.keys = j.keys
      BY JobFields
    <3>5. is = Me!Stored(k, Me!Stamp(k))
      BY <1>2, StampEnough
    <3>6. Gathered(h)'
      <4> HIDE DEF next, is
      <4>1. job'[h].is # None /\ job'[h].is = Me!Stored(Head(job'[h].keys), job'[h].at)
        BY <1>4, <3>3, <3>4, <3>5
      <4>2. \A q, t : Me!Stored(q, t)' = Me!Stored(q, t)
        BY <1>1, SameAnswers
      <4> QED
        BY <3>3, <4>1, <4>2 DEF Gathered
    <3> QED
      BY <3>2, <3>6
  <2>7. MenuTypes' /\ \A g \in Handlers : Handed(pc[g], job[g], now)'
    <3>1. "fill" \in MenuSteps
      BY DEF MenuSteps
    <3> HIDE DEF next
    <3> QED
      BY <1>1, <2>1, <2>4, <3>1, HandsMoved DEF MenuInv, MenuTypes, Me!rows
  <2> QED
    BY <2>5, <2>6, <2>7 DEF MenuInv
<1> QED
  BY <1>3, <1>4

(* A request stores a copy. *)
LEMMA StoreMoved ==
    ASSUME MenuInv, NEW h \in Handlers, NEW step \in {"idle", "read", "full", "check", "reorder", "write"}, NEW j,
           Turn(h, step, j), Handed(step, j, now), step = "write" => j.r.kind # "createPricing",
           UNCHANGED <<overlap, now, Me!rows, clean>>, pc[h] \notin {"idle", "forget"},
           NEW k \in Me!Keys, NEW is, NEW at \in 0..now, CopyOf(k, is),
           redis' = [redis EXCEPT ![k] = [at |-> at, is |-> is]],
           ~overlap /\ clean => is = Me!Stored(k, at) /\ (k # Me!Full => is # None)
    PROVE  MenuInv'
<1>1. step \in MenuSteps
  BY DEF MenuSteps
<1>2. /\ redis' = [q \in Me!Keys |-> redis'[q]] /\ redis'[k].at = at /\ redis'[k].is = is
      /\ \A q \in Me!Keys \ {k} : redis'[q] = redis[q]
  BY DEF MenuInv, MenuTypes
<1>3. OneAtWork' /\ BandsInv'
  BY WorkMoved, BandsMoved DEF Me!rows
<1>4. CopiesInv'
  <2> SUFFICES ASSUME ~overlap, clean'
               PROVE  /\ \A q \in Me!Keys : redis'[q] # None => (Fresh(q) \/ Stale(q))'
                      /\ Gathered(h)'
    BY CopiesMoved
  <2>1. \A q \in Me!Keys : redis[q] # None => Fresh(q)
    BY AllFresh
  <2>2. \A q \in Me!Keys \ {k} : redis'[q] # None => Fresh(q)'
    BY <1>2, <2>1, SameFresh
  <2>3. Fresh(k)'
    <3>1. is = Me!Stored(k, at) /\ (k[1] # "full" => is # None)
      BY DEF Me!Keys, Me!Full
    <3>2. \A q, t : Me!Stored(q, t)' = Me!Stored(q, t)
      BY SameAnswers
    <3>3. k[1] = "category" => is = cats[k[2]] /\ is # None
      BY <3>1 DEF Me!Stored
    <3>4. cats' = cats
      BY DEF Me!rows
    <3> QED
      BY <1>2, <3>1, <3>2, <3>3, <3>4 DEF Fresh
  <2>4. Gathered(h)'
    BY Turned DEF Gathered
  <2> QED
    BY <2>2, <2>3, <2>4
<1>5. \A q \in Me!Keys : redis'[q] # None => redis'[q].at \in 0..now /\ CopyOf(q, redis'[q].is)
  BY <1>2 DEF MenuInv, MenuTypes
<1>6. MenuTypes'
  BY <1>1, <1>2, <1>5, HandsMoved DEF MenuInv, MenuTypes, Me!rows
<1>7. \A g \in Handlers : Handed(pc[g], job[g], now)'
  BY <1>1, HandsMoved
<1> QED
  BY <1>3, <1>4, <1>6, <1>7 DEF MenuInv

LEMMA FillMenu ==
    ASSUME MenuInv, NEW h \in Handlers, Me!Fill(h)
    PROVE  MenuInv'
<1> DEFINE j == job[h]
           k == Head(j.keys)
<1>1. /\ pc[h] = "fill" /\ UNCHANGED <<overlap, now, Me!rows, clean>> /\ Me!Found(h, j.is)
      /\ redis' = [redis EXCEPT ![k] = [at |-> j.at, is |-> j.is]]
  BY DEF Me!Fill
<1>2. k \in Me!Keys /\ j.at \in 0..now /\ CopyOf(k, j.is)
  <2>1. Handed("fill", j, now)
    BY <1>1, InWork
  <2> QED
    BY <1>1, <2>1, InWork DEF Handed
<1>3. ~overlap /\ clean => j.is = Me!Stored(k, j.at) /\ j.is # None
  BY <1>1 DEF MenuInv, CopiesInv, Gathered
<1>4. PICK step \in {"idle", "read", "full", "check", "reorder", "write"} : \E n :
        Turn(h, step, n) /\ Handed(step, n, now) /\ (step = "write" => n.r.kind # "createPricing")
  BY <1>1, <1>2, FoundTurns
<1> HIDE DEF k, j
<1> QED
  BY <1>1, <1>2, <1>3, <1>4, StoreMoved

LEMMA FillFullMenu ==
    ASSUME MenuInv, NEW h \in Handlers, Me!FillFull(h)
    PROVE  MenuInv'
<1> DEFINE j == job[h]
<1>1. /\ pc[h] = "fillFull" /\ UNCHANGED <<overlap, now, Me!rows, clean>> /\ Turn(h, "idle", Me!NoJob)
      /\ redis' = [redis EXCEPT ![Me!Full] = [at |-> j.at, is |-> j.is]]
  BY DEF Me!FillFull, Me!Return, Me!Goto, Turn
<1>2. j.at \in 0..now /\ now \in Nat
  BY <1>1, InWork
<1>3. Me!Full \in Me!Keys /\ CopyOf(Me!Full, j.is)
  BY DEF Me!Keys, Me!Full, CopyOf
<1>4. ~overlap /\ clean => j.is = Me!Stored(Me!Full, j.at)
  BY <1>1 DEF MenuInv, CopiesInv, Gathered
<1>5. Handed("idle", Me!NoJob, now)
  BY <1>2, IdleHanded
<1> HIDE DEF j
<1> QED
  BY <1>1, <1>2, <1>3, <1>4, <1>5, StoreMoved

(* GetFullMenu gathers what it assembles. *)
LEMMA GatherMoved ==
    ASSUME MenuInv, NEW h \in Handlers, NEW step \in {"items", "mods", "prices", "fillFull"}, NEW is, NEW at \in 0..now,
           Turn(h, step, MenuJob(job[h].r, job[h].keys, is, at, job[h].cat)),
           UNCHANGED <<overlap, now, Me!rows, redis>>, clean' \in BOOLEAN, clean' => clean, pc[h] \notin {"idle", "forget"},
           ~overlap /\ clean' => /\ step = "items" => is = <<Me!ActiveCats>>
                                 /\ step = "mods" => is = <<Me!ActiveCats, Me!AvailableItems>>
                                 /\ step = "prices" => is = <<Me!ActiveCats, Me!AvailableItems, mods>>
                                 /\ step = "fillFull" => is = Me!Stored(Me!Full, at)
    PROVE  MenuInv'
<1> DEFINE j == job[h]
           next == MenuJob(j.r, j.keys, is, at, j.cat)
<1>0. step \in MenuSteps \ {"idle"}
  BY DEF MenuSteps
<1>1. Handed(step, next, now) /\ Turn(h, step, next) /\ next.is = is /\ next.at = at
  <2>1. j.r \in Me!Requests /\ j.cat \in Cats \cup {None} /\ now \in Nat
    BY InWork
  <2> HIDE DEF j
  <2>2. Handed(step, next, now)
    BY <1>0, <2>1, WorkHanded
  <2>3. next.is = is /\ next.at = at
    BY JobFields
  <2>4. Turn(h, step, next)
    BY DEF j
  <2> QED
    BY <2>2, <2>3, <2>4
<1> HIDE DEF next
<1>2. OneAtWork' /\ BandsInv'
  BY <1>1, WorkMoved, BandsMoved DEF Me!rows
<1>3. CopiesInv'
  <2> SUFFICES ASSUME ~overlap, clean'
               PROVE  /\ \A q \in Me!Keys : redis'[q] # None => (Fresh(q) \/ Stale(q))'
                      /\ Gathered(h)'
    BY <1>1, CopiesMoved
  <2>1. \A q \in Me!Keys : redis[q] # None => Fresh(q)
    BY AllFresh
  <2>2. \A q \in Me!Keys : redis'[q] # None => Fresh(q)'
    BY <2>1, SameFresh
  <2>3. pc'[h] = step /\ job'[h] = next
    BY <1>1, Turned
  <2>4. mods' = mods /\ Me!ActiveCats' = Me!ActiveCats /\ Me!AvailableItems' = Me!AvailableItems
    BY SameAnswers DEF Me!rows
  <2>5. \A q, t : Me!Stored(q, t)' = Me!Stored(q, t)
    BY SameAnswers
  <2>6. Gathered(h)'
    BY <1>1, <2>3, <2>4, <2>5 DEF Gathered
  <2> QED
    BY <2>2, <2>6
<1>4. MenuTypes'
  BY <1>0, <1>1, HandsMoved DEF MenuInv, MenuTypes, Me!rows
<1>5. \A g \in Handlers : Handed(pc[g], job[g], now)'
  BY <1>0, <1>1, HandsMoved
<1> QED
  BY <1>2, <1>3, <1>4, <1>5 DEF MenuInv

(* What is in hand is set. *)
LEMMA SetInHand ==
    ASSUME MenuInv, NEW h \in Handlers, pc[h] # "idle", NEW is, NEW at, job' = [job EXCEPT ![h].is = is, ![h].at = at]
    PROVE  job' = [job EXCEPT ![h] = MenuJob(job[h].r, job[h].keys, is, at, job[h].cat)]
<1> DEFINE j == job[h]
           y == [j EXCEPT !.is = is]
<1>1. j = MenuJob(j.r, j.keys, j.is, j.at, j.cat)
  BY InWork
<1>2. job = [g \in Handlers |-> job[g]]
  BY DEF MenuInv, MenuTypes
<1>3. job' = [job EXCEPT ![h] = [y EXCEPT !.at = at]]
  BY <1>2
<1>4. y = MenuJob(j.r, j.keys, is, j.at, j.cat)
  <2> HIDE DEF j
  <2> QED
    BY ONLY <1>1 DEF MenuJob
<1> HIDE DEF y
<1>5. [y EXCEPT !.at = at] = MenuJob(j.r, j.keys, is, at, j.cat)
  BY ONLY <1>4 DEF MenuJob
<1> QED
  BY <1>3, <1>5

LEMMA SetOnlyIs ==
    ASSUME MenuInv, NEW h \in Handlers, pc[h] # "idle", NEW is, job' = [job EXCEPT ![h].is = is]
    PROVE  job' = [job EXCEPT ![h] = MenuJob(job[h].r, job[h].keys, is, job[h].at, job[h].cat)]
<1> DEFINE j == job[h]
           y == [j EXCEPT !.is = is]
<1>1. j = MenuJob(j.r, j.keys, j.is, j.at, j.cat)
  BY InWork
<1>2. job' = [job EXCEPT ![h] = y]
  OBVIOUS
<1>3. y = MenuJob(j.r, j.keys, is, j.at, j.cat)
  <2> HIDE DEF j
  <2> QED
    BY ONLY <1>1 DEF MenuJob
<1> QED
  BY <1>2, <1>3

LEMMA ReadFullMenu ==
    ASSUME MenuInv, NEW h \in Handlers, Me!ReadFull(h)
    PROVE  MenuInv'
<1>1. pc[h] = "full" /\ UNCHANGED <<overlap, now, Me!rows, redis, clean>>
  BY DEF Me!ReadFull
<1>2. clean \in BOOLEAN /\ now \in Nat /\ job[h].at \in 0..now
  BY <1>1, InWork
<1>3. CASE redis[Me!Full] # None
  <2>1. Turn(h, "idle", Me!NoJob)
    BY <1>3 DEF Me!ReadFull, Me!Return, Me!Goto, Turn
  <2>2. Handed("idle", Me!NoJob, now)
    BY <1>2, IdleHanded
  <2> QED
    BY <1>1, <1>2, <2>1, <2>2, QuietTurn
<1>4. CASE redis[Me!Full] = None
  <2>1. pc' = [pc EXCEPT ![h] = "items"] /\ job' = [job EXCEPT ![h].is = <<Me!ActiveCats>>]
    BY <1>4 DEF Me!ReadFull, Me!Goto
  <2>2. Turn(h, "items", MenuJob(job[h].r, job[h].keys, <<Me!ActiveCats>>, job[h].at, job[h].cat))
    BY <1>1, <2>1, SetOnlyIs DEF Turn
  <2> QED
    BY <1>1, <1>2, <2>2, GatherMoved
<1> QED
  BY <1>3, <1>4

(* Sequences of the same entries are the same. *)
LEMMA SameEntries ==
    ASSUME NEW S, NEW p \in Seq(S), NEW q \in Seq(S), Len(p) = Len(q), \A n \in 1..Len(p) : p[n] = q[n]
    PROVE  p = q
<1>1. p = [n \in 1..Len(p) |-> p[n]] /\ q = [n \in 1..Len(q) |-> q[n]]
  OBVIOUS
<1> QED
  BY <1>1, Zenon

(* What has been gathered so far. *)
LEMMA Appended ==
    ASSUME NEW a, NEW b, NEW c
    PROVE  Append(<<a>>, b) = <<a, b>> /\ Append(<<a, b>>, c) = <<a, b, c>>
<1> DEFINE S == {a, b, c}
<1>1. ASSUME NEW s \in Seq(S), NEW x \in S
      PROVE  /\ Append(s, x) \in Seq(S) /\ Len(Append(s, x)) = Len(s) + 1
             /\ \A n \in 1..Len(s) : Append(s, x)[n] = s[n]
             /\ Append(s, x)[Len(s) + 1] = x
  OBVIOUS
<1>2. a \in S /\ b \in S /\ c \in S
  OBVIOUS
<1>3. <<a>> \in Seq(S) /\ <<a, b>> \in Seq(S) /\ <<a, b, c>> \in Seq(S)
  OBVIOUS
<1>4. /\ Len(<<a>>) = 1 /\ Len(<<a, b>>) = 2 /\ Len(<<a, b, c>>) = 3
      /\ <<a>>[1] = a /\ <<a, b>>[1] = a /\ <<a, b>>[2] = b
      /\ <<a, b, c>>[1] = a /\ <<a, b, c>>[2] = b /\ <<a, b, c>>[3] = c
  OBVIOUS
<1> HIDE DEF S
<1>5. Append(<<a>>, b) = <<a, b>>
  <2> DEFINE p == Append(<<a>>, b)
             q == <<a, b>>
  <2>1. p \in Seq(S) /\ Len(p) = 2 /\ p[1] = a /\ p[2] = b
    BY ONLY <1>1, <1>2, <1>3, <1>4
  <2>2. q \in Seq(S) /\ Len(q) = 2 /\ q[1] = a /\ q[2] = b
    BY ONLY <1>3, <1>4
  <2> HIDE DEF p, q
  <2>3. Len(p) = Len(q) /\ \A n \in 1..Len(p) : p[n] = q[n]
    BY ONLY <2>1, <2>2
  <2>4. p = q
    BY ONLY <2>1, <2>2, <2>3, SameEntries
  <2> QED
    BY <2>4 DEF p, q
<1>6. Append(<<a, b>>, c) = <<a, b, c>>
  <2> DEFINE p == Append(<<a, b>>, c)
             q == <<a, b, c>>
  <2>1. p \in Seq(S) /\ Len(p) = 3 /\ p[1] = a /\ p[2] = b /\ p[3] = c
    BY ONLY <1>1, <1>2, <1>3, <1>4
  <2>2. q \in Seq(S) /\ Len(q) = 3 /\ q[1] = a /\ q[2] = b /\ q[3] = c
    BY ONLY <1>3, <1>4
  <2> HIDE DEF p, q
  <2>3. Len(p) = Len(q) /\ \A n \in 1..Len(p) : p[n] = q[n]
    BY ONLY <2>1, <2>2
  <2>4. p = q
    BY ONLY <2>1, <2>2, <2>3, SameEntries
  <2> QED
    BY <2>4 DEF p, q
<1> QED
  BY ONLY <1>5, <1>6

LEMMA LoadMenu ==
    ASSUME MenuInv, NEW h \in Handlers, Me!LoadItems(h) \/ Me!LoadModifiers(h)
    PROVE  MenuInv'
<1> DEFINE j == job[h]
<1>1. /\ pc[h] \in {"items", "mods"} /\ UNCHANGED <<overlap, now, Me!rows, redis, clean>>
      /\ \/ /\ pc[h] = "items" /\ pc' = [pc EXCEPT ![h] = "mods"]
            /\ job' = [job EXCEPT ![h].is = Append(j.is, Me!AvailableItems)]
         \/ /\ pc[h] = "mods" /\ pc' = [pc EXCEPT ![h] = "prices"]
            /\ job' = [job EXCEPT ![h].is = Append(j.is, mods)]
  BY DEF Me!LoadItems, Me!LoadModifiers, Me!Goto
<1>2. clean \in BOOLEAN /\ now \in Nat /\ j.at \in 0..now
  BY <1>1, InWork
<1>3. ~overlap /\ clean => /\ pc[h] = "items" => j.is = <<Me!ActiveCats>>
                           /\ pc[h] = "mods" => j.is = <<Me!ActiveCats, Me!AvailableItems>>
  BY DEF MenuInv, CopiesInv, Gathered
<1>4. CASE pc[h] = "items"
  <2>1. Turn(h, "mods", MenuJob(j.r, j.keys, Append(j.is, Me!AvailableItems), j.at, j.cat))
    BY <1>1, <1>4, SetOnlyIs DEF Turn
  <2>2. ~overlap /\ clean' => Append(j.is, Me!AvailableItems) = <<Me!ActiveCats, Me!AvailableItems>>
    <3>1. Append(<<Me!ActiveCats>>, Me!AvailableItems) = <<Me!ActiveCats, Me!AvailableItems>>
      BY Appended
    <3> QED
      BY <1>1, <1>3, <1>4, <3>1
  <2> QED
    BY <1>1, <1>2, <2>1, <2>2, GatherMoved
<1>5. CASE pc[h] = "mods"
  <2>1. Turn(h, "prices", MenuJob(j.r, j.keys, Append(j.is, mods), j.at, j.cat))
    BY <1>1, <1>5, SetOnlyIs DEF Turn
  <2>2. ~overlap /\ clean' => Append(j.is, mods) = <<Me!ActiveCats, Me!AvailableItems, mods>>
    <3>1. Append(<<Me!ActiveCats, Me!AvailableItems>>, mods) = <<Me!ActiveCats, Me!AvailableItems, mods>>
      BY Appended
    <3> QED
      BY <1>1, <1>3, <1>5, <3>1
  <2> QED
    BY <1>1, <1>2, <2>1, <2>2, GatherMoved
<1> QED
  BY <1>1, <1>4, <1>5

LEMMA PricesMenu ==
    ASSUME MenuInv, NEW h \in Handlers, Me!LoadPrices(h)
    PROVE  MenuInv'
<1> DEFINE j == job[h]
           Prices(fails) == IF fails THEN Me!BasePricesOf(j.is[2]) ELSE Me!PricesOf(j.is[2], now)
           Is(fails) == Me!Assemble(j.is[1], j.is[2], j.is[3], Prices(fails))
<1>1. pc[h] = "prices" /\ UNCHANGED <<overlap, now, Me!rows, redis>> /\ pc' = [pc EXCEPT ![h] = "fillFull"]
  BY DEF Me!LoadPrices, Me!Goto
<1>2. PICK fails \in BOOLEAN :
        clean' = (clean /\ ~fails) /\ job' = [job EXCEPT ![h].is = Is(fails), ![h].at = now]
  BY DEF Me!LoadPrices
<1>3. clean \in BOOLEAN /\ now \in Nat /\ now \in 0..now
  BY <1>1, InWork
<1>4. clean' \in BOOLEAN /\ (clean' => clean /\ ~fails)
  BY <1>2, <1>3
<1>5. Turn(h, "fillFull", MenuJob(j.r, j.keys, Is(fails), now, j.cat))
  <2> HIDE DEF Is
  <2> QED
    BY <1>1, <1>2, SetInHand DEF Turn
<1>6. ~overlap /\ clean' => Is(fails) = Me!Stored(Me!Full, now)
  <2> SUFFICES ASSUME ~overlap, clean' PROVE Is(fails) = Me!Stored(Me!Full, now)
    OBVIOUS
  <2>1. j.is = <<Me!ActiveCats, Me!AvailableItems, mods>>
    BY <1>1, <1>4 DEF MenuInv, CopiesInv, Gathered
  <2>2. Prices(fails) = Me!PricesOf(Me!AvailableItems, now)
    <3> HIDE DEF j
    <3> QED
      BY <1>4, <2>1
  <2>3. Is(fails) = Me!Assemble(Me!ActiveCats, Me!AvailableItems, mods, Me!PricesOf(Me!AvailableItems, now))
    <3> HIDE DEF Prices, j
    <3> QED
      BY <2>1, <2>2
  <2>4. Me!Full[1] = "full"
    BY DEF Me!Full
  <2>5. Me!Stored(Me!Full, now) = Me!Assemble(Me!ActiveCats, Me!AvailableItems, mods, Me!PricesOf(Me!AvailableItems, now))
    BY ONLY <2>4 DEF Me!Stored
  <2> QED
    BY ONLY <2>3, <2>5
<1> HIDE DEF Is
<1> QED
  BY <1>1, <1>3, <1>4, <1>5, <1>6, GatherMoved

(* A band that conflicts with none covers no time that another one covers. *)
LEMMA NoneCovers ==
    ASSUME MenuInv, NEW new \in Me!Bands, \A b \in Me!Range(bands) : ~Me!Conflicts(new, b),
           NEW t \in Me!Times, Me!Covers(new, t)
    PROVE  Covering(new.item, t) = {}
<1> SUFFICES ASSUME NEW n \in DOMAIN bands, bands[n].item = new.item, Me!Covers(bands[n], t)
             PROVE  FALSE
  BY DEF Covering
<1> DEFINE b == bands[n]
<1>1. b \in Me!Range(bands) /\ b \in Me!Bands
  BY DEF MenuInv, MenuTypes, Me!Range
<1>2. /\ b.from \in Int /\ new.from \in Int /\ t \in Int
      /\ b.to # None => b.to \in Int
      /\ new.to # None => new.to \in Int
  BY <1>1, MenuGiven DEF Me!Bands, Me!Times
<1>3. ~Me!Conflicts(new, b) /\ b.item = new.item /\ Me!Covers(b, t)
  BY <1>1
<1> HIDE DEF b
<1> QED
  BY <1>2, <1>3 DEF Me!Conflicts, Me!Covers

(* The overlap check: whoever is about to insert a band has found none. *)
LEMMA CheckMenu ==
    ASSUME MenuInv, NEW h \in Handlers, Me!Check(h)
    PROVE  MenuInv'
<1> DEFINE j == job[h]
           r == j.r
<1>1. pc[h] = "check" /\ UNCHANGED <<overlap, now, Me!rows, redis, clean>>
  BY DEF Me!Check
<1>2. /\ j = MenuJob(j.r, j.keys, j.is, j.at, j.cat) /\ j.r \in Me!Requests /\ clean \in BOOLEAN
      /\ j.at \in 0..now /\ j.cat \in Cats \cup {None} /\ now \in Nat
      /\ r.kind \in {"deleteCategory", "deleteItem", "createPricing"}
  <2>1. Handed("check", j, now)
    BY <1>1, InWork
  <2> QED
    BY <1>1, <2>1, InWork DEF Handed
<1>3. CASE Me!Return(h)
  <2>1. Turn(h, "idle", Me!NoJob)
    BY <1>3 DEF Me!Return, Me!Goto, Turn
  <2>2. Handed("idle", Me!NoJob, now)
    BY <1>2, IdleHanded
  <2> QED
    BY <1>1, <1>2, <2>1, <2>2, QuietTurn
<1>4. CASE ~Me!Blocked(r) /\ Me!Goto(h, "write") /\ UNCHANGED job
  <2>1. Turn(h, "write", j)
    <3>1. job = [job EXCEPT ![h] = job[h]]
      <4>1. job = [g \in Handlers |-> job[g]]
        BY DEF MenuInv, MenuTypes
      <4> QED
        BY ONLY <4>1
    <3> QED
      BY <1>4, <3>1 DEF Turn, Me!Goto
  <2>2. Handed("write", j, now)
    <3>1. "write" \in MenuSteps \ {"idle"}
      BY DEF MenuSteps
    <3> HIDE DEF j
    <3> QED
      BY <1>2, <3>1, WorkHanded
  <2>3. CASE r.kind # "createPricing"
    BY <1>1, <1>2, <2>1, <2>2, <2>3, QuietTurn
  <2>4. CASE r.kind = "createPricing"
    <3>1. r.band \in Me!Bands
      BY <1>2, <2>4, RequestFields
    <3>2. \A b \in Me!Range(bands) : ~Me!Conflicts(r.band, b)
      BY <1>4, <2>4 DEF Me!Blocked
    <3>3. OneAtWork'
      BY <1>1, <2>1, WorkMoved
    <3>4. \A g \in Handlers \ {h} : pc'[g] = pc[g] /\ job'[g] = job[g]
      BY <2>1, Turned
    <3>5. pc'[h] = "write" /\ job'[h] = j
      BY <2>1, Turned
    <3>6. ASSUME NEW i \in Items, NEW t \in Me!Times
          PROVE  (Cardinality(Covering(i, t)) + Cardinality(Pricing(i, t)) <= AtOnce)'
      <4>1. Covering(i, t)' = Covering(i, t) /\ AtOnce' = AtOnce
        BY <1>1 DEF Covering, AtOnce, Me!rows
      <4>2. CASE r.band.item = i /\ Me!Covers(r.band, t)
        <5>1. Covering(i, t) = {}
          BY <3>1, <3>2, <4>2, NoneCovers
        <5>2. Pricing(i, t)' \subseteq Handlers /\ (~overlap => Pricing(i, t)' \subseteq {h})
          BY <1>1, <3>3, <3>5 DEF Pricing, OneAtWork
        <5>3. IsFiniteSet(Handlers) /\ IsFiniteSet({h}) /\ Cardinality({h}) = 1 /\ Cardinality({}) = 0
          BY MenuGiven, FS_Singleton, FS_EmptySet
        <5>4. Cardinality(Pricing(i, t)') \in Nat /\ Cardinality(Pricing(i, t)') <= AtOnce
          BY <5>2, <5>3, FS_Subset, FS_CardinalityType DEF AtOnce
        <5> HIDE DEF AtOnce, Covering, Pricing
        <5> QED
          BY <4>1, <5>1, <5>3, <5>4
      <4>3. CASE ~(r.band.item = i /\ Me!Covers(r.band, t))
        <5>1. Pricing(i, t)' = Pricing(i, t)
          BY <1>1, <3>4, <3>5, <4>3 DEF Pricing
        <5>2. Cardinality(Covering(i, t)) + Cardinality(Pricing(i, t)) <= AtOnce
          BY DEF MenuInv, BandsInv
        <5> QED
          BY <4>1, <5>1, <5>2
      <4> QED
        BY <4>2, <4>3
    <3>7. BandsInv'
      BY <3>6 DEF BandsInv
    <3> QED
      BY <1>1, <1>2, <2>1, <2>2, <3>7, QuietTurn
  <2> QED
    BY <2>3, <2>4
<1> QED
  BY <1>3, <1>4 DEF Me!Check

(* The copies that a change forgets. *)
Forgotten(r, cat) == {Me!Forgets(r, cat)[n] : n \in DOMAIN Me!Forgets(r, cat)}

LEMMA ForgottenKeys ==
    ASSUME NEW r \in Me!Requests, NEW cat
    PROVE  /\ r.kind \notin {"get", "getFull", "reorder"} => Me!Full \in Forgotten(r, cat)
           /\ r.kind \in {"createCategory", "updateCategory", "deleteCategory"} =>
                <<"category", r.cat>> \in Forgotten(r, cat)
           /\ r.kind \in {"createItem", "updateItem", "availability", "deleteItem"} =>
                <<"item", r.item>> \in Forgotten(r, cat)
           /\ r.kind \in {"updateItem", "deleteItem", "createPricing"} => <<"price", r.item>> \in Forgotten(r, cat)
<1> DEFINE EntriesOf(s) == {s[n] : n \in DOMAIN s}
<1>1. \A a, b : EntriesOf(<<a, b>>) = {a, b}
  OBVIOUS
<1>2. \A a, b, c : EntriesOf(<<a, b, c>>) = {a, b, c}
  OBVIOUS
<1>3. \A a, b, c, d : EntriesOf(<<a, b, c, d>>) = {a, b, c, d}
  OBVIOUS
<1>4. Forgotten(r, cat) = EntriesOf(Me!Forgets(r, cat))
  BY DEF Forgotten
<1> HIDE DEF EntriesOf
<1>5. CASE r.kind \in {"createCategory", "updateCategory", "deleteCategory"}
  <2>1. Me!Forgets(r, cat) = <<<<"category", r.cat>>, Me!Full>>
    BY <1>5 DEF Me!Forgets
  <2> QED
    BY ONLY <1>1, <1>4, <1>5, <2>1
<1>6. CASE r.kind \in {"createItem", "availability"}
  <2>1. Me!Forgets(r, cat) = <<<<"item", r.item>>, <<"category", cat>>, Me!Full>>
    BY <1>6 DEF Me!Forgets
  <2> QED
    BY ONLY <1>2, <1>4, <1>6, <2>1
<1>7. CASE r.kind \in {"updateItem", "deleteItem"}
  <2>1. Me!Forgets(r, cat) = <<<<"item", r.item>>, <<"price", r.item>>, <<"category", cat>>, Me!Full>>
    BY <1>7 DEF Me!Forgets
  <2> QED
    BY ONLY <1>3, <1>4, <1>7, <2>1
<1>8. CASE r.kind = "createPricing"
  <2>1. Me!Forgets(r, cat) = <<<<"price", r.item>>, Me!Full>>
    BY <1>8 DEF Me!Forgets
  <2> QED
    BY ONLY <1>1, <1>4, <1>8, <2>1
<1>9. CASE r.kind \in {"createModifier", "updateModifier"}
  <2>1. Me!Forgets(r, cat) = <<<<"item", r.item>>, Me!Full>>
    BY <1>9 DEF Me!Forgets
  <2> QED
    BY ONLY <1>1, <1>4, <1>9, <2>1
<1>10. r.kind \in {"get", "getFull", "createCategory", "updateCategory", "deleteCategory", "reorder", "createItem",
                   "updateItem", "availability", "deleteItem", "createPricing", "createModifier", "updateModifier"}
  BY RequestFields
<1> QED
  BY ONLY <1>5, <1>6, <1>7, <1>8, <1>9, <1>10

(* What a change leaves alone. *)
LEMMA ChangedCategory ==
    ASSUME MenuInv, NEW r \in Me!Requests, Me!ChangeOf(r), r.kind \in {"createCategory", "updateCategory", "deleteCategory"}
    PROVE  /\ cats' \in [Cats -> {None} \cup Me!CatRows] /\ UNCHANGED <<items, mods, bands>>
           /\ \A c \in Cats : c # r.cat => cats'[c] = cats[c]
<1>1. r.cat \in Cats /\ (r.kind = "updateCategory" => r.active \in BOOLEAN)
  BY RequestFields
<1>2. cats \in [Cats -> {None} \cup Me!CatRows]
  BY DEF MenuInv, MenuTypes
<1>3. 1 \in 1..Me!Cardinality(Cats)
  BY <1>1, MenuGiven
<1>4. CASE r.kind = "createCategory"
  <2>1. cats' = [cats EXCEPT ![r.cat] = [active |-> TRUE, order |-> 1]] /\ UNCHANGED <<items, mods, bands>>
    BY <1>4 DEF Me!ChangeOf
  <2>2. [active |-> TRUE, order |-> 1] \in Me!CatRows
    BY <1>3 DEF Me!CatRows
  <2> QED
    BY ONLY <1>1, <1>2, <2>1, <2>2
<1>5. CASE r.kind = "updateCategory"
  <2> DEFINE row == IF cats[r.cat] = None THEN None ELSE [cats[r.cat] EXCEPT !.active = r.active]
  <2>1. cats' = [cats EXCEPT ![r.cat] = row] /\ UNCHANGED <<items, mods, bands>>
    BY <1>5 DEF Me!ChangeOf
  <2>2. row \in {None} \cup Me!CatRows
    BY <1>1, <1>2, <1>5 DEF Me!CatRows
  <2> HIDE DEF row
  <2> QED
    BY ONLY <1>1, <1>2, <2>1, <2>2
<1>6. CASE r.kind = "deleteCategory"
  <2>1. cats' = [cats EXCEPT ![r.cat] = None] /\ UNCHANGED <<items, mods, bands>>
    BY <1>6 DEF Me!ChangeOf
  <2> QED
    BY ONLY <1>1, <1>2, <2>1
<1> QED
  BY <1>4, <1>5, <1>6

LEMMA ChangedItem ==
    ASSUME MenuInv, NEW r \in Me!Requests, Me!ChangeOf(r), Me!Allowed(r),
           r.kind \in {"createItem", "updateItem", "availability", "deleteItem"}
    PROVE  /\ items' \in [Items -> {None} \cup Me!ItemRows] /\ UNCHANGED <<cats, mods, bands>>
           /\ \A i \in Items : i # r.item => items'[i] = items[i]
           /\ r.kind \in {"createItem", "availability"} /\ items[r.item] # None =>
                items'[r.item] # None /\ items'[r.item].base = items[r.item].base
<1>1. /\ r.item \in Items
      /\ r.kind = "createItem" => r.cat \in Cats
      /\ r.kind \in {"createItem", "updateItem"} => r.base \in BasePrices
      /\ r.kind \in {"updateItem", "availability"} => r.on \in BOOLEAN
      /\ r.kind = "updateItem" => r.cat \in Cats \cup {None}
  BY RequestFields
<1>2. items \in [Items -> {None} \cup Me!ItemRows]
  BY DEF MenuInv, MenuTypes
<1>3. CASE r.kind = "createItem"
  <2> DEFINE row == [cat |-> r.cat, on |-> TRUE, base |-> r.base]
  <2>1. items' = [items EXCEPT ![r.item] = row] /\ UNCHANGED <<cats, mods, bands>>
    BY <1>3 DEF Me!ChangeOf
  <2>2. row \in Me!ItemRows /\ items[r.item] = None
    BY <1>1, <1>3 DEF Me!ItemRows, Me!Allowed
  <2> HIDE DEF row
  <2> QED
    BY ONLY <1>1, <1>2, <1>3, <2>1, <2>2
<1>4. CASE r.kind = "updateItem"
  <2> DEFINE was == items[r.item]
             row == IF was = None THEN None
                    ELSE [cat |-> IF r.cat = None THEN was.cat ELSE r.cat, on |-> r.on, base |-> r.base]
  <2>1. items' = [items EXCEPT ![r.item] = row] /\ UNCHANGED <<cats, mods, bands>>
    BY <1>4 DEF Me!ChangeOf
  <2>2. row \in {None} \cup Me!ItemRows
    BY <1>1, <1>2, <1>4 DEF Me!ItemRows
  <2> HIDE DEF row
  <2> QED
    BY ONLY <1>1, <1>2, <1>4, <2>1, <2>2
<1>5. CASE r.kind = "availability"
  <2> DEFINE was == items[r.item]
             row == IF was = None THEN None ELSE [was EXCEPT !.on = r.on]
  <2>1. items' = [items EXCEPT ![r.item] = row] /\ UNCHANGED <<cats, mods, bands>>
    BY <1>5 DEF Me!ChangeOf
  <2>2. was # None => row \in Me!ItemRows /\ row.base = was.base
    BY <1>1, <1>2, <1>5 DEF Me!ItemRows
  <2>3. was = None => row = None
    OBVIOUS
  <2>4. was # None => row # None
    BY <2>2, MenuGiven
  <2> HIDE DEF row
  <2> QED
    BY ONLY <1>1, <1>2, <2>1, <2>2, <2>3, <2>4
<1>6. CASE r.kind = "deleteItem"
  <2>1. items' = [items EXCEPT ![r.item] = None] /\ UNCHANGED <<cats, mods, bands>>
    BY <1>6 DEF Me!ChangeOf
  <2> QED
    BY ONLY <1>1, <1>2, <1>6, <2>1
<1> QED
  BY <1>3, <1>4, <1>5, <1>6

LEMMA ChangedOther ==
    ASSUME MenuInv, NEW r \in Me!Requests, Me!ChangeOf(r)
    PROVE  /\ r.kind = "createPricing" => bands' = Append(bands, r.band) /\ UNCHANGED <<cats, items, mods>>
           /\ r.kind \in {"createModifier", "updateModifier"} => UNCHANGED <<cats, items, bands>>
BY DEF Me!ChangeOf

(* The band of another item changes no price. *)
LEMMA SamePrice ==
    ASSUME MenuInv, NEW b \in Me!Bands, bands' = Append(bands, b), NEW i, i # b.item, NEW base, NEW t
    PROVE  Me!ActivePrice(base, i, bands', t) = Me!ActivePrice(base, i, bands, t)
<1> DEFINE Of(bs) == {c \in Me!Range(bs) : c.item = i /\ Me!Covers(c, t)}
           Price(covering) ==
               IF covering = {} THEN base
               ELSE LET c == CHOOSE c \in covering : \A d \in covering : d.from <= c.from
                    IN <<c.from, c.to>>
<1>1. bands \in Seq(Me!Bands)
  BY DEF MenuInv, MenuTypes
<1>2. Me!Range(Append(bands, b)) = Me!Range(bands) \cup {b}
  <2>1. DOMAIN Append(bands, b) = DOMAIN bands \cup {Len(bands) + 1}
    BY <1>1
  <2>2. \A n \in DOMAIN bands : Append(bands, b)[n] = bands[n]
    BY <1>1
  <2>3. Append(bands, b)[Len(bands) + 1] = b
    BY <1>1
  <2> QED
    BY ONLY <2>1, <2>2, <2>3 DEF Me!Range
<1>3. Of(Append(bands, b)) = Of(bands)
  BY <1>2
<1>4. \A bs : Me!ActivePrice(base, i, bs, t) = Price(Of(bs))
  BY DEF Me!ActivePrice
<1> HIDE DEF Of, Price
<1> QED
  BY <1>3, <1>4

(* A price an item has without a base price is that of a band. *)
LEMMA BandAnswers ==
    ASSUME NEW i, NEW bs, NEW t, Me!ActivePrice(None, i, bs, t) # None, NEW base
    PROVE  Me!ActivePrice(base, i, bs, t) = Me!ActivePrice(None, i, bs, t)
<1> DEFINE covering == {b \in Me!Range(bs) : b.item = i /\ Me!Covers(b, t)}
<1>1. covering # {}
  BY DEF Me!ActivePrice
<1> QED
  BY <1>1 DEF Me!ActivePrice

(* A copy that a change does not forget stays right. *)
LEMMA Unforgotten ==
    ASSUME MenuInv, NEW r \in Me!Requests, r.kind \notin {"get", "getFull", "reorder"}, Me!ChangeOf(r), Me!Allowed(r), NEW cat,
           NEW k \in Me!Keys, k \notin Forgotten(r, cat), Fresh(k), redis'[k] = redis[k]
    PROVE  Fresh(k)'
<1>1. r.kind \in {"createCategory", "updateCategory", "deleteCategory"}
      \/ r.kind \in {"createItem", "updateItem", "availability", "deleteItem"}
      \/ r.kind = "createPricing" \/ r.kind \in {"createModifier", "updateModifier"}
  BY RequestFields
<1>2. k # Me!Full
  BY ForgottenKeys
<1>3. CASE \E c \in Cats : k = <<"category", c>>
  <2>1. PICK c \in Cats : k = <<"category", c>>
    BY <1>3
  <2>2. cats'[c] = cats[c]
    <3>1. r.kind \in {"createCategory", "updateCategory", "deleteCategory"} => c # r.cat
      BY <2>1, ForgottenKeys
    <3> QED
      BY <1>1, <3>1, ChangedCategory, ChangedItem, ChangedOther
  <2>3. k[1] = "category" /\ k[2] = c
    BY <2>1
  <2> QED
    BY <2>2, <2>3 DEF Fresh
<1>4. CASE \E i \in Items : k = <<"item", i>>
  <2>1. PICK i \in Items : k = <<"item", i>>
    BY <1>4
  <2>2. items'[i] = items[i]
    <3>1. r.kind \in {"createItem", "updateItem", "availability", "deleteItem"} => i # r.item
      BY <2>1, ForgottenKeys
    <3> QED
      BY <1>1, <3>1, ChangedCategory, ChangedItem, ChangedOther
  <2>3. k[1] = "item" /\ k[2] = i
    BY <2>1
  <2>4. \A t : Me!Stored(k, t) = items[i]
    BY <2>3 DEF Me!Stored
  <2>5. \A t : Me!Stored(k, t)' = items'[i]
    BY <2>3 DEF Me!Stored
  <2> QED
    BY <2>2, <2>3, <2>4, <2>5 DEF Fresh
<1>5. CASE \E i \in Items : k = <<"price", i>>
  <2>1. PICK i \in Items : k = <<"price", i>>
    BY <1>5
  <2>2. k[1] = "price" /\ k[2] = i
    BY <2>1
  <2> DEFINE t == redis[k].at
             base == Me!BasePrice(i)
  <2>3. redis[k].is # None /\ redis[k].is = Me!Stored(k, t)
    BY <2>2 DEF Fresh
  <2>4. \A u : /\ Me!Stored(k, u) = Me!ActivePrice(base, i, bands, u)
               /\ Me!Stored(k, u)' = Me!ActivePrice(base', i, bands', u)
    BY <2>2 DEF Me!Stored
  <2>5. Me!ActivePrice(base', i, bands, t) = Me!ActivePrice(base, i, bands, t)
    <3>1. CASE items[i] # None
      <4>1. r.kind \in {"updateItem", "deleteItem"} => i # r.item
        BY <2>1, ForgottenKeys
      <4>2. items'[i] # None /\ items'[i].base = items[i].base
        BY <1>1, <3>1, <4>1, ChangedCategory, ChangedItem, ChangedOther
      <4>3. base' = base
        BY <3>1, <4>2 DEF Me!BasePrice
      <4> HIDE DEF base
      <4> QED
        BY <4>3
    <3>2. CASE items[i] = None
      <4>1. base = None
        BY <3>2 DEF Me!BasePrice
      <4> HIDE DEF base, t
      <4> QED
        BY <2>3, <2>4, <4>1, BandAnswers
    <3> QED
      BY <3>1, <3>2
  <2>6. Me!ActivePrice(base', i, bands', t) = Me!ActivePrice(base', i, bands, t)
    <3>1. CASE r.kind = "createPricing"
      <4>1. i # r.item /\ r.band \in Me!Bands /\ r.band.item = r.item
        BY <2>1, <3>1, ForgottenKeys, RequestFields
      <4>2. bands' = Append(bands, r.band)
        BY <3>1, ChangedOther
      <4> HIDE DEF t, base
      <4> QED
        BY <4>1, <4>2, SamePrice
    <3>2. CASE r.kind # "createPricing"
      <4>1. bands' = bands
        BY <1>1, <3>2, ChangedCategory, ChangedItem, ChangedOther
      <4> QED
        BY <4>1
    <3> QED
      BY <3>1, <3>2
  <2>7. redis'[k].at = t /\ redis'[k].is = Me!Stored(k, t)' /\ redis'[k].is # None
    <3> HIDE DEF t, base
    <3>1. Me!Stored(k, t) = Me!ActivePrice(base', i, bands', t)
      BY <2>4, <2>5, <2>6
    <3>2. redis'[k].is = Me!ActivePrice(base', i, bands', t)
      BY <2>3, <3>1
    <3> QED
      BY <2>3, <2>4, <3>2 DEF t
  <2> QED
    BY <2>2, <2>7 DEF Fresh
<1> QED
  BY <1>2, <1>3, <1>4, <1>5 DEF Me!Keys, Me!Full

(* The bands after one has been inserted. *)
LEMMA BandInserted ==
    ASSUME MenuInv, NEW h \in Handlers, NEW b \in Me!Bands, bands' = Append(bands, b), overlap' = overlap,
           pc[h] = "write", job[h].r.kind = "createPricing", job[h].r.band = b,
           NEW j, Turn(h, "forget", j)
    PROVE  BandsInv'
<1> SUFFICES ASSUME NEW i \in Items, NEW t \in Me!Times
             PROVE  (Cardinality(Covering(i, t)) + Cardinality(Pricing(i, t)) <= AtOnce)'
  BY DEF BandsInv
<1> DEFINE n == Len(bands) + 1
           C == Covering(i, t)
           P == Pricing(i, t)
<1>1. bands \in Seq(Me!Bands)
  BY DEF MenuInv, MenuTypes
<1>2. /\ n \in Nat /\ DOMAIN bands = 1..(n - 1) /\ DOMAIN bands' = 1..n /\ bands'[n] = b
      /\ \A m \in DOMAIN bands : bands'[m] = bands[m] /\ m # n
  BY <1>1
<1>3. IsFiniteSet(1..n)
  BY ONLY <1>2, FS_Interval
<1>4. C \subseteq 1..n /\ C' \subseteq 1..n /\ C \ {n} = C' \ {n} /\ n \notin C
  BY <1>2 DEF Covering
<1>5. n \in C' <=> b.item = i /\ Me!Covers(b, t)
  BY <1>2 DEF Covering
<1>6. /\ Cardinality(C) \in Nat /\ Cardinality(C') \in Nat
      /\ Cardinality(C') = Cardinality(C) + (IF b.item = i /\ Me!Covers(b, t) THEN 1 ELSE 0)
  <2> DEFINE F == 1..n
             D == C'
  <2>0. IsFiniteSet(F) /\ C \in SUBSET F /\ D \in SUBSET F /\ C \ {n} = D \ {n}
    BY <1>3, <1>4
  <2> HIDE DEF C, D, F, n
  <2>1. /\ Cardinality(C) \in Nat /\ Cardinality(D) \in Nat
        /\ Cardinality(D) = Cardinality(C) + (IF n \in D THEN 1 ELSE 0) - (IF n \in C THEN 1 ELSE 0)
    BY ONLY <2>0, CountOne
  <2> QED
    BY <1>4, <1>5, <2>1 DEF D
<1>7. pc'[h] = "forget" /\ \A g \in Handlers \ {h} : pc'[g] = pc[g] /\ job'[g] = job[g]
  BY Turned
<1>8. P \subseteq Handlers /\ P' \subseteq Handlers /\ P \ {h} = P' \ {h} /\ h \notin P'
  BY <1>7 DEF Pricing
<1>9. h \in P <=> b.item = i /\ Me!Covers(b, t)
  BY DEF Pricing
<1>10. /\ Cardinality(P) \in Nat /\ Cardinality(P') \in Nat
       /\ Cardinality(P') = Cardinality(P) - (IF b.item = i /\ Me!Covers(b, t) THEN 1 ELSE 0)
  <2>1. IsFiniteSet(Handlers)
    BY MenuGiven
  <2> HIDE DEF P
  <2>2. /\ Cardinality(P) \in Nat /\ Cardinality(P') \in Nat
        /\ Cardinality(P') = Cardinality(P) + (IF h \in P' THEN 1 ELSE 0) - (IF h \in P THEN 1 ELSE 0)
    BY ONLY <1>8, <2>1, CountOne
  <2> QED
    BY <1>8, <1>9, <2>2
<1>11. Cardinality(C) + Cardinality(P) <= AtOnce
  BY DEF MenuInv, BandsInv
<1>12. AtOnce' = AtOnce /\ AtOnce \in Nat
  BY MenuGiven, FS_CardinalityType DEF AtOnce
<1>13. Cardinality(C') + Cardinality(P') <= AtOnce
  <2> DEFINE one == IF b.item = i /\ Me!Covers(b, t) THEN 1 ELSE 0
  <2>1. one \in {0, 1}
    OBVIOUS
  <2> HIDE DEF C, P, one, AtOnce
  <2>2. Cardinality(C') = Cardinality(C) + one /\ Cardinality(P') = Cardinality(P) - one
    BY <1>6, <1>10 DEF one
  <2> QED
    BY ONLY <1>6, <1>10, <1>11, <1>12, <2>1, <2>2
<1> QED
  BY <1>12, <1>13

LEMMA WriteMenu ==
    ASSUME MenuInv, NEW h \in Handlers, Me!Write(h)
    PROVE  MenuInv'
<1> DEFINE j == job[h]
           r == j.r
           cat == IF r.kind = "createItem" \/ (r.kind = "updateItem" /\ r.cat # None) THEN r.cat ELSE j.cat
           next == MenuJob(r, Me!Forgets(r, cat), j.is, j.at, j.cat)
<1>1. pc[h] = "write" /\ UNCHANGED <<overlap, now, redis, clean>>
  BY DEF Me!Write
<1>2. /\ j = MenuJob(r, j.keys, j.is, j.at, j.cat) /\ r \in Me!Requests /\ clean \in BOOLEAN
      /\ j.at \in 0..now /\ j.cat \in Cats \cup {None} /\ now \in Nat
      /\ r.kind \notin {"get", "getFull", "reorder"}
  <2>1. Handed("write", j, now)
    BY <1>1, InWork
  <2> QED
    BY <1>1, <2>1, InWork DEF Handed
<1>3. cat \in Cats \cup {None}
  BY <1>2, RequestFields
<1>4. CASE ~Me!Allowed(r)
  <2>1. Turn(h, "idle", Me!NoJob) /\ UNCHANGED Me!rows
    BY <1>4 DEF Me!Write, Me!Return, Me!Goto, Turn
  <2>2. Handed("idle", Me!NoJob, now)
    BY <1>2, IdleHanded
  <2> QED
    BY <1>1, <1>2, <2>1, <2>2, QuietTurn
<1>5. CASE Me!Allowed(r)
  <2>1. Me!ChangeOf(r) /\ pc' = [pc EXCEPT ![h] = "forget"] /\ job' = [job EXCEPT ![h].keys = Me!Forgets(r, cat)]
    BY <1>5 DEF Me!Write, Me!Goto
  <2>2. Turn(h, "forget", next)
    <3>1. job' = [job EXCEPT ![h] = [j EXCEPT !.keys = Me!Forgets(r, cat)]]
      BY <2>1
    <3> DEFINE ks == Me!Forgets(r, cat)
    <3> HIDE DEF ks
    <3>2. [j EXCEPT !.keys = ks] = MenuJob(r, ks, j.is, j.at, j.cat)
      <4> HIDE DEF j
      <4> QED
        BY ONLY <1>2 DEF MenuJob
    <3> HIDE DEF j, r, cat, next
    <3> QED
      BY <2>1, <3>1, <3>2 DEF Turn, ks, next
  <2>3. "forget" \in MenuSteps \ {"idle"}
    BY DEF MenuSteps
  <2>4. Handed("forget", next, now)
    <3>1. Me!Forgets(r, cat) \in Seq(ForgetKeys) /\ Me!Forgets(r, cat) # <<>>
      BY <1>2, <1>3, RequestKeys
    <3> HIDE DEF j, r, cat
    <3> QED
      BY <1>2, <2>3, <3>1, WorkHanded
  <2>5. next.keys = Me!Forgets(r, cat)
    BY JobFields
  <2> HIDE DEF next
  <2>6. OneAtWork'
    BY <1>1, <2>2, WorkMoved
  <2>7. /\ cats' \in [Cats -> {None} \cup Me!CatRows] /\ items' \in [Items -> {None} \cup Me!ItemRows]
        /\ bands' \in Seq(Me!Bands)
        /\ r.kind # "createPricing" => bands' = bands
        /\ r.kind = "createPricing" => bands' = Append(bands, r.band) /\ r.band \in Me!Bands
    <3>1. r.kind \in {"createCategory", "updateCategory", "deleteCategory"}
          \/ r.kind \in {"createItem", "updateItem", "availability", "deleteItem"}
          \/ r.kind = "createPricing" \/ r.kind \in {"createModifier", "updateModifier"}
      BY <1>2, RequestFields
    <3>2. /\ cats \in [Cats -> {None} \cup Me!CatRows] /\ items \in [Items -> {None} \cup Me!ItemRows]
          /\ bands \in Seq(Me!Bands)
      BY DEF MenuInv, MenuTypes
    <3>3. r.kind = "createPricing" => r.band \in Me!Bands
      BY <1>2, RequestFields
    <3> HIDE DEF j, r, cat
    <3>4. CASE r.kind \in {"createCategory", "updateCategory", "deleteCategory"}
      BY <1>2, <2>1, <3>2, <3>4, ChangedCategory
    <3>5. CASE r.kind \in {"createItem", "updateItem", "availability", "deleteItem"}
      BY <1>2, <1>5, <2>1, <3>2, <3>5, ChangedItem
    <3>6. CASE r.kind = "createPricing" \/ r.kind \in {"createModifier", "updateModifier"}
      BY <1>2, <2>1, <3>2, <3>3, <3>6, ChangedOther
    <3> QED
      BY ONLY <3>1, <3>4, <3>5, <3>6
  <2>8. BandsInv'
    <3>1. CASE r.kind # "createPricing"
      BY <1>1, <2>2, <2>7, <3>1, BandsMoved
    <3>2. CASE r.kind = "createPricing"
      BY <1>1, <2>2, <2>7, <3>2, BandInserted
    <3> QED
      BY <3>1, <3>2
  <2>9. pc'[h] = "forget" /\ job'[h] = next
    BY <2>2, Turned
  <2>10. CopiesInv'
    <3> SUFFICES ASSUME ~overlap, clean'
                 PROVE  /\ \A k \in Me!Keys : redis'[k] # None => (Fresh(k) \/ Stale(k))'
                        /\ Gathered(h)'
      BY <1>1, <2>2, CopiesMoved
    <3>1. \A k \in Me!Keys : redis[k] # None => Fresh(k)
      BY <1>1, AllFresh
    <3>2. ASSUME NEW k \in Me!Keys, redis'[k] # None, k \notin Forgotten(r, cat)
          PROVE  Fresh(k)'
      BY <1>1, <1>2, <1>5, <2>1, <3>1, <3>2, Unforgotten
    <3>3. ASSUME NEW k \in Me!Keys, k \in Forgotten(r, cat)
          PROVE  Stale(k)'
      BY <2>5, <2>9, <3>3 DEF Stale, Forgotten
    <3>4. Gathered(h)'
      BY <2>9 DEF Gathered
    <3> QED
      BY <3>2, <3>3, <3>4
  <2>11. MenuTypes'
    <3>1. pc' \in [Handlers -> MenuSteps] /\ job' = [g \in Handlers |-> job'[g]]
      BY <1>1, <2>2, <2>3, <2>4, HandsMoved
    <3> QED
      BY <1>1, <2>7, <3>1 DEF MenuInv, MenuTypes
  <2>12. \A g \in Handlers : Handed(pc[g], job[g], now)'
    BY <1>1, <2>2, <2>3, <2>4, HandsMoved
  <2> QED
    BY <2>6, <2>8, <2>10, <2>11, <2>12 DEF MenuInv
<1> QED
  BY <1>4, <1>5

(* What is left to forget after the first key. *)
LEMMA RestOf ==
    ASSUME NEW S, NEW s \in Seq(S), s # <<>>
    PROVE  /\ Len(s) # 1 => Tail(s) \in Seq(S) /\ Tail(s) # <<>>
           /\ \A k : k \in {s[n] : n \in DOMAIN s} /\ k # Head(s) =>
                Len(s) # 1 /\ k \in {Tail(s)[n] : n \in DOMAIN Tail(s)}
<1>1. /\ Len(s) \in Nat /\ Len(s) # 0 /\ DOMAIN s = 1..Len(s) /\ Head(s) = s[1]
      /\ Tail(s) \in Seq(S) /\ Len(Tail(s)) = Len(s) - 1
      /\ \A n \in 1..Len(Tail(s)) : Tail(s)[n] = s[n + 1]
  OBVIOUS
<1>2. Len(s) # 1 => Tail(s) # <<>>
  <2> DEFINE rest == Tail(s)
  <2>1. rest \in Seq(S) /\ Len(rest) = Len(s) - 1
    BY <1>1
  <2> HIDE DEF rest
  <2>2. Len(s) # 1 => rest # <<>>
    BY <1>1, <2>1
  <2> QED
    BY <2>2 DEF rest
<1>3. ASSUME NEW n \in DOMAIN s, s[n] # Head(s)
      PROVE  Len(s) # 1 /\ \E m \in DOMAIN Tail(s) : Tail(s)[m] = s[n]
  <2> DEFINE m == n - 1
             rest == Tail(s)
             most == Len(s)
  <2>1. n \in 1..most /\ n # 1 /\ most \in Nat
    BY ONLY <1>1, <1>3
  <2>2. m \in 1..(most - 1) /\ m + 1 = n /\ most # 1
    BY ONLY <2>1
  <2>3. DOMAIN rest = 1..(most - 1)
    BY <1>1
  <2>4. rest[m] = s[n]
    <3>1. m \in 1..Len(rest)
      BY ONLY <1>1, <2>2
    <3>2. rest[m] = s[m + 1]
      BY ONLY <1>1, <3>1
    <3> HIDE DEF m, rest
    <3> QED
      BY ONLY <2>2, <3>2
  <2> HIDE DEF m, rest, most
  <2>5. most # 1 /\ \E q \in DOMAIN rest : rest[q] = s[n]
    BY ONLY <2>2, <2>3, <2>4
  <2> QED
    BY <2>5 DEF most, rest
<1> QED
  BY <1>1, <1>2, <1>3

LEMMA ForgetMenu ==
    ASSUME MenuInv, NEW h \in Handlers, Me!Forget(h)
    PROVE  MenuInv'
<1> DEFINE j == job[h]
           k == Head(j.keys)
           next == MenuJob(j.r, Tail(j.keys), j.is, j.at, j.cat)
<1>1. pc[h] = "forget" /\ UNCHANGED <<overlap, now, Me!rows>>
  BY DEF Me!Forget
<1>2. /\ j = MenuJob(j.r, j.keys, j.is, j.at, j.cat) /\ j.r \in Me!Requests /\ clean \in BOOLEAN
      /\ j.at \in 0..now /\ j.cat \in Cats \cup {None} /\ now \in Nat
      /\ j.keys \in Seq(ForgetKeys) /\ j.keys # <<>>
  <2>1. Handed("forget", j, now)
    BY <1>1, InWork
  <2> QED
    BY <1>1, <2>1, InWork DEF Handed
<1>3. /\ Len(j.keys) # 1 => Tail(j.keys) \in Seq(ForgetKeys) /\ Tail(j.keys) # <<>>
      /\ \A q : q \in {j.keys[n] : n \in DOMAIN j.keys} /\ q # k =>
           Len(j.keys) # 1 /\ q \in {Tail(j.keys)[n] : n \in DOMAIN Tail(j.keys)}
  <2> HIDE DEF j
  <2> QED
    BY <1>2, RestOf
<1>4. /\ clean' \in BOOLEAN /\ (clean' => clean)
      /\ redis' = [q \in Me!Keys |-> redis'[q]]
      /\ \A q \in Me!Keys : redis'[q] # None => redis'[q] = redis[q]
      /\ clean' => \A q \in Me!Keys : redis'[q] # None => q # k
  <2>1. redis = [q \in Me!Keys |-> redis[q]]
    BY DEF MenuInv, MenuTypes
  <2>2. \/ redis' = [redis EXCEPT ![k] = None] /\ clean' = clean
        \/ redis' = redis /\ clean' = FALSE
    BY DEF Me!Forget
  <2> HIDE DEF k
  <2>3. CASE redis' = [redis EXCEPT ![k] = None] /\ clean' = clean
    <3>1. redis' = [q \in Me!Keys |-> redis'[q]]
      BY ONLY <2>1, <2>3
    <3>2. \A q \in Me!Keys : redis'[q] = IF q = k THEN None ELSE redis[q]
      BY ONLY <2>1, <2>3
    <3> QED
      BY ONLY <1>2, <2>3, <3>1, <3>2
  <2>4. CASE redis' = redis /\ clean' = FALSE
    BY ONLY <2>1, <2>4
  <2> QED
    BY ONLY <2>2, <2>3, <2>4
<1> DEFINE last == Len(j.keys) = 1
           step == IF last THEN "idle" ELSE "forget"
           then == IF last THEN Me!NoJob ELSE next
<1>5. Turn(h, step, then)
  <2>1. CASE last
    BY <2>1 DEF Me!Forget, Me!Return, Me!Goto, Turn
  <2>2. CASE ~last
    <3>1. job' = [job EXCEPT ![h] = [j EXCEPT !.keys = Tail(j.keys)]] /\ pc' = pc
      BY <2>2 DEF Me!Forget
    <3>2. pc' = [pc EXCEPT ![h] = "forget"]
      BY <1>1, <3>1 DEF MenuInv, MenuTypes
    <3> DEFINE ks == Tail(j.keys)
    <3> HIDE DEF ks
    <3>3. [j EXCEPT !.keys = ks] = MenuJob(j.r, ks, j.is, j.at, j.cat)
      <4> HIDE DEF j
      <4> QED
        BY ONLY <1>2 DEF MenuJob
    <3>4. then = MenuJob(j.r, ks, j.is, j.at, j.cat) /\ step = "forget"
      BY <2>2 DEF ks
    <3>5. job' = [job EXCEPT ![h] = [j EXCEPT !.keys = ks]]
      BY <3>1 DEF ks
    <3> HIDE DEF j, then, step
    <3> QED
      BY ONLY <3>2, <3>3, <3>4, <3>5 DEF Turn
  <2> QED
    BY <2>1, <2>2
<1>6. Handed(step, then, now) /\ step \in MenuSteps
  <2>1. Handed("idle", Me!NoJob, now)
    BY <1>2, IdleHanded
  <2>2. "forget" \in MenuSteps \ {"idle"} /\ "idle" \in MenuSteps
    BY DEF MenuSteps
  <2>3. ~last => Handed("forget", next, now)
    <3> HIDE DEF j
    <3> QED
      BY <1>2, <1>3, <2>2, WorkHanded
  <2> HIDE DEF next
  <2> QED
    BY <2>1, <2>2, <2>3
<1>7. ~last => then.keys = Tail(j.keys)
  BY JobFields
<1> HIDE DEF then
<1>8. OneAtWork' /\ BandsInv'
  BY <1>1, <1>5, WorkMoved, BandsMoved DEF Me!rows
<1>9. CopiesInv'
  <2> SUFFICES ASSUME ~overlap, clean'
               PROVE  /\ \A q \in Me!Keys : redis'[q] # None => (Fresh(q) \/ Stale(q))'
                      /\ Gathered(h)'
    BY <1>1, <1>5, CopiesMoved
  <2>1. \A q \in Me!Keys : redis[q] # None => Fresh(q) \/ Stale(q)
    BY <1>4 DEF MenuInv, CopiesInv
  <2>2. pc'[h] = step /\ job'[h] = then
    BY <1>5, Turned
  <2>3. ASSUME NEW q \in Me!Keys, redis'[q] # None
        PROVE  (Fresh(q) \/ Stale(q))'
    <3>1. redis'[q] = redis[q] /\ q # k
      BY <1>4, <2>3
    <3>2. CASE Fresh(q)
      BY <1>1, <3>1, <3>2, SameFresh
    <3>3. CASE Stale(q)
      <4>1. q \in {j.keys[n] : n \in DOMAIN j.keys}
        <5>1. \A g \in Handlers \ {h} : pc[g] = "idle"
          BY <1>1 DEF MenuInv, OneAtWork
        <5> QED
          BY <3>3, <5>1 DEF Stale
      <4>2. ~last /\ q \in {Tail(j.keys)[n] : n \in DOMAIN Tail(j.keys)}
        BY <1>3, <3>1, <4>1
      <4>3. pc'[h] = "forget" /\ q \in {job'[h].keys[n] : n \in DOMAIN job'[h].keys}
        BY <1>7, <2>2, <4>2
      <4> QED
        BY <4>3 DEF Stale
    <3> QED
      BY <2>1, <2>3, <3>1, <3>2, <3>3
  <2>4. Gathered(h)'
    BY <2>2 DEF Gathered
  <2> QED
    BY <2>3, <2>4
<1>10. MenuTypes'
  <2>1. pc' \in [Handlers -> MenuSteps] /\ job' = [g \in Handlers |-> job'[g]]
    BY <1>1, <1>5, <1>6, HandsMoved
  <2>2. \A q \in Me!Keys : redis'[q] # None => redis'[q].at \in 0..now /\ CopyOf(q, redis'[q].is)
    BY <1>4 DEF MenuInv, MenuTypes
  <2> QED
    BY <1>1, <1>4, <2>1, <2>2 DEF MenuInv, MenuTypes, Me!rows
<1>11. \A g \in Handlers : Handed(pc[g], job[g], now)'
  BY <1>1, <1>5, <1>6, HandsMoved
<1> QED
  BY <1>8, <1>9, <1>10, <1>11 DEF MenuInv

LEMMA ReorderForgetMenu ==
    ASSUME MenuInv, NEW h \in Handlers, Me!ReorderForget(h)
    PROVE  MenuInv'
<1> DEFINE j == job[h]
<1>1. pc[h] = "reorder" /\ UNCHANGED <<overlap, now, Me!rows, clean>>
  BY DEF Me!ReorderForget
<1>2. /\ j = MenuJob(j.r, j.keys, j.is, j.at, j.cat) /\ j.r \in Me!Requests /\ clean \in BOOLEAN
      /\ j.at \in 0..now /\ j.cat \in Cats \cup {None} /\ now \in Nat /\ j.r.kind = "reorder"
  <2>1. Handed("reorder", j, now)
    BY <1>1, InWork
  <2> QED
    BY <1>1, <2>1, InWork DEF Handed
<1>3. CASE Me!Return(h) /\ UNCHANGED redis
  <2>1. Turn(h, "idle", Me!NoJob)
    BY <1>3 DEF Me!Return, Me!Goto, Turn
  <2>2. Handed("idle", Me!NoJob, now)
    BY <1>2, IdleHanded
  <2> QED
    BY <1>1, <1>2, <1>3, <2>1, <2>2, QuietTurn
<1>4. CASE redis' = [redis EXCEPT ![Me!Full] = None] /\ Me!Goto(h, "commit") /\ UNCHANGED job
  <2>1. Turn(h, "commit", j)
    <3>1. job = [g \in Handlers |-> job[g]]
      BY DEF MenuInv, MenuTypes
    <3>2. job = [job EXCEPT ![h] = job[h]]
      BY ONLY <3>1
    <3> QED
      BY <1>4, <3>2 DEF Turn, Me!Goto
  <2>2. "commit" \in MenuSteps \ {"idle"}
    BY DEF MenuSteps
  <2>3. Handed("commit", j, now)
    <3> HIDE DEF j
    <3> QED
      BY <1>2, <2>2, WorkHanded
  <2>4. OneAtWork' /\ BandsInv'
    BY <1>1, <2>1, WorkMoved, BandsMoved DEF Me!rows
  <2>5. /\ redis' = [q \in Me!Keys |-> redis'[q]] /\ redis'[Me!Full] = None
        /\ \A q \in Me!Keys : redis'[q] # None => redis'[q] = redis[q]
    <3>1. Me!Full \in Me!Keys
      BY DEF Me!Keys, Me!Full
    <3>2. redis = [q \in Me!Keys |-> redis[q]]
      BY DEF MenuInv, MenuTypes
    <3>3. redis' = [redis EXCEPT ![Me!Full] = None]
      BY <1>4
    <3> QED
      BY ONLY <3>1, <3>2, <3>3
  <2>6. CopiesInv'
    <3> SUFFICES ASSUME ~overlap, clean'
                 PROVE  /\ \A q \in Me!Keys : redis'[q] # None => (Fresh(q) \/ Stale(q))'
                        /\ Gathered(h)'
      BY <1>1, <2>1, CopiesMoved
    <3>1. \A q \in Me!Keys : redis[q] # None => Fresh(q)
      BY <1>1, AllFresh
    <3>2. \A q \in Me!Keys : redis'[q] # None => Fresh(q)'
      BY <1>1, <2>5, <3>1, SameFresh
    <3>3. Gathered(h)'
      BY <2>1, <2>5, Turned DEF Gathered
    <3> QED
      BY <3>2, <3>3
  <2>7. MenuTypes'
    <3>1. pc' \in [Handlers -> MenuSteps] /\ job' = [g \in Handlers |-> job'[g]]
      BY <1>1, <2>1, <2>2, <2>3, HandsMoved
    <3>2. \A q \in Me!Keys : redis'[q] # None => redis'[q].at \in 0..now /\ CopyOf(q, redis'[q].is)
      BY <2>5 DEF MenuInv, MenuTypes
    <3> QED
      BY <1>1, <2>5, <3>1, <3>2 DEF MenuInv, MenuTypes, Me!rows
  <2>8. \A g \in Handlers : Handed(pc[g], job[g], now)'
    BY <1>1, <2>1, <2>2, <2>3, HandsMoved
  <2> QED
    BY <2>4, <2>6, <2>7, <2>8 DEF MenuInv
<1> QED
  BY <1>3, <1>4 DEF Me!ReorderForget

(* Only the display order of the categories changes, and the copy of the    *)
(* menu is gone. *)
LEMMA ReorderCommitMenu ==
    ASSUME MenuInv, NEW h \in Handlers, Me!ReorderCommit(h)
    PROVE  MenuInv'
<1> DEFINE places == job[h].r.order
<1>1. /\ pc[h] = "commit" /\ UNCHANGED <<overlap, now, items, mods, bands, redis, clean>>
      /\ cats' = [c \in Cats |-> IF cats[c] = None THEN None ELSE [cats[c] EXCEPT !.order = places[c]]]
  BY DEF Me!ReorderCommit
<1>2. places \in [Cats -> 1..Me!Cardinality(Cats)] /\ now \in Nat
  <2>1. Handed("commit", job[h], now) /\ job[h].r \in Me!Requests /\ now \in Nat
    BY <1>1, InWork
  <2>2. job[h].r.kind = "reorder"
    BY <2>1 DEF Handed
  <2> QED
    BY <2>1, <2>2, RequestFields
<1>3. Turn(h, "idle", Me!NoJob)
  BY DEF Me!ReorderCommit, Me!Return, Me!Goto, Turn
<1>4. Handed("idle", Me!NoJob, now) /\ "idle" \in MenuSteps
  BY <1>2, IdleHanded DEF MenuSteps
<1>5. OneAtWork' /\ BandsInv'
  BY <1>1, <1>3, WorkMoved, BandsMoved
<1>6. /\ cats' \in [Cats -> {None} \cup Me!CatRows]
      /\ \A c \in Cats : cats[c] # None => cats'[c] # None /\ cats'[c].active = cats[c].active
  <2>1. cats \in [Cats -> {None} \cup Me!CatRows]
    BY DEF MenuInv, MenuTypes
  <2> HIDE DEF places
  <2>2. ASSUME NEW c \in Cats, cats[c] # None
        PROVE  cats'[c] \in Me!CatRows /\ cats'[c].active = cats[c].active
    <3>1. cats'[c] = [cats[c] EXCEPT !.order = places[c]]
      BY ONLY <1>1, <2>2, c \in Cats
    <3>2. cats[c] \in Me!CatRows /\ places[c] \in 1..Me!Cardinality(Cats)
      BY <1>2, <2>1, <2>2
    <3> DEFINE row == cats[c]
               place == places[c]
    <3>3. [row EXCEPT !.order = place] \in Me!CatRows /\ [row EXCEPT !.order = place].active = row.active
      <4>1. row \in Me!CatRows /\ place \in 1..Me!Cardinality(Cats)
        BY <3>2
      <4> HIDE DEF row, place
      <4> QED
        BY ONLY <4>1 DEF Me!CatRows
    <3> QED
      BY <3>1, <3>3
  <2>3. \A c \in Cats : cats[c] = None => cats'[c] = None
    BY ONLY <1>1
  <2>4. None \notin Me!CatRows
    BY MenuGiven
  <2>5. cats' = [c \in Cats |-> cats'[c]]
    BY ONLY <1>1
  <2> QED
    BY ONLY <2>2, <2>3, <2>4, <2>5
<1>7. CopiesInv'
  <2> SUFFICES ASSUME ~overlap, clean'
               PROVE  /\ \A k \in Me!Keys : redis'[k] # None => (Fresh(k) \/ Stale(k))'
                      /\ Gathered(h)'
    BY <1>1, <1>3, CopiesMoved
  <2>1. redis[Me!Full] = None
    BY <1>1 DEF MenuInv, CopiesInv, Gathered
  <2>2. \A k \in Me!Keys : redis[k] # None => Fresh(k)
    BY <1>1, AllFresh
  <2>3. ASSUME NEW k \in Me!Keys, redis'[k] # None
        PROVE  Fresh(k)'
    <3>1. Fresh(k) /\ redis'[k] = redis[k] /\ k # Me!Full
      BY <1>1, <2>1, <2>2, <2>3
    <3>2. CASE k[1] = "category"
      <4>1. k[2] \in Cats
        BY <3>2 DEF Me!Keys, Me!Full
      <4> QED
        BY <1>6, <3>1, <3>2, <4>1 DEF Fresh
    <3>3. CASE k[1] # "category"
      <4>1. k[1] \in {"item", "price"}
        BY <3>1, <3>3 DEF Me!Keys, Me!Full
      <4>2. items' = items /\ bands' = bands
        BY <1>1
      <4>3. \A t : Me!Stored(k, t)' = Me!Stored(k, t)
        BY <4>1, <4>2 DEF Me!Stored, Me!BasePrice
      <4> QED
        BY <3>1, <3>3, <4>3 DEF Fresh
    <3> QED
      BY <3>2, <3>3
  <2>4. Gathered(h)'
    BY <1>3, Turned DEF Gathered
  <2> QED
    BY <2>3, <2>4
<1>8. MenuTypes'
  <2>1. pc' \in [Handlers -> MenuSteps] /\ job' = [g \in Handlers |-> job'[g]]
    BY <1>1, <1>3, <1>4, HandsMoved
  <2> QED
    BY <1>1, <1>6, <2>1 DEF MenuInv, MenuTypes
<1>9. \A g \in Handlers : Handed(pc[g], job[g], now)'
  BY <1>1, <1>3, <1>4, HandsMoved
<1> QED
  BY <1>5, <1>7, <1>8, <1>9 DEF MenuInv

(* No request moves: an entry expires or time passes. *)
LEMMA EntriesFade ==
    ASSUME MenuInv, UNCHANGED <<overlap, Me!rows, pc, job, clean>>, now' \in Me!Times, now' >= now,
           redis' = [q \in Me!Keys |-> redis'[q]], \A q \in Me!Keys : redis'[q] # None => redis'[q] = redis[q],
           redis[Me!Full] = None => redis'[Me!Full] = None
    PROVE  MenuInv'
<1>1. now \in Nat /\ now' \in Nat /\ 0..now \subseteq 0..now'
  BY MenuGiven DEF MenuInv, MenuTypes, Me!Times
<1>2. MenuTypes'
  BY <1>1 DEF MenuInv, MenuTypes, Me!rows
<1>3. OneAtWork'
  BY DEF MenuInv, OneAtWork
<1>4. \A g \in Handlers : Handed(pc[g], job[g], now)'
  <2> SUFFICES ASSUME NEW g \in Handlers PROVE Handed(pc[g], job[g], now')
    OBVIOUS
  <2> DEFINE j == job[g]
             step == pc[g]
  <2>1. Handed(step, j, now)
    BY DEF MenuInv
  <2> HIDE DEF j, step
  <2>2. Handed(step, j, now')
    BY <1>1, <2>1 DEF Handed
  <2> QED
    BY <2>2 DEF j, step
<1>5. BandsInv'
  <2>1. \A i, t : Covering(i, t)' = Covering(i, t)
    BY DEF Covering, Me!rows
  <2>2. \A i, t : Pricing(i, t)' = Pricing(i, t)
    BY DEF Pricing
  <2>3. AtOnce' = AtOnce
    BY DEF AtOnce
  <2> QED
    BY <2>1, <2>2, <2>3 DEF MenuInv, BandsInv
<1>6. CopiesInv'
  <2> SUFFICES ASSUME ~overlap, clean
               PROVE  /\ \A q \in Me!Keys : redis'[q] # None => (Fresh(q) \/ Stale(q))'
                      /\ \A g \in Handlers : Gathered(g)'
    BY DEF CopiesInv
  <2>1. \A q \in Me!Keys : redis[q] # None => Fresh(q) \/ Stale(q)
    BY DEF MenuInv, CopiesInv
  <2>2. \A q : Stale(q)' = Stale(q)
    BY DEF Stale
  <2>3. ASSUME NEW q \in Me!Keys, redis'[q] # None
        PROVE  (Fresh(q) \/ Stale(q))'
    <3>1. redis'[q] = redis[q] /\ redis[q] # None
      BY <2>3
    <3> QED
      BY <2>1, <2>2, <3>1, SameFresh
  <2>4. ASSUME NEW g \in Handlers PROVE Gathered(g)'
    <3>1. Gathered(g)
      BY DEF MenuInv, CopiesInv
    <3>2. mods' = mods /\ Me!ActiveCats' = Me!ActiveCats /\ Me!AvailableItems' = Me!AvailableItems
      BY SameAnswers DEF Me!rows
    <3>3. \A q, t : Me!Stored(q, t)' = Me!Stored(q, t)
      BY SameAnswers
    <3> QED
      BY <3>1, <3>2, <3>3 DEF Gathered
  <2> QED
    BY <2>3, <2>4
<1> QED
  BY <1>2, <1>3, <1>4, <1>5, <1>6 DEF MenuInv

LEMMA ExpireMenu ==
    ASSUME MenuInv, NEW k \in Me!Keys, Me!Expire(k)
    PROVE  MenuInv'
<1>1. redis' = [redis EXCEPT ![k] = None] /\ UNCHANGED <<overlap, now, Me!rows, pc, job, clean>>
  BY DEF Me!Expire
<1>2. redis = [q \in Me!Keys |-> redis[q]] /\ Me!Full \in Me!Keys /\ now \in Me!Times /\ now \in Nat
  BY MenuGiven DEF MenuInv, MenuTypes, Me!Keys, Me!Full, Me!Times
<1>3. /\ redis' = [q \in Me!Keys |-> redis'[q]]
      /\ \A q \in Me!Keys : redis'[q] = IF q = k THEN None ELSE redis[q]
  BY ONLY <1>1, <1>2
<1>4. now' \in Me!Times /\ now' >= now
  BY <1>1, <1>2
<1> QED
  BY <1>1, <1>2, <1>3, <1>4, EntriesFade

LEMMA TickMenu ==
    ASSUME MenuInv, Me!Tick
    PROVE  MenuInv'
<1>1. now < MaxTime /\ now' = now + 1 /\ UNCHANGED <<overlap, Me!rows, redis, pc, job, clean>>
  BY DEF Me!Tick
<1>2. redis = [q \in Me!Keys |-> redis[q]] /\ now \in Me!Times
  BY DEF MenuInv, MenuTypes
<1>3. now' \in Me!Times /\ now' >= now
  BY <1>1, <1>2, MenuGiven DEF Me!Times
<1> QED
  BY <1>1, <1>2, <1>3, EntriesFade

LEMMA MenuStutters ==
    ASSUME MenuInv, UNCHANGED Me!menu
    PROVE  MenuInv'
<1>1. UNCHANGED <<overlap, now, Me!rows, redis, pc, job, clean>>
  BY DEF Me!menu
<1>2. redis = [q \in Me!Keys |-> redis[q]] /\ now \in Me!Times /\ now \in Nat
  BY MenuGiven DEF MenuInv, MenuTypes, Me!Times
<1>3. now' \in Me!Times /\ now' >= now
  BY <1>1, <1>2
<1> QED
  BY <1>1, <1>2, <1>3, EntriesFade

LEMMA MenuStarts == Me!Init => MenuInv
<1> SUFFICES ASSUME Me!Init PROVE MenuInv
  OBVIOUS
<1>1. now = 1 /\ now \in Me!Times /\ now \in Nat /\ overlap \in BOOLEAN /\ clean = TRUE
  BY MenuGiven DEF Me!Init, Me!Times
<1>2. /\ pc = [h \in Handlers |-> "idle"] /\ job = [h \in Handlers |-> Me!NoJob]
      /\ redis = [k \in Me!Keys |-> None] /\ bands = <<>>
  BY DEF Me!Init
<1>3. cats \in [Cats -> {None} \cup Me!CatRows]
  <2>1. cats \in [Cats -> {None} \cup [active : {TRUE}, order : {1}]]
    BY DEF Me!Init
  <2>2. ASSUME NEW c \in Cats PROVE cats[c] \in {None} \cup Me!CatRows
    BY <2>1, MenuGiven DEF Me!CatRows
  <2>3. cats = [c \in Cats |-> cats[c]]
    BY ONLY <2>1
  <2> QED
    BY ONLY <2>2, <2>3
<1>4. items \in [Items -> {None} \cup Me!ItemRows]
  <2>1. items \in [Items -> {None} \cup [cat : Cats, on : {TRUE}, base : BasePrices]]
    BY DEF Me!Init
  <2>2. ASSUME NEW i \in Items PROVE items[i] \in {None} \cup Me!ItemRows
    BY <2>1 DEF Me!ItemRows
  <2>3. items = [i \in Items |-> items[i]]
    BY ONLY <2>1
  <2> QED
    BY ONLY <2>2, <2>3
<1>5. MenuTypes
  BY <1>1, <1>2, <1>3, <1>4 DEF MenuTypes, MenuSteps
<1>6. OneAtWork
  BY <1>2 DEF OneAtWork
<1>7. \A h \in Handlers : Handed(pc[h], job[h], now)
  BY <1>1, <1>2, IdleHanded
<1>8. BandsInv
  <2>1. ASSUME NEW i \in Items, NEW t \in Me!Times
        PROVE  Covering(i, t) = {} /\ Pricing(i, t) = {}
    BY <1>2 DEF Covering, Pricing
  <2>2. AtOnce \in Nat /\ Cardinality({}) = 0
    BY MenuGiven, FS_CardinalityType, FS_EmptySet DEF AtOnce
  <2> QED
    BY <2>1, <2>2 DEF BandsInv
<1>9. CopiesInv
  BY <1>2 DEF CopiesInv, Gathered
<1> QED
  BY <1>5, <1>6, <1>7, <1>8, <1>9 DEF MenuInv

LEMMA MenuStep == MenuInv /\ [Me!Next]_(Me!menu) => MenuInv'
<1> SUFFICES ASSUME MenuInv, [Me!Next]_(Me!menu) PROVE MenuInv'
  OBVIOUS
<1>1. ASSUME NEW h \in Handlers, NEW r \in Me!Requests, Me!Begin(h, r) PROVE MenuInv'
  BY <1>1, BeginMenu
<1>2. ASSUME NEW h \in Handlers, Me!ReadRedis(h) \/ Me!Query(h) \/ Me!Fill(h) \/ Me!ReadFull(h) PROVE MenuInv'
  BY <1>2, ReadMenu, QueryMenu, FillMenu, ReadFullMenu
<1>3. ASSUME NEW h \in Handlers, Me!LoadItems(h) \/ Me!LoadModifiers(h) \/ Me!LoadPrices(h) \/ Me!FillFull(h) PROVE MenuInv'
  BY <1>3, LoadMenu, PricesMenu, FillFullMenu
<1>4. ASSUME NEW h \in Handlers, Me!Check(h) \/ Me!Write(h) \/ Me!Forget(h) PROVE MenuInv'
  BY <1>4, CheckMenu, WriteMenu, ForgetMenu
<1>5. ASSUME NEW h \in Handlers, Me!ReorderForget(h) \/ Me!ReorderCommit(h) PROVE MenuInv'
  BY <1>5, ReorderForgetMenu, ReorderCommitMenu
<1>6. ASSUME NEW k \in Me!Keys, Me!Expire(k) PROVE MenuInv'
  BY <1>6, ExpireMenu
<1>7. CASE Me!Tick
  BY <1>7, TickMenu
<1>8. CASE UNCHANGED Me!menu
  BY <1>8, MenuStutters
<1> QED
  BY <1>1, <1>2, <1>3, <1>4, <1>5, <1>6, <1>7, <1>8 DEF Me!Next

LEMMA MenuHolds == MenuInv => Me!MenuSound
<1> SUFFICES ASSUME MenuInv PROVE Me!MenuSound
  OBVIOUS
<1>1. Me!TypeOK
  <2>1. Me!Range(bands) \subseteq Me!Bands
    BY DEF MenuInv, MenuTypes, Me!Range
  <2>2. \A h \in Handlers : pc[h] = "idle" <=> job[h] = Me!NoJob
    BY DEF MenuInv, Handed
  <2> QED
    BY <2>1, <2>2 DEF MenuInv, MenuTypes, Me!TypeOK
<1>2. Me!BandsWithinHandlers
  <2> SUFFICES ASSUME NEW i \in Items, NEW t \in Me!Times
               PROVE  Cardinality(Covering(i, t)) <= AtOnce
    <3>1. \A i \in Items, t \in Me!Times : Me!Cardinality(Covering(i, t)) <= IF overlap THEN Me!Cardinality(Handlers) ELSE 1
      <4>1. AtOnce = IF overlap THEN Me!Cardinality(Handlers) ELSE 1
        BY SameMenuSize DEF AtOnce
      <4> QED
        BY <4>1, SameMenuSize
    <3> QED
      BY <3>1 DEF Me!BandsWithinHandlers, Covering
  <2>1. Cardinality(Covering(i, t)) + Cardinality(Pricing(i, t)) <= AtOnce
    BY DEF MenuInv, BandsInv
  <2>2. Cardinality(Pricing(i, t)) \in Nat
    BY MenuGiven, FS_Subset, FS_CardinalityType DEF Pricing
  <2>3. Cardinality(Covering(i, t)) \in Nat
    <3>1. bands \in Seq(Me!Bands)
      BY DEF MenuInv, MenuTypes
    <3>2. Covering(i, t) \subseteq 1..Len(bands) /\ Len(bands) \in Nat
      BY <3>1 DEF Covering
    <3>3. IsFiniteSet(1..Len(bands))
      BY ONLY <3>2, FS_Interval
    <3> QED
      BY <3>2, <3>3, FS_Subset, FS_CardinalityType
  <2>4. AtOnce \in Nat
    BY MenuGiven, FS_CardinalityType DEF AtOnce
  <2> HIDE DEF Covering, Pricing, AtOnce
  <2> QED
    BY <2>1, <2>2, <2>3, <2>4
<1>3. Me!SerialNextReadConsistent
  <2> SUFFICES ASSUME ~overlap, clean, \A h \in Handlers : pc[h] = "idle", NEW k \in Me!Keys, redis[k] # None
               PROVE  IF k[1] = "category"
                      THEN cats[k[2]] # None /\ redis[k].is.active = cats[k[2]].active
                      ELSE redis[k].is = Me!Stored(k, redis[k].at)
    BY DEF Me!SerialNextReadConsistent
  <2>1. Fresh(k)
    BY DEF MenuInv, CopiesInv, Stale
  <2> QED
    BY <2>1 DEF Fresh
<1> QED
  BY <1>1, <1>2, <1>3 DEF Me!MenuSound

(* A behaviour of the menu steps as Menu does. *)
LEMMA MenuRuns == part = "menu" /\ [Next]_all => part' = "menu" /\ [Me!Next]_(Me!menu)
BY DEF Next, all, Me!menu, Me!rows

(* While requests take turns and no call to Redis fails, a copy is what the *)
(* database would have given when it was stored ("the next read is always   *)
(* consistent", Menu.go), but for the display order of a category; however  *)
(* many requests overlap, at no time has an item more price bands than      *)
(* requests run at once, for every number of handlers, categories, items,   *)
(* bands and errors. *)
THEOREM MenuStaysConsistent == Spec => []MenuSound
<1> DEFINE Inv == part = "menu" => MenuInv
<1>1. Init => Inv
  BY MenuStarts DEF Init
<1>2. Inv /\ [Next]_all => Inv'
  <2> SUFFICES ASSUME Inv, [Next]_all, part' = "menu" PROVE MenuInv'
    OBVIOUS
  <2>1. part = "menu"
    BY DEF Next, all
  <2> QED
    BY <2>1, MenuRuns, MenuStep
<1>3. Inv => MenuSound
  BY MenuHolds DEF MenuSound
<1> QED
  BY <1>1, <1>2, <1>3, PTL DEF Spec
=============================================================================
