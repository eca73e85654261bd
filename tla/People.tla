--------------------------------- MODULE People ---------------------------------
(***************************************************************************)
(* CustomerService and EmployeeService (services/People): creation guarded  *)
(* by a count, changes, loyalty points and order totals, and the roles of   *)
(* employees, by requests of one restaurant that may overlap.  A database   *)
(* call is a step; no call runs in a transaction.  Names, addresses, dates, *)
(* amounts and audit rows are left out.                                     *)
(***************************************************************************)
EXTENDS Integers, FiniteSets

CONSTANTS
    Handlers,              \* request goroutines
    Customers, Employees,  \* rows that can exist
    Contacts,              \* e-mail addresses and telephone numbers
    Roles,
    Points,                \* amounts awarded and redeemed
    MaxRequests,           \* bound on changing requests begun
    MaxFaults,             \* bound on failed counts
    Overlaps,              \* whether requests may overlap: the answers to try
    None

VARIABLES
    overlap,
    customers,   \* None or [contacts, active, points, orders]
    employees,   \* None or [contacts, active]
    held,        \* employee_roles: the number of rows of each pair
    pc, job,
    requests, faults, clean,
    ledger,      \* per customer, the points that answers have reported
    recorded,    \* per customer, the orders recorded with success
    adopted      \* rows whose contact was changed or that were reactivated

db == <<customers, employees, held>>
books == <<ledger, recorded, adopted>>
people == <<overlap, db, pc, job, requests, faults, clean, books>>

CustomerRows == [contacts : SUBSET Contacts, active : BOOLEAN, points : Nat, orders : Nat]
EmployeeRows == [contacts : SUBSET Contacts, active : BOOLEAN]

(* What the constants must be. *)
PeopleAssumption ==
    /\ Customers \cap Employees = {} /\ None \notin CustomerRows \cup EmployeeRows
    /\ Points \subseteq Nat /\ Overlaps \subseteq BOOLEAN
    /\ MaxRequests \in Nat /\ MaxFaults \in Nat

(* Requests; a row to create is a free one. *)
Creates ==
    [kind : {"createCustomer"}, who : Customers, contacts : SUBSET Contacts, role : {None}, points : {0}]
      \cup [kind : {"createEmployee"}, who : Employees,
            contacts : {cs \in SUBSET Contacts : Cardinality(cs) <= 1}, role : {None}, points : {0}]
Updates ==
    [kind : {"updateCustomer"}, who : Customers, contacts : SUBSET Contacts, role : {None}, points : {0}]
      \cup [kind : {"updateEmployee"}, who : Employees,
            contacts : {cs \in SUBSET Contacts : Cardinality(cs) <= 1}, role : {None}, points : {0}]
Plain ==
    [kind : {"deactivate", "recordOrder"}, who : Customers, contacts : {{}}, role : {None}, points : {0}]
      \cup [kind : {"award", "redeem"}, who : Customers, contacts : {{}}, role : {None}, points : Points]
      \cup [kind : {"terminate", "reactivate"}, who : Employees, contacts : {{}}, role : {None}, points : {0}]
      \cup [kind : {"assignRole", "revokeRole"}, who : Employees, contacts : {{}}, role : Roles, points : {0}]
Requests == Creates \cup Updates \cup Plain

NoJob == [r |-> None, copy |-> None]

Init ==
    /\ overlap \in Overlaps
    /\ customers = [c \in Customers |-> None]
    /\ employees = [e \in Employees |-> None]
    /\ held = [p \in Employees \X Roles |-> 0]
    /\ pc = [h \in Handlers |-> "idle"] /\ job = [h \in Handlers |-> NoJob]
    /\ requests = 0 /\ faults = 0 /\ clean = TRUE
    /\ ledger = [c \in Customers |-> 0] /\ recorded = [c \in Customers |-> 0]
    /\ adopted = {}

Row(who) == IF who \in Customers THEN customers[who] ELSE employees[who]
Goto(h, step) == pc' = [pc EXCEPT ![h] = step]
Return(h) == Goto(h, "idle") /\ job' = [job EXCEPT ![h] = NoJob]

Begin(h, r) ==
    /\ pc[h] = "idle" /\ requests < MaxRequests
    /\ overlap \/ \A g \in Handlers : pc[g] = "idle"
    /\ requests' = requests + 1
    /\ job' = [job EXCEPT ![h] = [r |-> r, copy |-> None]]
    /\ Goto(h, CASE r \in Creates -> IF r.contacts = {} THEN "insert" ELSE "count"
                 [] r.kind \in {"deactivate", "recordOrder", "revokeRole"} -> "change"
                 [] OTHER -> "find")
    /\ UNCHANGED <<overlap, db, faults, clean, books>>

-----------------------------------------------------------------------------
(* CreateCustomer and CreateEmployee: active rows with the contact are      *)
(* counted, then the row is inserted. *)

Taken(rows, contacts) == \E x \in DOMAIN rows : rows[x] # None /\ rows[x].active /\ rows[x].contacts \cap contacts # {}

(* A count that fails is taken for zero. *)
Count(h) ==
    LET r == job[h].r
    IN /\ pc[h] = "count"
       /\ \/ /\ IF Taken(IF r.who \in Customers THEN customers ELSE employees, r.contacts)
                THEN Return(h) ELSE Goto(h, "insert") /\ UNCHANGED job
             /\ UNCHANGED <<faults, clean>>
          \/ /\ faults < MaxFaults /\ faults' = faults + 1 /\ clean' = FALSE
             /\ Goto(h, "insert") /\ UNCHANGED job
       /\ UNCHANGED <<overlap, db, requests, books>>

Insert(h) ==
    LET r == job[h].r
    IN /\ pc[h] = "insert"
       /\ \/ /\ r.who \in Customers /\ customers[r.who] = None
             /\ customers' = [customers EXCEPT ![r.who] =
                                [contacts |-> r.contacts, active |-> TRUE, points |-> 0, orders |-> 0]]
             /\ UNCHANGED <<employees, held>>
          \/ /\ r.who \in Employees /\ employees[r.who] = None
             /\ employees' = [employees EXCEPT ![r.who] = [contacts |-> r.contacts, active |-> TRUE]]
             /\ UNCHANGED <<customers, held>>
       /\ Return(h)
       /\ UNCHANGED <<overlap, requests, faults, clean, books>>

-----------------------------------------------------------------------------
(* First, getEmployeeForWrite: the copy that the guards look at. *)
Find(h) ==
    LET r == job[h].r
        copy == Row(r.who)
    IN /\ pc[h] = "find"
       /\ IF \/ copy = None
             \/ r.kind = "terminate" /\ ~copy.active
             \/ r.kind = "reactivate" /\ copy.active
             \/ r.kind = "redeem" /\ copy.points < r.points
          THEN Return(h)
          ELSE /\ Goto(h, IF r.kind = "assignRole" THEN "countRole" ELSE "change")
               /\ job' = [job EXCEPT ![h].copy = copy]
       /\ UNCHANGED <<overlap, db, requests, faults, clean, books>>

(* EmployeeService.AssignRole. *)
CountRole(h) ==
    LET pair == <<job[h].r.who, job[h].r.role>>
    IN /\ pc[h] = "countRole"
       /\ \/ /\ IF held[pair] > 0 THEN Return(h) ELSE Goto(h, "change") /\ UNCHANGED job
             /\ UNCHANGED <<faults, clean>>
          \/ /\ faults < MaxFaults /\ faults' = faults + 1 /\ clean' = FALSE
             /\ Goto(h, "change") /\ UNCHANGED job
       /\ UNCHANGED <<overlap, db, requests, books>>

(* AwardPoints and RedeemPoints save a balance computed from the copy, and  *)
(* that column only. *)
SavePoints(h, delta) ==
    LET r == job[h].r
    IN /\ customers' = [customers EXCEPT ![r.who].points = job[h].copy.points + delta]
       /\ ledger' = [ledger EXCEPT ![r.who] = @ + delta]
       /\ UNCHANGED <<employees, held, recorded, adopted>>

(* Mutant: the whole row is saved. *)
Award_WholeRow(h) ==
    /\ job[h].r.kind = "award"
    /\ customers' = [customers EXCEPT ![job[h].r.who] =
                       [job[h].copy EXCEPT !.points = @ + job[h].r.points]]
    /\ ledger' = [ledger EXCEPT ![job[h].r.who] = @ + job[h].r.points]
    /\ UNCHANGED <<employees, held, recorded, adopted>>

Award(h) == job[h].r.kind = "award" /\ SavePoints(h, job[h].r.points)
Redeem(h) == job[h].r.kind = "redeem" /\ SavePoints(h, -job[h].r.points)

(* RecordOrderForCustomer counts in the statement itself. *)
RecordOrder(h) ==
    LET who == job[h].r.who
    IN /\ job[h].r.kind = "recordOrder"
       /\ IF customers[who] = None THEN UNCHANGED <<customers, recorded>>
          ELSE /\ customers' = [customers EXCEPT ![who].orders = @ + 1]
               /\ recorded' = [recorded EXCEPT ![who] = @ + 1]
       /\ UNCHANGED <<employees, held, ledger, adopted>>

UpdateCustomer(h) ==
    LET r == job[h].r
    IN /\ r.kind = "updateCustomer"
       /\ customers' = [customers EXCEPT ![r.who].contacts = r.contacts]
       /\ adopted' = adopted \cup {r.who}
       /\ UNCHANGED <<employees, held, ledger, recorded>>

DeactivateCustomer(h) ==
    LET who == job[h].r.who
    IN /\ job[h].r.kind = "deactivate"
       /\ customers' = [customers EXCEPT ![who] = IF @ = None THEN None ELSE [@ EXCEPT !.active = FALSE]]
       /\ UNCHANGED <<employees, held, books>>

UpdateEmployee(h) ==
    LET r == job[h].r
    IN /\ r.kind = "updateEmployee"
       /\ employees' = [employees EXCEPT ![r.who].contacts = r.contacts]
       /\ adopted' = adopted \cup {r.who}
       /\ UNCHANGED <<customers, held, ledger, recorded>>

(* TerminateEmployee and ReactivateEmployee; nobody counts again. *)
SetActive(h) ==
    LET r == job[h].r
    IN /\ r.kind \in {"terminate", "reactivate"}
       /\ employees' = [employees EXCEPT ![r.who].active = (r.kind = "reactivate")]
       /\ adopted' = IF r.kind = "reactivate" THEN adopted \cup {r.who} ELSE adopted
       /\ UNCHANGED <<customers, held, ledger, recorded>>

(* RevokeRole deletes every row of the pair and looks for no employee. *)
ChangeRole(h) ==
    LET r == job[h].r
    IN /\ r.kind \in {"assignRole", "revokeRole"}
       /\ held' = [held EXCEPT ![<<r.who, r.role>>] = IF r.kind = "revokeRole" THEN 0 ELSE @ + 1]
       /\ UNCHANGED <<customers, employees, books>>

Change(h) ==
    /\ pc[h] = "change"
    /\ \/ Award(h) \/ Redeem(h) \/ RecordOrder(h) \/ UpdateCustomer(h) \/ DeactivateCustomer(h)
       \/ UpdateEmployee(h) \/ SetActive(h) \/ ChangeRole(h)
    /\ Return(h)
    /\ UNCHANGED <<overlap, requests, faults, clean>>

Next == \E h \in Handlers :
          \/ \E r \in Requests : Begin(h, r)
          \/ Count(h) \/ Insert(h) \/ Find(h) \/ CountRole(h) \/ Change(h)

Spec == Init /\ [][Next]_people

-----------------------------------------------------------------------------
(* Types.  A redemption is checked against the copy it saves, so that       *)
(* however requests overlap no balance is ever negative. *)
TypeOK ==
    /\ customers \in [Customers -> {None} \cup CustomerRows]
    /\ employees \in [Employees -> {None} \cup EmployeeRows]
    /\ held \in [Employees \X Roles -> Nat]
    /\ adopted \subseteq Customers \cup Employees
    /\ requests \in 0..MaxRequests /\ faults \in 0..MaxFaults

(* The order count is added to in SQL and points are saved column by        *)
(* column: whatever overlaps, no recorded order is lost. *)
OrdersCounted ==
    \A c \in Customers : customers[c] # None => customers[c].orders = recorded[c]

(* Without overlap a customer has the points that the answers add up to. *)
SerialLedger ==
    ~overlap => \A c \in Customers : customers[c] # None => customers[c].points = ledger[c]

(* Without overlap or error two active rows share a contact only if one of  *)
(* them got it by an update or a reactivation, which no guard counts, and a *)
(* role is assigned to an employee once. *)
SerialNoDuplicate ==
    LET share(rows) == \E x, y \in DOMAIN rows :
            /\ x # y /\ {x, y} \cap adopted = {}
            /\ rows[x] # None /\ rows[y] # None /\ rows[x].active /\ rows[y].active
            /\ rows[x].contacts \cap rows[y].contacts # {}
    IN ~overlap /\ clean => ~share(customers) /\ ~share(employees) /\ \A p \in DOMAIN held : held[p] <= 1

PeopleSound == TypeOK /\ OrdersCounted /\ SerialLedger /\ SerialNoDuplicate
=============================================================================
