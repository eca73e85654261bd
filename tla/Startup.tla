-------------------------------- MODULE Startup --------------------------------
(***************************************************************************)
(* seedSuperAdmin (main.go) and SeedSystemRoles (services/core/rbac.go): a  *)
(* pod that boots makes the System tenant, the system roles with their      *)
(* policies, the super admin and his role, unless it finds them.  Several   *)
(* pods can boot together and crash at any step; whatever seeding returns,  *)
(* the pod goes on to serve.  A database call, or the transaction that      *)
(* makes a role, is a step.                                                 *)
(***************************************************************************)
EXTENDS Integers, Sequences, FiniteSets

CONSTANTS
    Pods,
    SystemRoles,            \* the sequence in which they are seeded, the super admin's first
    MaxCrashes, MaxFaults   \* bounds on crashes and on database errors

VARIABLES
    rows,     \* what the database has: "tenant", "user", "assigned" and roles
    pc,       \* per pod
    seeding,  \* per pod, the number of the role it is at
    crashes, faults

startup == <<rows, pc, seeding, crashes, faults>>

Superadmin == SystemRoles[1]
Roles == {SystemRoles[i] : i \in DOMAIN SystemRoles}

(* What the constants must be; a row is named apart from the others. *)
StartupAssumption ==
    /\ Pods # {}
    /\ SystemRoles \in Seq(Roles) \ {<<>>} /\ Roles \cap {"tenant", "user", "assigned"} = {}
    /\ MaxCrashes \in Nat /\ MaxFaults \in Nat

Init ==
    /\ rows = {}
    /\ pc = [p \in Pods |-> "findTenant"] /\ seeding = [p \in Pods |-> 1]
    /\ crashes = 0 /\ faults = 0

Goto(p, step) == pc' = [pc EXCEPT ![p] = step] /\ UNCHANGED <<seeding, crashes>>

(* First: a lookup that fails is taken for one that finds nothing. *)
Lookup(p, row, found, missing) ==
    /\ UNCHANGED rows
    /\ \/ Goto(p, IF row \in rows THEN found ELSE missing) /\ UNCHANGED faults
       \/ Goto(p, missing) /\ faults < MaxFaults /\ faults' = faults + 1

(* Create: the unique indexes (tenant status, user name, role name, and     *)
(* user, role and tenant of an assignment) refuse a second row. *)
Insert(p, row, done, refused) ==
    \/ /\ rows' = rows \cup {row}
       /\ Goto(p, IF row \in rows THEN refused ELSE done) /\ UNCHANGED faults
    \/ UNCHANGED rows /\ Goto(p, refused) /\ faults < MaxFaults /\ faults' = faults + 1

FindTenant(p) == pc[p] = "findTenant" /\ Lookup(p, "tenant", "findSeed", "createTenant")
CreateTenant(p) == pc[p] = "createTenant" /\ Insert(p, "tenant", "findSeed", "serving")

(* SeedSystemRoles gives up at the first role it cannot create. *)
AllSeeded(p) == seeding[p] > Len(SystemRoles)
NextRole(p) ==
    /\ pc' = [pc EXCEPT ![p] = "findSeed"] /\ seeding' = [seeding EXCEPT ![p] = @ + 1]
    /\ UNCHANGED crashes

FindSeed(p) ==
    /\ pc[p] = "findSeed" /\ UNCHANGED rows
    /\ IF AllSeeded(p) THEN Goto(p, "findUser") /\ UNCHANGED faults
       ELSE \/ SystemRoles[seeding[p]] \in rows /\ NextRole(p) /\ UNCHANGED faults
            \/ SystemRoles[seeding[p]] \notin rows /\ Goto(p, "createSeed") /\ UNCHANGED faults
            \/ faults < MaxFaults /\ faults' = faults + 1 /\ Goto(p, "createSeed")

CreateSeed(p) ==
    LET role == SystemRoles[seeding[p]]
    IN /\ pc[p] = "createSeed"
       /\ \/ /\ role \notin rows /\ rows' = rows \cup {role}
             /\ NextRole(p) /\ UNCHANGED faults
          \/ role \in rows /\ Goto(p, "findUser") /\ UNCHANGED <<rows, faults>>
          \/ faults < MaxFaults /\ faults' = faults + 1 /\ Goto(p, "findUser") /\ UNCHANGED rows

(* Mutant: an existing user is left alone. *)
FindUser_Done(p) == pc[p] = "findUser" /\ Lookup(p, "user", "serving", "createUser")

FindUser(p) == pc[p] = "findUser" /\ Lookup(p, "user", "findRole", "createUser")
CreateUser(p) == pc[p] = "createUser" /\ Insert(p, "user", "findRole", "serving")

(* ensureSuperAdminRole. *)
FindRole(p) == pc[p] = "findRole" /\ Lookup(p, Superadmin, "findAssigned", "serving")
FindAssigned(p) == pc[p] = "findAssigned" /\ Lookup(p, "assigned", "serving", "assign")
Assign(p) == pc[p] = "assign" /\ Insert(p, "assigned", "serving", "serving")

(* A crashed pod is started again, from the first step. *)
Crash(p) ==
    /\ crashes < MaxCrashes /\ crashes' = crashes + 1
    /\ pc' = [pc EXCEPT ![p] = "findTenant"] /\ seeding' = [seeding EXCEPT ![p] = 1]
    /\ UNCHANGED <<rows, faults>>

Next == \E p \in Pods :
    \/ FindTenant(p) \/ CreateTenant(p) \/ FindSeed(p) \/ CreateSeed(p) \/ FindUser(p) \/ CreateUser(p)
    \/ FindRole(p) \/ FindAssigned(p) \/ Assign(p) \/ Crash(p)

Spec == Init /\ [][Next]_startup

-----------------------------------------------------------------------------
(* Types; what hangs on a row is there only with it. *)
TypeOK ==
    /\ rows \subseteq {"tenant", "user", "assigned"} \cup Roles
    /\ seeding \in [Pods -> 1..Len(SystemRoles) + 1]
    /\ "assigned" \in rows => {"user", Superadmin} \subseteq rows
    /\ rows # {} => "tenant" \in rows

(* Without database errors, when every pod has booted there are the tenant, *)
(* all system roles and a super admin with his role, although pods that     *)
(* boot together refuse each other's rows and give up what the other then   *)
(* leaves undone by crashing. *)
BootedMeansSeeded ==
    faults = 0 /\ (\A p \in Pods : pc[p] = "serving") =>
        rows = {"tenant", "user", "assigned"} \cup Roles

StartupSound == TypeOK /\ BootedMeansSeeded
=============================================================================
