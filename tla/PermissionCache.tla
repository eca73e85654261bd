---------------------------- MODULE PermissionCache ----------------------------
(***************************************************************************)
(* RBACService (services/core/rbac.go) over the roles of one user: the     *)
(* two-layer PermissionCache, Authorize, AssignRole and RevokeRole, and the *)
(* deletion of a role (handlers/role.go), by requests on several pods.     *)
(*                                                                         *)
(* L1 is a map in each pod, L2 is Redis.  A database or Redis call is a    *)
(* step; a request has a deadline, after which those calls fail.  What a   *)
(* set of roles permits is the subject of PolicyEngine: here a user's      *)
(* permissions are the set of his roles.                                   *)
(***************************************************************************)
EXTENDS Integers, Sequences, FiniteSets, FiniteSetsExt

CONSTANTS
    Handlers,     \* request goroutines
    PodOf,        \* the pod each runs on
    Roles,        \* roles rows that can exist
    SystemRoles,  \* those with is_system
    MaxRoles,     \* maxRolesPerUser
    TtlL1, TtlL2, \* lifetimes of the layers, in ticks
    MaxWrites,    \* bound on assignments, revocations and deletions begun
    MaxTime,      \* bound on the clock
    MaxFaults,    \* bound on Redis and database errors
    Overlaps,     \* whether requests may overlap: the answers to try
    None          \* no entry, no answer, no role

ASSUME CacheAssumption ==
    /\ IsFiniteSet(Handlers) /\ Handlers # {} /\ IsFiniteSet(Roles)
    /\ PodOf \in [Handlers -> Nat]
    /\ SystemRoles \subseteq Roles /\ None \notin Roles
    /\ MaxRoles \in Nat \ {0} /\ TtlL1 \in Nat \ {0} /\ TtlL2 \in Nat \ {0}
    /\ MaxWrites \in Nat /\ MaxTime \in Nat \ {0} /\ MaxFaults \in Nat
    /\ Overlaps \subseteq BOOLEAN

VARIABLES
    overlap,   \* the answer of this behaviour
    now,
    exists,    \* roles rows
    assigned,  \* roles of the user in user_roles
    l1,        \* per pod: None or [perms, until]
    l2,        \* Redis: None or [perms, until]
    pc, job,   \* next step and copies of each handler
    answer,    \* permissions Authorize decides on in this step, or None
    past,      \* per tick: the permissions the database has held
    dirty,     \* pods whose L1 another pod's change has left behind
    writes, faults,
    clean      \* no call has failed yet

database == <<exists, assigned, past>>
layers == <<l1, l2>>
cache == <<overlap, now, database, layers, pc, job, answer, dirty, writes, faults, clean>>

Pods == {PodOf[h] : h \in Handlers}
NoJob == [role |-> None, perms |-> {}, start |-> 0]

(* A user with a deleted role cannot be resolved (ErrRoleNotFound). *)
Resolvable == assigned \subseteq exists

Init ==
    /\ overlap \in Overlaps
    /\ now = 1
    /\ exists = Roles
    /\ assigned \in {rs \in SUBSET Roles : Cardinality(rs) <= MaxRoles}
    /\ l1 = [p \in Pods |-> None] /\ l2 = None
    /\ pc = [h \in Handlers |-> "idle"]
    /\ job = [h \in Handlers |-> NoJob]
    /\ answer = None
    /\ past = <<{assigned}>>
    /\ dirty = {} /\ writes = 0 /\ faults = 0 /\ clean = TRUE

-----------------------------------------------------------------------------
(* Mutant: an entry past its expiry still answers. *)
Fresh_Always(entry) == entry # None

Fresh(entry) == entry # None /\ now < entry.until

Begin(h, step, role) ==
    /\ pc[h] = "idle"
    /\ overlap \/ \A g \in Handlers : pc[g] = "idle"
    /\ pc' = [pc EXCEPT ![h] = step]
    /\ job' = [job EXCEPT ![h] = [role |-> role, perms |-> {}, start |-> now]]

Goto(h, step) == pc' = [pc EXCEPT ![h] = step]
Return(h) == Goto(h, "idle") /\ job' = [job EXCEPT ![h] = NoJob]

(* The context of the request has not run out. *)
InTime(h) == job[h].start = now

Store(h, perms) == l1' = [l1 EXCEPT ![PodOf[h]] = [perms |-> perms, until |-> now + TtlL1]]
Answer(h, perms) == answer' = perms /\ Return(h)

(* The database's value after a change, for the record of the past. *)
Assigned(rs) ==
    /\ assigned' = rs
    /\ past' = [past EXCEPT ![now] = @ \cup {rs}]

-----------------------------------------------------------------------------
(* Authorize: Get, on a miss load and Set, evaluate. *)

(* L1: an entry that has not expired answers; one that has is deleted. *)
GetL1(h) ==
    LET e == l1[PodOf[h]] IN
    /\ IF Fresh(e)
       THEN /\ \A g \in Handlers : pc[g] # "idle" => overlap
            /\ pc[h] = "idle"
            /\ answer' = e.perms
            /\ UNCHANGED <<l1, pc, job>>
       ELSE /\ Begin(h, "l2", None)
            /\ l1' = [l1 EXCEPT ![PodOf[h]] = None]
            /\ answer' = None
    /\ UNCHANGED <<overlap, clean, now, database, l2, dirty, writes, faults>>

(* L2: GET; Redis drops the key at its expiry. *)
GetL2(h) ==
    /\ pc[h] = "l2" /\ InTime(h)
    /\ IF Fresh(l2)
       THEN Goto(h, "backfill") /\ job' = [job EXCEPT ![h].perms = l2.perms]
       ELSE Goto(h, "load") /\ UNCHANGED job
    /\ answer' = None
    /\ UNCHANGED <<overlap, clean, now, database, layers, dirty, writes, faults>>

Backfill(h) ==
    /\ pc[h] = "backfill"
    /\ Store(h, job[h].perms)
    /\ Answer(h, job[h].perms)
    /\ dirty' = dirty \ {PodOf[h]}
    /\ UNCHANGED <<overlap, clean, now, database, l2, writes, faults>>

(* loadUserPermissions. *)
Load(h) ==
    /\ pc[h] = "load" /\ InTime(h)
    /\ IF Resolvable
       THEN Goto(h, "setL2") /\ job' = [job EXCEPT ![h].perms = assigned]
       ELSE Return(h)
    /\ answer' = None
    /\ UNCHANGED <<overlap, clean, now, database, layers, dirty, writes, faults>>

(* Set: Redis first, whose error is ignored, then the local map. *)
SetL2(h) ==
    /\ pc[h] = "setL2" /\ InTime(h)
    /\ l2' = [perms |-> job[h].perms, until |-> now + TtlL2]
    /\ Goto(h, "setL1")
    /\ answer' = None
    /\ UNCHANGED <<overlap, clean, now, database, l1, job, dirty, writes, faults>>

SetL1(h) ==
    /\ pc[h] = "setL1"
    /\ Store(h, job[h].perms)
    /\ Answer(h, job[h].perms)
    /\ dirty' = dirty \ {PodOf[h]}
    /\ UNCHANGED <<overlap, clean, now, database, l2, writes, faults>>

-----------------------------------------------------------------------------
(* Changes of the user's roles.  That the actor may make them is taken as   *)
(* given: it is an Authorize of another user. *)

MayWrite == writes < MaxWrites /\ writes' = writes + 1

(* AssignRole: the role must exist; the cap is counted ... *)
AssignLookup(h, r) ==
    /\ MayWrite /\ r \in exists
    /\ Begin(h, "assignCount", r)
    /\ answer' = None
    /\ UNCHANGED <<overlap, clean, now, database, layers, dirty, faults>>

AssignCount(h) ==
    /\ pc[h] = "assignCount" /\ InTime(h)
    /\ IF Cardinality(assigned) >= MaxRoles THEN Return(h) ELSE Goto(h, "assignFind") /\ UNCHANGED job
    /\ answer' = None
    /\ UNCHANGED <<overlap, clean, now, database, layers, dirty, writes, faults>>

(* ... the pair is looked up ... *)
AssignFind(h) ==
    /\ pc[h] = "assignFind" /\ InTime(h)
    /\ IF job[h].role \in assigned THEN Return(h) ELSE Goto(h, "insert") /\ UNCHANGED job
    /\ answer' = None
    /\ UNCHANGED <<overlap, clean, now, database, layers, dirty, writes, faults>>

(* ... and the row is inserted, unless the unique index refuses it. *)
InsertAssignment(h) ==
    /\ pc[h] = "insert" /\ InTime(h)
    /\ IF job[h].role \in assigned THEN Return(h) /\ UNCHANGED <<assigned, past>>
       ELSE Assigned(assigned \cup {job[h].role}) /\ Goto(h, "forgetL1") /\ UNCHANGED job
    /\ answer' = None
    /\ UNCHANGED <<overlap, clean, now, exists, layers, dirty, writes, faults>>

(* RevokeRole: no system role; a row that is not there is an error. *)
RevokeLookup(h, r) ==
    /\ MayWrite /\ r \in exists \ SystemRoles
    /\ Begin(h, "delete", r)
    /\ answer' = None
    /\ UNCHANGED <<overlap, clean, now, database, layers, dirty, faults>>

DeleteAssignment(h) ==
    /\ pc[h] = "delete" /\ InTime(h)
    /\ IF job[h].role \notin assigned THEN Return(h) /\ UNCHANGED <<assigned, past>>
       ELSE Assigned(assigned \ {job[h].role}) /\ Goto(h, "forgetL1") /\ UNCHANGED job
    /\ answer' = None
    /\ UNCHANGED <<overlap, clean, now, exists, layers, dirty, writes, faults>>

(* Invalidate: this pod's L1, then Redis.  The other pods keep theirs. *)
ForgetL1(h) ==
    /\ pc[h] = "forgetL1"
    /\ l1' = [l1 EXCEPT ![PodOf[h]] = None]
    /\ dirty' = (dirty \cup Pods) \ {PodOf[h]}
    /\ Goto(h, "forgetL2")
    /\ answer' = None
    /\ UNCHANGED <<overlap, clean, now, database, l2, job, writes, faults>>

(* Mutant: only this pod's layer is invalidated. *)
ForgetL2_Local(h) ==
    /\ pc[h] = "forgetL2" /\ InTime(h)
    /\ l2' = l2
    /\ Return(h)
    /\ answer' = None
    /\ UNCHANGED <<overlap, clean, now, database, l1, dirty, writes, faults>>

ForgetL2(h) ==
    /\ pc[h] = "forgetL2" /\ InTime(h)
    /\ l2' = None
    /\ Return(h)
    /\ answer' = None
    /\ UNCHANGED <<overlap, clean, now, database, l1, dirty, writes, faults>>

-----------------------------------------------------------------------------
(* Deletion of a role by its handler, which consults no cache. *)

DeleteRoleLookup(h, r) ==
    /\ MayWrite /\ r \in exists \ SystemRoles
    /\ Begin(h, "countUsers", r)
    /\ answer' = None
    /\ UNCHANGED <<overlap, clean, now, database, layers, dirty, faults>>

CountUsers(h) ==
    /\ pc[h] = "countUsers"
    /\ IF job[h].role \in assigned THEN Return(h) ELSE Goto(h, "deleteRole") /\ UNCHANGED job
    /\ answer' = None
    /\ UNCHANGED <<overlap, clean, now, database, layers, dirty, writes, faults>>

DeleteRole(h) ==
    /\ pc[h] = "deleteRole"
    /\ exists' = exists \ {job[h].role}
    /\ Return(h)
    /\ answer' = None
    /\ UNCHANGED <<overlap, clean, now, assigned, past, layers, dirty, writes, faults>>

-----------------------------------------------------------------------------
Fails(h) ==
    /\ clean' = FALSE
    /\ \/ InTime(h) /\ faults < MaxFaults /\ faults' = faults + 1
       \/ ~InTime(h) /\ UNCHANGED faults

(* A Redis call fails or the deadline has passed: a GET is a miss, the      *)
(* errors of SET and DEL are ignored. *)
RedisFails(h) ==
    /\ Fails(h)
    /\ \/ pc[h] = "l2" /\ Goto(h, "load") /\ UNCHANGED job
       \/ pc[h] = "setL2" /\ Goto(h, "setL1") /\ UNCHANGED job
       \/ pc[h] = "forgetL2" /\ Return(h)
    /\ answer' = None
    /\ UNCHANGED <<overlap, now, database, layers, dirty, writes>>

(* A database call fails.  Two reads are taken for an empty result: the     *)
(* count of the user's roles and the lookup of the pair; so is the count of *)
(* a role's users.  Any other error ends the request. *)
DatabaseFails(h) ==
    /\ Fails(h)
    /\ \/ pc[h] = "assignCount" /\ Goto(h, "assignFind") /\ UNCHANGED job
       \/ pc[h] = "assignFind" /\ Goto(h, "insert") /\ UNCHANGED job
       \/ pc[h] = "countUsers" /\ Goto(h, "deleteRole") /\ UNCHANGED job
       \/ pc[h] \in {"load", "insert", "delete", "deleteRole"} /\ Return(h)
    /\ answer' = None
    /\ UNCHANGED <<overlap, now, database, layers, dirty, writes>>

(* Time passes; a request lasts into the next tick at most. *)
Tick ==
    /\ now < MaxTime
    /\ \A h \in Handlers : pc[h] # "idle" => InTime(h)
    /\ now' = now + 1
    /\ past' = Append(past, {assigned})
    /\ answer' = None
    /\ UNCHANGED <<overlap, clean, exists, assigned, layers, pc, job, dirty, writes, faults>>

Next ==
    \/ \E h \in Handlers :
         \/ GetL1(h) \/ GetL2(h) \/ Backfill(h) \/ Load(h) \/ SetL2(h) \/ SetL1(h)
         \/ AssignCount(h) \/ AssignFind(h) \/ InsertAssignment(h) \/ DeleteAssignment(h)
         \/ ForgetL1(h) \/ ForgetL2(h) \/ CountUsers(h) \/ DeleteRole(h)
         \/ RedisFails(h) \/ DatabaseFails(h)
         \/ \E r \in Roles : AssignLookup(h, r) \/ RevokeLookup(h, r) \/ DeleteRoleLookup(h, r)
    \/ Tick

Spec == Init /\ [][Next]_cache

-----------------------------------------------------------------------------
Idle == \A h \in Handlers : pc[h] = "idle"
Entries == {None} \cup [perms : SUBSET Roles, until : 0..MaxTime + TtlL1 + TtlL2]

(* Types; a handler has an answer only in the shape Authorize gives it. *)
TypeOK ==
    /\ overlap \in BOOLEAN /\ clean \in BOOLEAN
    /\ exists \subseteq Roles /\ assigned \subseteq Roles
    /\ l1 \in [Pods -> Entries] /\ l2 \in Entries
    /\ pc \in [Handlers -> {"idle", "l2", "backfill", "load", "setL2", "setL1", "assignCount",
                            "assignFind", "insert", "delete", "forgetL1", "forgetL2", "countUsers",
                            "deleteRole"}]
    /\ job \in [Handlers -> [role : Roles \cup {None}, perms : SUBSET Roles, start : 0..MaxTime]]
    /\ answer \in {None} \cup SUBSET Roles
    /\ dirty \subseteq Pods
    /\ now \in 1..MaxTime /\ Len(past) = now /\ writes \in 0..MaxWrites /\ faults \in 0..MaxFaults

(* Whatever overlaps and fails, each decision of Authorize is made on a set *)
(* of roles the user had at most TtlL1 + TtlL2 - 1 ticks ago: a backfill    *)
(* gives an old L2 entry a whole new life in L1, and the two lifetimes add  *)
(* up.  Every step is a step of StaleRegister or leaves it alone. *)
Register == INSTANCE StaleRegister
    WITH value <- assigned, Values <- SUBSET Roles,
         MaxStale <- TtlL1 + TtlL2 - 1, NoAnswer <- None
RegisterSpec == Register!Spec

(* The count and the insert are apart: requests that overlap exceed the cap *)
(* of AssignRole by one role each, and no more while no count fails. *)
RolesWithinCap ==
    clean => Cardinality(assigned) <= MaxRoles - 1 + (IF overlap THEN Cardinality(Handlers) ELSE 1)

(* After a change made without overlap or error the shared layer and the    *)
(* L1 of the pod that made it hold the roles the user has: only the other   *)
(* pods' L1 can be behind. *)
SerialCacheFresh ==
    ~overlap /\ clean /\ Idle =>
        /\ Fresh(l2) => l2.perms = assigned
        /\ \A p \in Pods \ dirty : Fresh(l1[p]) => l1[p].perms = assigned

(* The deletion of a role counts its users and deletes it later: without    *)
(* overlap or error no user is left with a role that is gone, whom          *)
(* loadUserPermissions would refuse everything. *)
SerialNoDanglingRole == ~overlap /\ clean => Resolvable

(* The types, the cap, the freshness and the deletion of roles together. *)
CacheSound == TypeOK /\ RolesWithinCap /\ SerialCacheFresh /\ SerialNoDanglingRole
=============================================================================
