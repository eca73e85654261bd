------------------------------ MODULE AccessProofs ------------------------------
(***************************************************************************)
(* PermissionCache implements StaleRegister: for any number of requests,   *)
(* pods, roles and ticks, Authorize never decides on roles the user has    *)
(* not had within the sum of the two lifetimes.                            *)
(*                                                                         *)
(* The step invariant dates every copy of the user's roles: what a layer   *)
(* or a request holds is a value the database held at a tick the copy's    *)
(* expiry, or the start of the request, gives away.                        *)
(***************************************************************************)
EXTENDS Access, FiniteSetTheorems, TLAPS

(* An entry of either layer. *)
EntryType == [perms : SUBSET Roles, until : Nat]
(* Where a request can stand. *)
Steps == {"idle", "l2", "backfill", "load", "setL2", "setL1", "assignCount", "assignFind", "insert", "delete",
          "forgetL1", "forgetL2", "countUsers", "deleteRole"}
(* What a request carries along. *)
JobType == [role : Roles \cup {None}, perms : SUBSET Roles, start : Nat]

(* Types of the database and its past. *)
DatabaseType ==
    /\ now \in Nat \ {0}
    /\ past \in Seq(SUBSET SUBSET Roles) /\ Len(past) = now
    /\ assigned \in SUBSET Roles /\ assigned \in past[now]

(* Types of the layers and of the requests. *)
CopiesType ==
    /\ l1 \in [Pods -> {None} \cup EntryType]
    /\ l2 \in {None} \cup EntryType
    /\ pc \in [Handlers -> Steps]
    /\ job \in [Handlers -> JobType]

(* The database has held perms at some tick from since on. *)
Recent(perms, since) == \E t \in 1..now : since <= t /\ perms \in past[t]

L1Inv == \A p \in Pods : l1[p] # None => Recent(l1[p].perms, l1[p].until - TtlL1 - TtlL2)

L2Inv == l2 # None => Recent(l2.perms, l2.until - TtlL2)

(* A request lasts into the next tick at most; what it holds of the roles   *)
(* was read no earlier than in its first tick, or from an entry of Redis    *)
(* that was alive then. *)
JobInv(h) ==
    /\ pc[h] \in {"assignCount", "assignFind", "insert"} => job[h].role \in Roles
    /\ pc[h] # "idle" => now - 1 <= job[h].start /\ job[h].start <= now
    /\ pc[h] = "backfill" => Recent(job[h].perms, job[h].start + 1 - TtlL2)
    /\ pc[h] \in {"setL2", "setL1"} => Recent(job[h].perms, job[h].start)

(* The step invariant. *)
CacheInv ==
    /\ DatabaseType /\ CopiesType
    /\ L1Inv /\ L2Inv
    /\ \A h \in Handlers : JobInv(h)

-----------------------------------------------------------------------------
(* What the database has held stays in the record of the past. *)
LEMMA PastGrows ==
    ASSUME CacheInv, [Next]_cache
    PROVE  /\ now \in Nat /\ now' \in Nat \ {0} /\ now <= now'
           /\ past' \in Seq(SUBSET SUBSET Roles) /\ Len(past') = now'
           /\ assigned' \in SUBSET Roles /\ assigned' \in past'[now']
           /\ \A t \in 1..now : past[t] \subseteq past'[t]
<1> USE DEF CacheInv, CopiesType, JobInv
<1>1. CASE UNCHANGED <<now, assigned, past>>
  BY <1>1 DEF DatabaseType
<1>2. ASSUME NEW rs \in SUBSET Roles, Assigned(rs), now' = now
      PROVE  /\ past' \in Seq(SUBSET SUBSET Roles) /\ Len(past') = now'
             /\ assigned' \in SUBSET Roles /\ assigned' \in past'[now']
             /\ \A t \in 1..now : past[t] \subseteq past'[t]
  BY <1>2 DEF DatabaseType, Assigned
<1>3. CASE Tick
  <2>1. /\ now' = now + 1 /\ past' = Append(past, {assigned}) /\ assigned' = assigned
    BY <1>3 DEF Tick
  <2> QED
    BY <2>1 DEF DatabaseType
<1>4. ASSUME NEW h \in Handlers, InsertAssignment(h) \/ DeleteAssignment(h)
      PROVE  \/ UNCHANGED <<now, assigned, past>>
             \/ now' = now /\ (\E rs \in SUBSET Roles : Assigned(rs))
  BY <1>4 DEF InsertAssignment, DeleteAssignment, DatabaseType, JobType
<1> QED
  BY <1>1, <1>2, <1>3, <1>4
  DEF Next, cache, database, DatabaseType, GetL1, GetL2, Backfill, Load, SetL2, SetL1, AssignCount,
      AssignFind, ForgetL1, ForgetL2, CountUsers, DeleteRole, RedisFails, DatabaseFails,
      AssignLookup, RevokeLookup, DeleteRoleLookup

(* What was recent stays so: time only adds to the past. *)
LEMMA RecentStays ==
    ASSUME CacheInv, [Next]_cache, NEW perms \in SUBSET Roles, NEW since \in Int, Recent(perms, since)
    PROVE  Recent(perms, since)'
<1>1. PICK t \in 1..now : since <= t /\ perms \in past[t]
  BY DEF Recent
<1>2. t \in 1..now' /\ perms \in past'[t]
  BY <1>1, PastGrows
<1> QED
  BY <1>1, <1>2 DEF Recent

-----------------------------------------------------------------------------
(* The invariant holds initially. *)
LEMMA CacheInit == Init => CacheInv
<1> SUFFICES ASSUME Init PROVE CacheInv
  OBVIOUS
<1>1. DatabaseType
  <2>1. assigned \in SUBSET Roles /\ past = <<{assigned}>> /\ now = 1
    BY DEF Init
  <2> QED
    BY <2>1 DEF DatabaseType
<1>2. /\ l1 = [p \in Pods |-> None] /\ l2 = None
      /\ pc = [h \in Handlers |-> "idle"] /\ job = [h \in Handlers |-> NoJob]
  BY DEF Init
<1>3. NoJob \in JobType
  BY DEF NoJob, JobType
<1>4. CopiesType
  <2>1. l1 \in [Pods -> {None} \cup EntryType] /\ l2 \in {None} \cup EntryType
    BY <1>2
  <2>2. pc \in [Handlers -> Steps]
    BY <1>2 DEF Steps
  <2>3. job \in [Handlers -> JobType]
    BY <1>2, <1>3
  <2> QED
    BY <2>1, <2>2, <2>3 DEF CopiesType
<1>5. L1Inv /\ L2Inv /\ \A h \in Handlers : JobInv(h)
  BY <1>2 DEF L1Inv, L2Inv, JobInv
<1> QED
  BY <1>1, <1>4, <1>5 DEF CacheInv

(* A step of request h, seen from its own copies: what it has to keep so    *)
(* that the invariant is kept. *)
OwnStep(h) ==
    /\ pc' = [pc EXCEPT ![h] = pc'[h]] /\ pc'[h] \in Steps
    /\ job' = [job EXCEPT ![h] = job'[h]] /\ job'[h] \in JobType
    /\ now' = now

(* A request's own step does not touch what others carry. *)
LEMMA OthersKept ==
    ASSUME CacheInv, [Next]_cache, NEW h \in Handlers, OwnStep(h), JobInv(h)'
    PROVE  /\ pc' \in [Handlers -> Steps] /\ job' \in [Handlers -> JobType]
           /\ \A g \in Handlers : JobInv(g)'
<1>1. pc \in [Handlers -> Steps] /\ job \in [Handlers -> JobType]
  BY DEF CacheInv, CopiesType
<1>2. /\ pc' \in [Handlers -> Steps] /\ job' \in [Handlers -> JobType]
      /\ \A g \in Handlers : g # h => pc'[g] = pc[g] /\ job'[g] = job[g]
  BY <1>1 DEF OwnStep
<1>3. ASSUME NEW g \in Handlers, g # h PROVE JobInv(g)'
  <2>1. JobInv(g) /\ pc'[g] = pc[g] /\ job'[g] = job[g] /\ now' = now
    BY <1>2, <1>3 DEF CacheInv, OwnStep
  <2>2. job[g] \in JobType /\ TtlL2 \in Nat \ {0}
    BY <1>1, CacheAssumption
  <2>3. /\ job[g].perms \in SUBSET Roles
        /\ job[g].start \in Int /\ job[g].start + 1 - TtlL2 \in Int
    BY <2>2 DEF JobType
  <2>4. /\ Recent(job[g].perms, job[g].start) => Recent(job[g].perms, job[g].start)'
        /\ Recent(job[g].perms, job[g].start + 1 - TtlL2) => Recent(job[g].perms, job[g].start + 1 - TtlL2)'
    BY <2>3, <2>1, RecentStays
  <2> QED
    BY <2>1, <2>4 DEF JobInv
<1> QED
  BY <1>2, <1>3

(* Steps that leave both layers alone. *)
LEMMA QuietStep ==
    ASSUME CacheInv, [Next]_cache, UNCHANGED layers, NEW h \in Handlers, OwnStep(h), JobInv(h)'
    PROVE  CacheInv'
<1>1. now = now' /\ DatabaseType'
  BY PastGrows DEF OwnStep, DatabaseType
<1>2. CopiesType' /\ \A g \in Handlers : JobInv(g)'
  BY OthersKept DEF CacheInv, CopiesType, layers
<1>3. L1Inv' /\ L2Inv'
  BY RecentStays, CacheAssumption DEF CacheInv, CopiesType, L1Inv, L2Inv, layers, EntryType
<1> QED
  BY <1>1, <1>2, <1>3 DEF CacheInv

(* Steps that store nothing in a layer carry only what they have read. *)
LEMMA QuietOwn ==
    ASSUME CacheInv, NEW h \in Handlers,
           \/ GetL2(h) \/ Load(h) \/ AssignCount(h) \/ AssignFind(h) \/ InsertAssignment(h)
           \/ DeleteAssignment(h) \/ CountUsers(h) \/ DeleteRole(h) \/ RedisFails(h) \/ DatabaseFails(h)
           \/ \E r \in Roles : AssignLookup(h, r) \/ RevokeLookup(h, r) \/ DeleteRoleLookup(h, r)
    PROVE  UNCHANGED layers /\ OwnStep(h) /\ JobInv(h)'
<1>1. /\ pc \in [Handlers -> Steps] /\ job \in [Handlers -> JobType] /\ JobInv(h)
      /\ DatabaseType /\ NoJob \in JobType /\ TtlL2 \in Nat \ {0}
  BY CacheAssumption DEF CacheInv, CopiesType, NoJob, JobType
<1>2. CASE GetL2(h)
  <2>1. /\ UNCHANGED layers /\ now' = now /\ past' = past
        /\ job[h] \in JobType /\ job[h].start = now /\ now \in Nat
    BY <1>1, <1>2 DEF GetL2, layers, database, InTime, DatabaseType
  <2>2. CASE Fresh(l2)
    <3>1. /\ pc' = [pc EXCEPT ![h] = "backfill"]
          /\ job' = [job EXCEPT ![h] = [job[h] EXCEPT !.perms = l2.perms]]
      BY <1>2, <2>2 DEF GetL2, Goto
    <3>2. l2 \in EntryType /\ now + 1 <= l2.until /\ Recent(l2.perms, l2.until - TtlL2)
      BY <2>1, <2>2 DEF Fresh, CacheInv, CopiesType, L2Inv, EntryType
    <3>3. job'[h] = [role |-> job[h].role, perms |-> l2.perms, start |-> now] /\ pc'[h] = "backfill"
      BY <1>1, <2>1, <3>1 DEF JobType
    <3>4. PICK t \in 1..now : l2.until - TtlL2 <= t /\ l2.perms \in past[t]
      BY <3>2 DEF Recent
    <3>5. now + 1 - TtlL2 <= t
      BY <1>1, <2>1, <3>2, <3>4 DEF EntryType
    <3>6. Recent(l2.perms, now + 1 - TtlL2)'
      BY <1>1, <2>1, <3>1, <3>4, <3>5 DEF Recent, layers
    <3>7. OwnStep(h)
      <4>1. pc' = [pc EXCEPT ![h] = pc'[h]] /\ pc'[h] \in Steps
        BY <3>1, <3>3 DEF Steps
      <4>2. job'[h] = [job[h] EXCEPT !.perms = l2.perms]
        BY <1>1, <3>1
      <4>3. job'[h] \in JobType
        BY <2>1, <3>2, <4>2 DEF JobType, EntryType
      <4> QED
        BY <2>1, <3>1, <4>1, <4>2, <4>3 DEF OwnStep
    <3>8. JobInv(h)'
      BY <2>1, <3>3, <3>6 DEF JobInv, layers
    <3> QED
      BY <2>1, <3>7, <3>8
  <2>3. CASE ~Fresh(l2)
    BY <1>1, <1>2, <2>1, <2>3 DEF GetL2, Goto, OwnStep, JobInv, Steps
  <2> QED
    BY <2>2, <2>3
<1>3. CASE Load(h)
  <2>1. /\ UNCHANGED layers /\ now' = now /\ past' = past
        /\ job[h] \in JobType /\ job[h].start = now /\ now \in Nat
    BY <1>1, <1>3 DEF Load, layers, database, InTime, DatabaseType
  <2>2. CASE Resolvable
    <3>1. /\ pc' = [pc EXCEPT ![h] = "setL2"]
          /\ job' = [job EXCEPT ![h] = [job[h] EXCEPT !.perms = assigned]]
      BY <1>3, <2>2 DEF Load, Goto
    <3>2. job'[h] = [role |-> job[h].role, perms |-> assigned, start |-> now] /\ pc'[h] = "setL2"
      BY <1>1, <2>1, <3>1 DEF JobType
    <3>3. Recent(assigned, now)' /\ assigned' = assigned
      BY <1>1, <1>3, <2>1 DEF Load, database, Recent, DatabaseType
    <3> QED
      BY <1>1, <2>1, <3>1, <3>2, <3>3 DEF OwnStep, JobInv, JobType, DatabaseType, Steps
  <2>3. CASE ~Resolvable
    BY <1>1, <1>3, <2>1, <2>3 DEF Load, Return, Goto, OwnStep, JobInv, Steps
  <2> QED
    BY <2>2, <2>3
<1>4. CASE AssignCount(h) \/ AssignFind(h)
  BY <1>1, <1>4 DEF AssignCount, AssignFind, OwnStep, Steps, Goto, Return, JobInv
<1>5. CASE InsertAssignment(h) \/ DeleteAssignment(h)
  BY <1>1, <1>5 DEF InsertAssignment, DeleteAssignment, OwnStep, Steps, Goto, Return, JobInv
<1>6. CASE CountUsers(h) \/ DeleteRole(h)
  BY <1>1, <1>6 DEF CountUsers, DeleteRole, OwnStep, Steps, Goto, Return, JobInv
<1>7. CASE RedisFails(h)
  BY <1>1, <1>7 DEF RedisFails, OwnStep, Steps, Goto, Return, JobInv, database, Recent
<1>8. CASE DatabaseFails(h)
  BY <1>1, <1>8 DEF DatabaseFails, OwnStep, Steps, Goto, Return, JobInv
<1>9. ASSUME NEW r \in Roles, AssignLookup(h, r) \/ RevokeLookup(h, r) \/ DeleteRoleLookup(h, r)
      PROVE  UNCHANGED layers /\ OwnStep(h) /\ JobInv(h)'
  <2>1. \E step \in {"assignCount", "delete", "countUsers"} : Begin(h, step, r) /\ UNCHANGED <<layers, now>>
    BY <1>9 DEF AssignLookup, RevokeLookup, DeleteRoleLookup
  <2> QED
    BY <1>1, <2>1 DEF Begin, OwnStep, Steps, JobInv, JobType, DatabaseType
<1> QED
  BY <1>2, <1>3, <1>4, <1>5, <1>6, <1>7, <1>8, <1>9

(* Steps that write a layer. *)
LEMMA SetL2Step ==
    ASSUME CacheInv, [Next]_cache, NEW h \in Handlers, SetL2(h) PROVE CacheInv'
<1>1. /\ pc \in [Handlers -> Steps] /\ job \in [Handlers -> JobType] /\ JobInv(h)
      /\ DatabaseType /\ TtlL2 \in Nat \ {0} /\ TtlL1 \in Nat
  BY CacheAssumption DEF CacheInv, CopiesType
<1>2. /\ l1' = l1 /\ job' = job /\ UNCHANGED <<now, past, assigned>> /\ job[h].start = now
      /\ l2' = [perms |-> job[h].perms, until |-> now + TtlL2]
      /\ pc' = [pc EXCEPT ![h] = "setL1"] /\ pc[h] = "setL2"
  BY DEF SetL2, InTime, Goto, database
<1>3. OwnStep(h) /\ JobInv(h)'
  BY <1>1, <1>2 DEF OwnStep, JobInv, Steps, Recent
<1>4. now' \in Nat /\ job[h] \in JobType
  BY <1>1, <1>2 DEF DatabaseType
<1>5. CopiesType' /\ \A g \in Handlers : JobInv(g)'
  BY <1>1, <1>2, <1>3, <1>4, OthersKept DEF CacheInv, CopiesType, EntryType, JobType
<1>6. L2Inv'
  <2>1. Recent(job[h].perms, now) /\ now + TtlL2 - TtlL2 = now
    BY <1>1, <1>2, <1>4 DEF JobInv
  <2>2. l2'.perms = job[h].perms /\ l2'.until = now + TtlL2
    BY <1>2
  <2>3. l2'.until - TtlL2 = now
    BY <1>1, <1>2, <1>4, <2>2
  <2>4. Recent(l2.perms, l2.until - TtlL2)'
    BY <1>2, <2>1, <2>2, <2>3 DEF Recent
  <2> QED
    BY <2>4 DEF L2Inv
<1>7. L1Inv'
  BY <1>2 DEF CacheInv, L1Inv, Recent
<1> QED
  BY <1>2, <1>1, <1>5, <1>6, <1>7 DEF CacheInv, DatabaseType

(* Storing in the local layer dates the entry by its source, Redis or the *)
(* database (rbac.go:200-219). *)
LEMMA StoreStep ==
    ASSUME CacheInv, [Next]_cache, NEW h \in Handlers, Backfill(h) \/ SetL1(h) PROVE CacheInv'
<1>1. /\ pc \in [Handlers -> Steps] /\ job \in [Handlers -> JobType] /\ JobInv(h)
      /\ DatabaseType /\ TtlL2 \in Nat \ {0} /\ TtlL1 \in Nat \ {0} /\ NoJob \in JobType
  BY CacheAssumption DEF CacheInv, CopiesType, NoJob, JobType
<1>2. /\ l2' = l2 /\ UNCHANGED <<now, past, assigned>>
      /\ l1' = [l1 EXCEPT ![PodOf[h]] = [perms |-> job[h].perms, until |-> now + TtlL1]]
      /\ pc' = [pc EXCEPT ![h] = "idle"] /\ job' = [job EXCEPT ![h] = NoJob]
      /\ pc[h] \in {"backfill", "setL1"}
  BY DEF Backfill, SetL1, Store, Answer, Return, Goto, database
<1>3. OwnStep(h) /\ JobInv(h)'
  BY <1>1, <1>2 DEF OwnStep, JobInv, Steps
<1>4. now \in Nat \ {0} /\ job[h] \in JobType /\ PodOf[h] \in Pods
  BY <1>1, <1>2 DEF DatabaseType, Pods
<1>5. CopiesType' /\ \A g \in Handlers : JobInv(g)'
  BY <1>1, <1>2, <1>3, <1>4, OthersKept DEF CacheInv, CopiesType, EntryType, JobType
<1>6. Recent(job[h].perms, now - TtlL2)
  <2>1. PICK t \in 1..now : job[h].start + 1 - TtlL2 <= t /\ job[h].perms \in past[t]
    BY <1>1, <1>2, <1>4 DEF JobInv, Recent, JobType
  <2>2. now - 1 <= job[h].start /\ job[h].start \in Nat
    BY <1>1, <1>2, <1>4 DEF JobInv, JobType
  <2>3. now - TtlL2 <= t
    BY <1>1, <1>4, <2>1, <2>2
  <2> QED
    BY <2>1, <2>3 DEF Recent
<1>7. L1Inv'
  <2> SUFFICES ASSUME NEW p \in Pods, l1'[p] # None
               PROVE  Recent(l1[p].perms, l1[p].until - TtlL1 - TtlL2)'
    BY DEF L1Inv
  <2>1. CASE p = PodOf[h]
    <3>1. l1'[p].perms = job[h].perms /\ l1'[p].until - TtlL1 - TtlL2 = now - TtlL2
      BY <1>1, <1>2, <1>4, <2>1 DEF CacheInv, CopiesType
    <3> QED
      BY <1>2, <1>6, <3>1 DEF Recent
  <2>2. CASE p # PodOf[h]
    BY <1>2, <2>2 DEF CacheInv, CopiesType, L1Inv, Recent
  <2> QED
    BY <2>1, <2>2
<1>8. L2Inv'
  BY <1>2 DEF CacheInv, L2Inv, Recent
<1> QED
  BY <1>2, <1>1, <1>5, <1>7, <1>8 DEF CacheInv, DatabaseType

(* Steps that empty a layer, and the answer from the local one. *)
LEMMA ForgetStep ==
    ASSUME CacheInv, [Next]_cache, NEW h \in Handlers, GetL1(h) \/ ForgetL1(h) \/ ForgetL2(h)
    PROVE  CacheInv'
<1>1. /\ pc \in [Handlers -> Steps] /\ job \in [Handlers -> JobType] /\ JobInv(h)
      /\ DatabaseType /\ NoJob \in JobType
  BY DEF CacheInv, CopiesType, NoJob, JobType
<1>2. /\ UNCHANGED <<now, past, assigned>>
      /\ l2' = l2 \/ l2' = None
      /\ l1' = l1 \/ l1' = [l1 EXCEPT ![PodOf[h]] = None]
  BY DEF GetL1, ForgetL1, ForgetL2, database
<1>3. OwnStep(h) /\ JobInv(h)'
  <2>1. CASE GetL1(h)
    BY <1>1, <2>1 DEF GetL1, Begin, OwnStep, JobInv, JobType, Steps, DatabaseType, Recent, database
  <2>2. CASE ForgetL1(h) \/ ForgetL2(h)
    BY <1>1, <2>2 DEF ForgetL1, ForgetL2, Goto, Return, OwnStep, JobInv, Steps
  <2> QED
    BY <2>1, <2>2
<1>4. CopiesType' /\ \A g \in Handlers : JobInv(g)'
  BY <1>2, <1>3, OthersKept DEF CacheInv, CopiesType
<1>5. L1Inv' /\ L2Inv'
  BY <1>2 DEF CacheInv, CopiesType, L1Inv, L2Inv, Recent
<1> QED
  BY <1>2, <1>1, <1>4, <1>5 DEF CacheInv, DatabaseType

(* The passing of time keeps the invariant. *)
LEMMA TickStep ==
    ASSUME CacheInv, [Next]_cache, Tick PROVE CacheInv'
<1>1. UNCHANGED <<layers, pc, job>> /\ now' = now + 1
  BY DEF Tick
<1>2. DatabaseType'
  BY PastGrows DEF DatabaseType
<1>3. CopiesType' /\ L1Inv' /\ L2Inv'
  BY <1>1, RecentStays, CacheAssumption DEF CacheInv, CopiesType, L1Inv, L2Inv, layers, EntryType
<1>4. ASSUME NEW h \in Handlers PROVE JobInv(h)'
  <2>1. /\ pc[h] # "idle" => job[h].start = now
        /\ pc'[h] = pc[h] /\ job'[h] = job[h] /\ JobInv(h) /\ now \in Nat
    BY <1>1 DEF Tick, InTime, CacheInv, DatabaseType
  <2>2. /\ job[h].perms \in SUBSET Roles
        /\ job[h].start \in Int /\ job[h].start + 1 - TtlL2 \in Int
    BY CacheAssumption DEF CacheInv, CopiesType, JobType
  <2>3. /\ Recent(job[h].perms, job[h].start) => Recent(job[h].perms, job[h].start)'
        /\ Recent(job[h].perms, job[h].start + 1 - TtlL2) => Recent(job[h].perms, job[h].start + 1 - TtlL2)'
    BY <1>1, <2>2, RecentStays
  <2> QED
    BY <1>1, <2>1, <2>3 DEF JobInv
<1> QED
  BY <1>2, <1>3, <1>4 DEF CacheInv

(* Every step keeps the invariant. *)
LEMMA CacheStep == CacheInv /\ [Next]_cache => CacheInv'
<1> SUFFICES ASSUME CacheInv, [Next]_cache PROVE CacheInv'
  OBVIOUS
<1>1. CASE UNCHANGED cache
  BY <1>1 DEF cache, database, layers, CacheInv, DatabaseType, CopiesType, L1Inv, L2Inv, JobInv, Recent
<1>2. ASSUME NEW h \in Handlers,
             \/ GetL2(h) \/ Load(h) \/ AssignCount(h) \/ AssignFind(h) \/ InsertAssignment(h)
             \/ DeleteAssignment(h) \/ CountUsers(h) \/ DeleteRole(h) \/ RedisFails(h) \/ DatabaseFails(h)
             \/ \E r \in Roles : AssignLookup(h, r) \/ RevokeLookup(h, r) \/ DeleteRoleLookup(h, r)
      PROVE  CacheInv'
  BY <1>2, QuietOwn, QuietStep
<1> QED
  BY <1>1, <1>2, SetL2Step, StoreStep, ForgetStep, TickStep DEF Next

-----------------------------------------------------------------------------
(* The refinement: each step maps to a step of the register or a stutter.   *)

(* An answer of Authorize is a read of a value recent enough. *)
LEMMA AnswerIsRead ==
    ASSUME CacheInv, NEW perms \in SUBSET Roles, Recent(perms, now + 1 - TtlL1 - TtlL2),
           answer' = perms, UNCHANGED <<assigned, past>>
    PROVE  Register!Next
<1>1. now \in Nat /\ Len(past) = now /\ TtlL1 \in Nat /\ TtlL2 \in Nat
  BY CacheAssumption DEF CacheInv, DatabaseType
<1>2. PICK t \in 1..now : now + 1 - TtlL1 - TtlL2 <= t /\ perms \in past[t]
  BY DEF Recent
<1>3. t \in 1..Register!Clock /\ t >= Register!Clock - (TtlL1 + TtlL2 - 1)
  BY <1>1, <1>2 DEF Register!Clock
<1>4. Register!Read
  BY <1>2, <1>3 DEF Register!Read
<1> QED
  BY <1>4 DEF Register!Next

(* Every step is a step of the register or leaves it alone. *)
LEMMA StepRefines == CacheInv /\ [Next]_cache => [Register!Next]_(Register!register)
<1> SUFFICES ASSUME CacheInv, [Next]_cache PROVE [Register!Next]_(Register!register)
  OBVIOUS
<1>1. /\ now \in Nat \ {0} /\ Len(past) = now /\ assigned \in SUBSET Roles
      /\ TtlL1 \in Nat \ {0} /\ TtlL2 \in Nat \ {0}
  BY CacheAssumption DEF CacheInv, DatabaseType
<1>2. CASE UNCHANGED cache
  BY <1>2 DEF cache, database, Register!register
<1>3. CASE answer' = None /\ UNCHANGED <<assigned, past>>
  BY <1>3 DEF Register!Next, Register!Pause
<1>4. CASE Tick
  BY <1>4 DEF Tick, Register!Next, Register!Tick
<1>5. ASSUME NEW h \in Handlers, Backfill(h) \/ SetL1(h) PROVE Register!Next
  <2>1. /\ answer' = job[h].perms /\ UNCHANGED <<assigned, past>> /\ pc[h] \in {"backfill", "setL1"}
    BY <1>5 DEF Backfill, SetL1, Answer, database
  <2>2. job[h].perms \in SUBSET Roles /\ job[h].start \in Nat /\ now - 1 <= job[h].start
    BY <1>1, <2>1 DEF CacheInv, CopiesType, JobInv, JobType
  <2>3. PICK t \in 1..now : job[h].start + 1 - TtlL2 <= t /\ job[h].perms \in past[t]
    BY <1>1, <2>1, <2>2 DEF CacheInv, JobInv, Recent
  <2>4. now + 1 - TtlL1 - TtlL2 <= t
    BY <1>1, <2>2, <2>3
  <2>5. Recent(job[h].perms, now + 1 - TtlL1 - TtlL2)
    BY <2>3, <2>4 DEF Recent
  <2> QED
    BY <2>1, <2>2, <2>5, AnswerIsRead
<1>6. ASSUME NEW h \in Handlers, GetL1(h), Fresh(l1[PodOf[h]]) PROVE Register!Next
  <2>1. /\ answer' = l1[PodOf[h]].perms /\ UNCHANGED <<assigned, past>>
        /\ l1[PodOf[h]] # None /\ now < l1[PodOf[h]].until /\ PodOf[h] \in Pods
    BY <1>6 DEF GetL1, Fresh, database, Pods
  <2>2. l1[PodOf[h]] \in EntryType /\ Recent(l1[PodOf[h]].perms, l1[PodOf[h]].until - TtlL1 - TtlL2)
    BY <2>1 DEF CacheInv, CopiesType, L1Inv
  <2>3. PICK t \in 1..now : l1[PodOf[h]].until - TtlL1 - TtlL2 <= t /\ l1[PodOf[h]].perms \in past[t]
    BY <2>2 DEF Recent
  <2>4. now + 1 - TtlL1 - TtlL2 <= t
    BY <1>1, <2>1, <2>2, <2>3 DEF EntryType
  <2>5. Recent(l1[PodOf[h]].perms, now + 1 - TtlL1 - TtlL2)
    BY <2>3, <2>4 DEF Recent
  <2> QED
    BY <2>1, <2>2, <2>5, AnswerIsRead DEF EntryType
<1>7. ASSUME NEW h \in Handlers, InsertAssignment(h) \/ DeleteAssignment(h)
      PROVE  Register!Next
  <2>1. assigned' \in SUBSET Roles /\ answer' = None
    BY <1>7, PastGrows DEF InsertAssignment, DeleteAssignment
  <2>2. UNCHANGED <<assigned, past>> \/ past' = [past EXCEPT ![now] = @ \cup {assigned'}]
    BY <1>7 DEF InsertAssignment, DeleteAssignment, Assigned
  <2>3. CASE past' = [past EXCEPT ![now] = @ \cup {assigned'}]
    <3>1. Register!Clock = now
      BY <1>1 DEF Register!Clock
    <3>2. Register!Write
      BY <2>1, <2>3, <3>1 DEF Register!Write
    <3> QED
      BY <3>2 DEF Register!Next
  <2>4. CASE UNCHANGED <<assigned, past>>
    BY <2>1, <2>4 DEF Register!Next, Register!Pause
  <2> QED
    BY <2>2, <2>3, <2>4
<1>8. ASSUME NEW h \in Handlers,
             \/ GetL1(h) /\ ~Fresh(l1[PodOf[h]])
             \/ GetL2(h) \/ Load(h) \/ SetL2(h) \/ AssignCount(h) \/ AssignFind(h) \/ ForgetL1(h)
             \/ ForgetL2(h) \/ CountUsers(h) \/ DeleteRole(h) \/ RedisFails(h) \/ DatabaseFails(h)
             \/ \E r \in Roles : AssignLookup(h, r) \/ RevokeLookup(h, r) \/ DeleteRoleLookup(h, r)
      PROVE  answer' = None /\ UNCHANGED <<assigned, past>>
  BY <1>8
  DEF database, GetL1, GetL2, Load, SetL2, AssignCount, AssignFind, ForgetL1, ForgetL2, CountUsers,
      DeleteRole, RedisFails, DatabaseFails, AssignLookup, RevokeLookup, DeleteRoleLookup
<1> QED
  BY <1>2, <1>3, <1>4, <1>5, <1>6, <1>7, <1>8 DEF Next

(* RegisterSpec, for every number of pods, requests, roles, ticks and       *)
(* errors and every lifetime: each decision of Authorize rests on roles the *)
(* user had at most TtlL1 + TtlL2 - 1 ticks ago (rbac.go:467-510).          *)
THEOREM CacheRefinesRegister == Spec => RegisterSpec
<1>1. Init => Register!Init
  BY DEF Init, Register!Init
<1>2. CacheInv /\ [Next]_cache => [Register!Next]_(Register!register)
  BY StepRefines
<1> QED
  BY <1>1, <1>2, CacheInit, CacheStep, PTL DEF Spec, RegisterSpec, Register!Spec
-----------------------------------------------------------------------------
(* The roles of a user: the cap, and what holds while requests take turns   *)
(* and nothing fails.                                                       *)

(* How many requests can be under way. *)
AtOnce == IF overlap THEN Cardinality(Handlers) ELSE 1

(* Requests that have counted the user's roles and not inserted yet. *)
Counted == {h \in Handlers : pc[h] \in {"assignFind", "insert"}}

(* Requests that do not overlap take turns. *)
Turns == ~overlap => \A g, h \in Handlers : pc[g] # "idle" /\ pc[h] # "idle" => g = h

(* Every request that has counted may still insert one role. *)
CapInv == clean => Cardinality(assigned) + Cardinality(Counted) <= MaxRoles - 1 + AtOnce

(* What a request on its own holds is what the user has; between the change *)
(* and the end of its invalidation the layers may be behind. *)
SerialInv ==
    ~overlap /\ clean =>
        /\ assigned \subseteq exists
        /\ \A h \in Handlers :
             /\ pc[h] \in {"backfill", "setL2", "setL1"} => job[h].perms = assigned
             /\ pc[h] \in {"assignCount", "assignFind", "insert"} => job[h].role \in exists
             /\ pc[h] = "deleteRole" => job[h].role \notin assigned
        /\ (\A h \in Handlers : pc[h] \notin {"forgetL1", "forgetL2"}) => (Fresh(l2) => l2.perms = assigned)
        /\ (\A h \in Handlers : pc[h] # "forgetL1") =>
             \A p \in Pods \ dirty : Fresh(l1[p]) => l1[p].perms = assigned

(* The inductive invariant. *)
RolesInv == CacheInv /\ TypeOK /\ Turns /\ CapInv /\ SerialInv

(* A step of one request. *)
Act(h) ==
    \/ GetL1(h) \/ GetL2(h) \/ Backfill(h) \/ Load(h) \/ SetL2(h) \/ SetL1(h)
    \/ AssignCount(h) \/ AssignFind(h) \/ InsertAssignment(h) \/ DeleteAssignment(h)
    \/ ForgetL1(h) \/ ForgetL2(h) \/ CountUsers(h) \/ DeleteRole(h)
    \/ RedisFails(h) \/ DatabaseFails(h)
    \/ \E r \in Roles : AssignLookup(h, r) \/ RevokeLookup(h, r) \/ DeleteRoleLookup(h, r)

(* What every step of a request does and does not do. *)
LEMMA ActShape ==
    ASSUME TypeOK, NEW h \in Handlers, Act(h)
    PROVE  /\ pc' = [pc EXCEPT ![h] = pc'[h]] /\ job' = [job EXCEPT ![h] = job'[h]]
           /\ UNCHANGED <<overlap, now>> /\ (clean' => clean)
           /\ pc[h] = "idle" /\ ~overlap => \A g \in Handlers : pc[g] = "idle"
<1>1. pc = [pc EXCEPT ![h] = pc[h]] /\ job = [job EXCEPT ![h] = job[h]] /\ clean \in BOOLEAN
  BY DEF TypeOK
<1> QED
  BY <1>1
  DEF TypeOK, Act, GetL1, GetL2, Backfill, Load, SetL2, SetL1, AssignCount, AssignFind, InsertAssignment,
      DeleteAssignment, ForgetL1, ForgetL2, CountUsers, DeleteRole, RedisFails, DatabaseFails, AssignLookup,
      RevokeLookup, DeleteRoleLookup, Fails, Begin, Goto, Return, Answer

(* The types hold initially. *)
LEMMA TypesInit == Init => TypeOK
<1> SUFFICES ASSUME Init PROVE TypeOK
  OBVIOUS
<1>1. NoJob \in [role : Roles \cup {None}, perms : SUBSET Roles, start : 0..MaxTime] /\ 1 \in 1..MaxTime
  BY CacheAssumption DEF NoJob
<1> QED
  <2>1. /\ overlap \in BOOLEAN /\ clean \in BOOLEAN /\ exists \subseteq Roles /\ assigned \subseteq Roles
        /\ answer = None /\ dirty \subseteq Pods /\ now \in 1..MaxTime /\ Len(past) = now
        /\ writes \in 0..MaxWrites /\ faults \in 0..MaxFaults
    BY <1>1, CacheAssumption DEF Init
  <2>2. l1 \in [Pods -> Entries] /\ l2 \in Entries
    BY DEF Init, Entries
  <2>3. job \in [Handlers -> [role : Roles \cup {None}, perms : SUBSET Roles, start : 0..MaxTime]]
    BY <1>1 DEF Init
  <2>4. pc = [h \in Handlers |-> "idle"]
    BY DEF Init
  <2> QED
    BY <2>1, <2>2, <2>3, <2>4 DEF TypeOK

(* Every step keeps the types. *)
LEMMA TypesStep == CacheInv /\ TypeOK /\ [Next]_cache => TypeOK'
<1> SUFFICES ASSUME CacheInv, TypeOK, [Next]_cache PROVE TypeOK'
  OBVIOUS
<1> USE CacheAssumption
<1>1. Len(past') = now' /\ Len(past) = now /\ assigned' \in SUBSET Roles
  BY PastGrows DEF CacheInv, DatabaseType
<1>2. NoJob \in [role : Roles \cup {None}, perms : SUBSET Roles, start : 0..MaxTime]
  BY DEF NoJob
<1>3. CASE UNCHANGED cache
  BY <1>3, <1>1 DEF cache, database, layers, TypeOK
<1>4. CASE Tick
  BY <1>4, <1>1 DEF Tick, layers, TypeOK
<1>5. ASSUME NEW h \in Handlers, Act(h) PROVE TypeOK'
  <2>1. PodOf[h] \in Pods /\ now + TtlL1 \in 0..MaxTime + TtlL1 + TtlL2 /\ now + TtlL2 \in 0..MaxTime + TtlL1 + TtlL2
    <3>1. now \in 0..MaxTime
      BY DEF TypeOK
    <3>2. PodOf[h] \in Pods /\ TtlL1 \in Nat /\ TtlL2 \in Nat /\ MaxTime \in Nat
      BY DEF Pods
    <3> QED
      BY ONLY <3>1, <3>2
  <2>2. /\ now' = now /\ pc' = [pc EXCEPT ![h] = pc'[h]] /\ job' = [job EXCEPT ![h] = job'[h]]
        /\ overlap' = overlap
    BY <1>5, ActShape
  <2> DEFINE Copies == [role : Roles \cup {None}, perms : SUBSET Roles, start : 0..MaxTime]
             Counters == clean' \in BOOLEAN /\ writes' \in 0..MaxWrites /\ faults' \in 0..MaxFaults
  <2>3. /\ job[h] \in Copies /\ job[h].perms \in SUBSET Roles /\ now \in 0..MaxTime
        /\ [perms |-> job[h].perms, until |-> now + TtlL1] \in Entries
        /\ [perms |-> job[h].perms, until |-> now + TtlL2] \in Entries
    BY <2>1 DEF TypeOK, Entries
  <2>4. Counters
    <3>1. clean' = clean \/ clean' = FALSE
      BY <1>5
      DEF Act, GetL1, GetL2, Backfill, Load, SetL2, SetL1, AssignCount, AssignFind, InsertAssignment,
          DeleteAssignment, ForgetL1, ForgetL2, CountUsers, DeleteRole, RedisFails, DatabaseFails, AssignLookup,
          RevokeLookup, DeleteRoleLookup, Fails
    <3>2. writes' = writes \/ (writes < MaxWrites /\ writes' = writes + 1)
      BY <1>5
      DEF Act, GetL1, GetL2, Backfill, Load, SetL2, SetL1, AssignCount, AssignFind, InsertAssignment,
          DeleteAssignment, ForgetL1, ForgetL2, CountUsers, DeleteRole, RedisFails, DatabaseFails, AssignLookup,
          RevokeLookup, DeleteRoleLookup, MayWrite
    <3>3. faults' = faults \/ (faults < MaxFaults /\ faults' = faults + 1)
      BY <1>5
      DEF Act, GetL1, GetL2, Backfill, Load, SetL2, SetL1, AssignCount, AssignFind, InsertAssignment,
          DeleteAssignment, ForgetL1, ForgetL2, CountUsers, DeleteRole, RedisFails, DatabaseFails, AssignLookup,
          RevokeLookup, DeleteRoleLookup, Fails
    <3>4. clean' \in BOOLEAN
      BY ONLY TypeOK, <3>1 DEF TypeOK
    <3>5. writes \in 0..MaxWrites /\ faults \in 0..MaxFaults /\ MaxWrites \in Nat /\ MaxFaults \in Nat
      BY DEF TypeOK
    <3>6. writes' \in 0..MaxWrites /\ faults' \in 0..MaxFaults
      BY ONLY <3>2, <3>3, <3>5
    <3> QED
      BY <3>4, <3>6
  <2>5. pc'[h] \in Steps
    BY <1>5
    DEF TypeOK, Act, GetL1, GetL2, Backfill, Load, SetL2, SetL1, AssignCount, AssignFind, InsertAssignment,
        DeleteAssignment, ForgetL1, ForgetL2, CountUsers, DeleteRole, RedisFails, DatabaseFails, AssignLookup,
        RevokeLookup, DeleteRoleLookup, Begin, Goto, Return, Answer, Steps
  <2>6. exists' \subseteq Roles /\ dirty' \subseteq Pods
    BY <1>5
    DEF TypeOK, Act, GetL1, GetL2, Backfill, Load, SetL2, SetL1, AssignCount, AssignFind, InsertAssignment,
        DeleteAssignment, ForgetL1, ForgetL2, CountUsers, DeleteRole, RedisFails, DatabaseFails, AssignLookup,
        RevokeLookup, DeleteRoleLookup, database
  <2>7. l1' \in [Pods -> Entries] /\ l2' \in Entries
    <3>1. \/ UNCHANGED layers
          \/ l2' = l2 /\ l1' = [l1 EXCEPT ![PodOf[h]] = None]
          \/ l2' = l2 /\ Store(h, job[h].perms)
          \/ l1' = l1 /\ l2' = [perms |-> job[h].perms, until |-> now + TtlL2]
          \/ l1' = l1 /\ l2' = None
      BY <1>5
      DEF Act, GetL1, GetL2, Backfill, Load, SetL2, SetL1, AssignCount, AssignFind, InsertAssignment,
          DeleteAssignment, ForgetL1, ForgetL2, CountUsers, DeleteRole, RedisFails, DatabaseFails, AssignLookup,
          RevokeLookup, DeleteRoleLookup, layers
    <3>2. None \in Entries /\ l1 \in [Pods -> Entries] /\ l2 \in Entries
      BY DEF TypeOK, Entries
    <3> QED
      BY <2>1, <2>3, <3>1, <3>2 DEF layers, Store
  <2>8. job'[h] \in Copies
    <3>1. CASE GetL2(h)
      <4>1. Fresh(l2) => l2.perms \in SUBSET Roles
        BY DEF Fresh, TypeOK, Entries
      <4>2. UNCHANGED job \/ (Fresh(l2) /\ job' = [job EXCEPT ![h].perms = l2.perms])
        BY <3>1 DEF GetL2
      <4>3. Fresh(l2) => [job[h] EXCEPT !.perms = l2.perms] \in Copies
        BY <4>1 DEF TypeOK
      <4>4. job[h] \in Copies /\ DOMAIN job = Handlers
        BY <2>3 DEF TypeOK
      <4>5. job'[h] = job[h] \/ (Fresh(l2) /\ job'[h] = [job[h] EXCEPT !.perms = l2.perms])
        BY <4>2, <4>4
      <4> QED
        BY ONLY <4>3, <4>4, <4>5
    <3>2. CASE Load(h)
      <4>1. job' = [job EXCEPT ![h] = NoJob] \/ job' = [job EXCEPT ![h].perms = assigned]
        BY <3>2 DEF Load, Return
      <4>2. [job[h] EXCEPT !.perms = assigned] \in Copies
        BY <2>3 DEF TypeOK
      <4> QED
        BY <1>2, <4>1, <4>2 DEF TypeOK
    <3>3. ASSUME NEW r \in Roles, AssignLookup(h, r) \/ RevokeLookup(h, r) \/ DeleteRoleLookup(h, r)
          PROVE  job'[h] \in Copies
      <4>1. job' = [job EXCEPT ![h] = [role |-> r, perms |-> {}, start |-> now]]
        BY <3>3 DEF AssignLookup, RevokeLookup, DeleteRoleLookup, Begin
      <4>2. [role |-> r, perms |-> {}, start |-> now] \in Copies
        BY <2>3
      <4> QED
        BY <4>1, <4>2 DEF TypeOK
    <3>4. CASE GetL1(h)
      <4>1. UNCHANGED job \/ job' = [job EXCEPT ![h] = [role |-> None, perms |-> {}, start |-> now]]
        BY <3>4 DEF GetL1, Begin
      <4>2. [role |-> None, perms |-> {}, start |-> now] \in Copies
        BY <2>3
      <4> QED
        BY <2>3, <4>1, <4>2 DEF TypeOK
    <3>5. UNCHANGED job \/ job' = [job EXCEPT ![h] = NoJob] \/ Load(h) \/ GetL2(h) \/ GetL1(h)
          \/ \E r \in Roles : AssignLookup(h, r) \/ RevokeLookup(h, r) \/ DeleteRoleLookup(h, r)
      BY <1>5
      DEF Act, Backfill, SetL2, SetL1, AssignCount, AssignFind, InsertAssignment, DeleteAssignment, ForgetL1,
          ForgetL2, CountUsers, DeleteRole, RedisFails, DatabaseFails, Return, Answer
    <3> QED
      BY <1>2, <2>3, <3>1, <3>2, <3>3, <3>4, <3>5 DEF TypeOK
  <2>9. answer' \in {None} \cup SUBSET Roles
    <3>1. Fresh(l1[PodOf[h]]) => l1[PodOf[h]].perms \in SUBSET Roles
      BY <2>1 DEF Fresh, TypeOK, Entries
    <3> QED
      BY <1>5, <2>3, <3>1
      DEF Act, GetL1, GetL2, Backfill, Load, SetL2, SetL1, AssignCount, AssignFind, InsertAssignment,
          DeleteAssignment, ForgetL1, ForgetL2, CountUsers, DeleteRole, RedisFails, DatabaseFails, AssignLookup,
          RevokeLookup, DeleteRoleLookup, Answer
  <2> QED
    BY <1>1, <2>2, <2>4, <2>5, <2>6, <2>7, <2>8, <2>9 DEF TypeOK, Steps
<1> QED
  BY <1>3, <1>4, <1>5 DEF Next, Act

(* The requests under way that may still insert are not more than the       *)
(* requests that can be under way. *)
LEMMA CountedBounded ==
    TypeOK /\ Turns =>
        IsFiniteSet(Counted) /\ Cardinality(Counted) \in Nat /\ AtOnce \in Nat /\ Cardinality(Counted) <= AtOnce
<1> SUFFICES ASSUME TypeOK, Turns
             PROVE  /\ IsFiniteSet(Counted) /\ Cardinality(Counted) \in Nat
                    /\ AtOnce \in Nat /\ Cardinality(Counted) <= AtOnce
  OBVIOUS
<1>1. /\ IsFiniteSet(Handlers) /\ Handlers # {} /\ Counted \subseteq Handlers
      /\ Cardinality(Handlers) \in Nat
  BY CacheAssumption, FS_CardinalityType DEF Counted
<1>2. IsFiniteSet(Counted) /\ Cardinality(Counted) <= Cardinality(Handlers) /\ Cardinality(Counted) \in Nat
  BY <1>1, FS_Subset, FS_CardinalityType
<1>3. CASE overlap
  BY <1>1, <1>2, <1>3 DEF AtOnce
<1>4. CASE ~overlap
  <2>1. CASE Counted = {}
    BY <1>2, <1>4, <2>1, FS_EmptySet DEF AtOnce
  <2>2. CASE Counted # {}
    <3>1. PICK h \in Handlers : h \in Counted
      BY <1>1, <2>2
    <3>2. Counted = {h}
      BY <1>4, <3>1 DEF Counted, Turns
    <3> QED
      BY <1>2, <1>4, <3>2, FS_Singleton DEF AtOnce
  <2> QED
    BY <2>1, <2>2
<1> QED
  BY <1>3, <1>4 DEF TypeOK

(* The user's roles can be counted. *)
LEMMA RolesCounted ==
    ASSUME NEW rs \in SUBSET Roles
    PROVE  IsFiniteSet(rs) /\ Cardinality(rs) \in Nat
BY CacheAssumption, FS_Subset, FS_CardinalityType

(* The invariant holds initially. *)
LEMMA RolesInit == Init => RolesInv
<1> SUFFICES ASSUME Init PROVE RolesInv
  OBVIOUS
<1>1. /\ pc = [h \in Handlers |-> "idle"] /\ exists = Roles /\ assigned \in SUBSET Roles
      /\ l1 = [p \in Pods |-> None] /\ l2 = None /\ Cardinality(assigned) <= MaxRoles /\ overlap \in BOOLEAN
  BY CacheAssumption DEF Init
<1>2. Turns
  BY <1>1 DEF Turns
<1>3. TypeOK /\ CacheInv
  BY TypesInit, CacheInit
<1>4. CapInv
  <2>1. Counted = {} /\ Cardinality(Counted) = 0
    BY <1>1, FS_EmptySet DEF Counted
  <2>2. Cardinality(Handlers) \in Nat /\ Cardinality(Handlers) # 0
    BY CacheAssumption, FS_CardinalityType, FS_EmptySet
  <2>3. AtOnce \in Nat /\ AtOnce >= 1
    BY <2>2 DEF AtOnce
  <2> QED
    BY <1>1, <2>1, <2>3, RolesCounted, CacheAssumption DEF CapInv
<1>5. SerialInv
  BY <1>1 DEF SerialInv, Fresh
<1> QED
  BY <1>2, <1>3, <1>4, <1>5 DEF RolesInv

(* Requests keep taking turns. *)
LEMMA TurnsStep == TypeOK /\ Turns /\ [Next]_cache => Turns'
<1> SUFFICES ASSUME TypeOK, Turns, [Next]_cache PROVE Turns'
  OBVIOUS
<1>1. CASE UNCHANGED <<overlap, pc>>
  BY <1>1 DEF Turns
<1>2. ASSUME NEW h \in Handlers, Act(h) PROVE Turns'
  <2>1. /\ pc' = [pc EXCEPT ![h] = pc'[h]] /\ overlap' = overlap
        /\ pc[h] = "idle" /\ ~overlap => \A g \in Handlers : pc[g] = "idle"
    BY <1>2, ActShape
  <2>2. ~overlap => \A g \in Handlers \ {h} : pc[g] = "idle"
    BY <2>1 DEF Turns
  <2>3. \A g \in Handlers \ {h} : pc'[g] = pc[g]
    BY <2>1 DEF TypeOK
  <2> QED
    BY <2>1, <2>2, <2>3 DEF Turns
<1>3. CASE Tick
  BY <1>1, <1>3 DEF Tick
<1> QED
  BY <1>1, <1>2, <1>3 DEF Next, Act, cache

(* A request adds at most the role it has counted for (rbac.go:366-407). *)
LEMMA CapStep == TypeOK /\ TypeOK' /\ Turns /\ Turns' /\ CapInv /\ [Next]_cache => CapInv'
<1> SUFFICES ASSUME TypeOK, TypeOK', Turns, Turns', CapInv, [Next]_cache, clean'
             PROVE  (Cardinality(assigned) + Cardinality(Counted) <= MaxRoles - 1 + AtOnce)'
  BY DEF CapInv
<1>1. /\ IsFiniteSet(Counted) /\ Cardinality(Counted) \in Nat /\ Cardinality(Counted) <= AtOnce
      /\ IsFiniteSet(assigned) /\ Cardinality(assigned) \in Nat /\ AtOnce \in Nat
      /\ MaxRoles \in Nat \ {0}
  BY CountedBounded, RolesCounted, CacheAssumption DEF TypeOK
<1>2. /\ IsFiniteSet(Counted') /\ Cardinality(Counted') \in Nat /\ Cardinality(Counted') <= AtOnce'
      /\ IsFiniteSet(assigned') /\ Cardinality(assigned') \in Nat /\ AtOnce' \in Nat
  <2>1. (TypeOK /\ Turns => IsFiniteSet(Counted) /\ Cardinality(Counted) \in Nat
                             /\ AtOnce \in Nat /\ Cardinality(Counted) <= AtOnce)'
    BY CountedBounded, PTL
  <2> QED
    BY <2>1, RolesCounted DEF TypeOK
<1> DEFINE Quiet == clean' = clean /\ overlap' = overlap /\ Counted' \subseteq Counted /\ assigned' \subseteq assigned
<1>3. CASE Quiet
  <2>1. Cardinality(Counted') <= Cardinality(Counted) /\ Cardinality(assigned') <= Cardinality(assigned)
    BY <1>1, <1>3, FS_Subset
  <2>2. AtOnce' = AtOnce /\ clean
    BY <1>3 DEF AtOnce
  <2> QED
    BY <1>1, <1>2, <2>1, <2>2 DEF CapInv
<1>4. CASE UNCHANGED cache \/ Tick
  BY <1>3, <1>4 DEF cache, database, Tick, Counted
<1>5. ASSUME NEW h \in Handlers, Act(h)
      PROVE  (Cardinality(assigned) + Cardinality(Counted) <= MaxRoles - 1 + AtOnce)'
  <2>1. /\ pc' = [pc EXCEPT ![h] = pc'[h]] /\ overlap' = overlap /\ (clean' => clean)
    BY <1>5, ActShape
  <2>2. AtOnce' = AtOnce /\ clean
    BY <2>1 DEF AtOnce
  <2>3. \A g \in Handlers \ {h} : pc'[g] = pc[g]
    BY <2>1 DEF TypeOK
  <2>4. CASE AssignCount(h)
    <3>1. assigned' = assigned /\ (pc' = [pc EXCEPT ![h] = "idle"] \/ Cardinality(assigned) < MaxRoles)
      BY <1>1, <2>4 DEF AssignCount, database, Return, Goto
    <3>2. CASE pc' = [pc EXCEPT ![h] = "idle"]
      <4>1. Counted' \subseteq Counted
        BY <3>2 DEF Counted, TypeOK
      <4>2. Cardinality(Counted') <= Cardinality(Counted)
        BY <1>1, <4>1, FS_Subset
      <4> QED
        BY <1>1, <1>2, <2>2, <3>1, <4>2 DEF CapInv
    <3> QED
      BY <1>1, <1>2, <2>2, <3>1, <3>2
  <2>5. CASE InsertAssignment(h) /\ job[h].role \notin assigned
    <3>1. assigned' = assigned \cup {job[h].role} /\ pc[h] = "insert" /\ pc' = [pc EXCEPT ![h] = "forgetL1"]
      BY <2>5 DEF InsertAssignment, Assigned, Goto
    <3>2. Cardinality(assigned') = Cardinality(assigned) + 1
      BY <1>1, <2>5, <3>1, FS_AddElement
    <3>3. Counted' = Counted \ {h} /\ h \in Counted
      BY <3>1 DEF Counted, TypeOK
    <3>4. Cardinality(Counted') = Cardinality(Counted) - 1
      BY <1>1, <3>3, FS_RemoveElement
    <3> QED
      BY <1>1, <1>2, <2>2, <3>2, <3>4 DEF CapInv
  <2>6. ASSUME ~AssignCount(h), ~(InsertAssignment(h) /\ job[h].role \notin assigned) PROVE Quiet
    <3>1. clean' = clean
      BY ONLY <2>2, clean', TypeOK, TypeOK' DEF TypeOK
    <3>2. assigned' \subseteq assigned
      BY <1>5, <2>6
      DEF Act, GetL1, GetL2, Backfill, Load, SetL2, SetL1, AssignFind, InsertAssignment,
          DeleteAssignment, ForgetL1, ForgetL2, CountUsers, DeleteRole, RedisFails, DatabaseFails, AssignLookup,
          RevokeLookup, DeleteRoleLookup, database, Assigned
    <3>3. h \in Counted' => h \in Counted
      <4>1. ~RedisFails(h) /\ ~DatabaseFails(h)
        BY DEF RedisFails, DatabaseFails, Fails
      <4>2. pc'[h] \in {"assignFind", "insert"} => pc[h] \in {"assignFind", "insert"}
        BY <1>5, <2>6, <4>1
        DEF TypeOK, Act, GetL1, GetL2, Backfill, Load, SetL2, SetL1, AssignFind, InsertAssignment,
            DeleteAssignment, ForgetL1, ForgetL2, CountUsers, DeleteRole, AssignLookup, RevokeLookup,
            DeleteRoleLookup, Begin, Goto, Return, Answer
      <4> QED
        BY <4>2 DEF Counted
    <3>4. Counted' \subseteq Counted
      BY <2>3, <3>3 DEF Counted
    <3> QED
      BY <2>1, <3>1, <3>2, <3>4
  <2> QED
    BY <1>3, <2>4, <2>5, <2>6
<1> QED
  BY <1>4, <1>5 DEF Next, Act

(* Alone and without failures, a step leaves the user's roles, the copies   *)
(* and the layers in agreement (rbac.go:193-260, 393-439, 467-510).         *)
LEMMA SerialStep == CacheInv /\ TypeOK /\ TypeOK' /\ Turns /\ SerialInv /\ [Next]_cache => SerialInv'
<1> SUFFICES ASSUME CacheInv, TypeOK, TypeOK', Turns, SerialInv, [Next]_cache, ~overlap', clean'
             PROVE  SerialInv'
  BY DEF SerialInv
<1>1. CASE UNCHANGED cache
  BY <1>1 DEF cache, database, layers, SerialInv, Fresh
<1>2. CASE Tick
  <2>1. UNCHANGED <<overlap, clean, exists, assigned, l1, l2, pc, job, dirty>> /\ now' = now + 1 /\ now \in Nat
    BY <1>2 DEF Tick, layers, CacheInv, DatabaseType
  <2>2. (Fresh(l2)' => Fresh(l2)) /\ \A p \in Pods : Fresh(l1[p])' => Fresh(l1[p])
    <3>1. \A e \in Entries : (e # None /\ now + 1 < e.until) => (e # None /\ now < e.until)
      BY <2>1, CacheAssumption DEF Entries
    <3> QED
      BY <2>1, <3>1 DEF Fresh, TypeOK
  <2> QED
    BY <2>1, <2>2 DEF SerialInv
<1>3. ASSUME NEW h \in Handlers, Act(h) PROVE SerialInv'
  <2>1. /\ pc' = [pc EXCEPT ![h] = pc'[h]] /\ job' = [job EXCEPT ![h] = job'[h]]
        /\ ~overlap /\ clean /\ now' = now
        /\ pc[h] = "idle" => \A g \in Handlers : pc[g] = "idle"
    BY <1>3, ActShape
  <2>2. \A g \in Handlers \ {h} : pc[g] = "idle" /\ pc'[g] = "idle" /\ job'[g] = job[g]
    BY <2>1 DEF Turns, TypeOK
  <2>3. h \in DOMAIN pc /\ h \in DOMAIN job /\ PodOf[h] \in Pods /\ DOMAIN l1 = Pods
        /\ job[h].perms \in SUBSET Roles
    BY DEF TypeOK, Pods
  (* What has to hold of the only request under way. *)
  <2> DEFINE Own ==
        /\ assigned' \subseteq exists'
        /\ pc'[h] \in {"backfill", "setL2", "setL1"} => job'[h].perms = assigned'
        /\ pc'[h] \in {"assignCount", "assignFind", "insert"} => job'[h].role \in exists'
        /\ pc'[h] = "deleteRole" => job'[h].role \notin assigned'
        /\ pc'[h] \notin {"forgetL1", "forgetL2"} => (Fresh(l2)' => l2'.perms = assigned')
        /\ pc'[h] # "forgetL1" => \A p \in Pods \ dirty' : Fresh(l1[p])' => l1'[p].perms = assigned'
  <2>4. ASSUME Own PROVE SerialInv'
    BY <2>2, <2>4 DEF SerialInv
  <2>5. /\ assigned \subseteq exists
        /\ pc[h] \in {"backfill", "setL2", "setL1"} => job[h].perms = assigned
        /\ pc[h] \in {"assignCount", "assignFind", "insert"} => job[h].role \in exists
        /\ pc[h] = "deleteRole" => job[h].role \notin assigned
        /\ pc[h] \notin {"forgetL1", "forgetL2"} => (Fresh(l2) => l2.perms = assigned)
        /\ pc[h] # "forgetL1" => \A p \in Pods \ dirty : Fresh(l1[p]) => l1[p].perms = assigned
    BY <2>1, <2>2 DEF SerialInv
  <2>6. CASE GetL1(h)
    <3>1. pc'[h] \in {"idle", "l2"} /\ pc[h] = "idle" /\ UNCHANGED <<exists, assigned, l2, dirty>>
          /\ (l1' = l1 \/ l1' = [l1 EXCEPT ![PodOf[h]] = None])
      BY <2>3, <2>6 DEF GetL1, Begin, database
    <3>2. Own
      BY <2>1, <2>3, <2>5, <3>1 DEF Fresh
    <3> QED
      BY <2>4, <3>2
  <2>7. CASE GetL2(h)
    <3>1. /\ pc[h] = "l2" /\ UNCHANGED <<exists, assigned, l1, l2, dirty>>
          /\ \/ pc'[h] = "load"
             \/ pc'[h] = "backfill" /\ Fresh(l2) /\ job' = [job EXCEPT ![h] = [job[h] EXCEPT !.perms = l2.perms]]
      BY <2>3, <2>7 DEF GetL2, Goto, database, layers
    <3>2. pc'[h] = "backfill" => job'[h].perms = l2.perms
      BY <2>3, <3>1 DEF TypeOK
    <3>3. Own
      BY <2>1, <2>5, <3>1, <3>2 DEF Fresh
    <3> QED
      BY <2>4, <3>3
  <2>8. CASE Load(h)
    <3>1. /\ pc[h] = "load" /\ UNCHANGED <<exists, assigned, l1, l2, dirty>>
          /\ \/ pc'[h] = "idle"
             \/ pc'[h] = "setL2" /\ job' = [job EXCEPT ![h] = [job[h] EXCEPT !.perms = assigned]]
      BY <2>3, <2>8 DEF Load, Goto, Return, database, layers
    <3>2. pc'[h] = "setL2" => job'[h].perms = assigned
      BY <2>3, <3>1 DEF TypeOK
    <3>3. Own
      BY <2>1, <2>5, <3>1, <3>2 DEF Fresh
    <3> QED
      BY <2>4, <3>3
  <2>9. CASE SetL2(h)
    <3>1. /\ pc[h] = "setL2" /\ pc'[h] = "setL1" /\ UNCHANGED <<exists, assigned, l1, job, dirty>>
          /\ l2' = [perms |-> job[h].perms, until |-> now + TtlL2]
      BY <2>3, <2>9 DEF SetL2, Goto, database
    <3>2. l2'.perms = job[h].perms
      BY <3>1
    <3>3. Own
      BY <2>1, <2>5, <3>1, <3>2 DEF Fresh
    <3> QED
      BY <2>4, <3>3
  <2>10. CASE Backfill(h) \/ SetL1(h)
    <3>1. /\ pc[h] \in {"backfill", "setL1"} /\ pc'[h] = "idle" /\ UNCHANGED <<exists, assigned, l2>>
          /\ l1' = [l1 EXCEPT ![PodOf[h]] = [perms |-> job[h].perms, until |-> now + TtlL1]]
          /\ dirty' = dirty \ {PodOf[h]}
      BY <2>3, <2>10 DEF Backfill, SetL1, Store, Answer, Return, Goto, database
    <3>2. l1'[PodOf[h]].perms = job[h].perms /\ \A p \in Pods \ {PodOf[h]} : l1'[p] = l1[p]
      BY <2>3, <3>1
    <3>3. Own
      BY <2>1, <2>5, <3>1, <3>2 DEF Fresh
    <3> QED
      BY <2>4, <3>3
  <2>11. CASE ForgetL1(h) \/ ForgetL2(h)
    <3>1. /\ UNCHANGED <<exists, assigned>>
          /\ \/ /\ pc[h] = "forgetL1" /\ pc'[h] = "forgetL2" /\ l2' = l2
                /\ l1' = [l1 EXCEPT ![PodOf[h]] = None] /\ dirty' = (dirty \cup Pods) \ {PodOf[h]}
             \/ /\ pc[h] = "forgetL2" /\ pc'[h] = "idle" /\ l2' = None /\ UNCHANGED <<l1, dirty>>
      BY <2>3, <2>11 DEF ForgetL1, ForgetL2, Return, Goto, database
    <3>2. Own
      BY <2>1, <2>3, <2>5, <3>1 DEF Fresh
    <3> QED
      BY <2>4, <3>2
  <2>12. CASE InsertAssignment(h) \/ DeleteAssignment(h)
    <3>1. /\ UNCHANGED <<exists, l1, l2, dirty>> /\ pc[h] \in {"insert", "delete"}
          /\ \/ assigned' = assigned /\ pc'[h] = "idle"
             \/ assigned' \subseteq assigned /\ pc'[h] = "forgetL1"
             \/ assigned' = assigned \cup {job[h].role} /\ pc[h] = "insert" /\ pc'[h] = "forgetL1"
      BY <2>3, <2>12 DEF InsertAssignment, DeleteAssignment, Assigned, Return, Goto, layers
    <3>2. Own
      BY <2>1, <2>5, <3>1 DEF Fresh
    <3> QED
      BY <2>4, <3>2
  <2>13. CASE AssignCount(h) \/ AssignFind(h) \/ CountUsers(h) \/ DeleteRole(h)
    <3>1. /\ UNCHANGED <<assigned, l1, l2, dirty>>
          /\ pc[h] \in {"assignCount", "assignFind", "countUsers", "deleteRole"}
          /\ \/ pc'[h] = "idle" /\ exists' = exists
             \/ pc'[h] = "idle" /\ pc[h] = "deleteRole" /\ exists' = exists \ {job[h].role}
             \/ /\ pc[h] \in {"assignCount", "assignFind"} /\ pc'[h] \in {"assignFind", "insert"}
                /\ UNCHANGED <<exists, job>>
             \/ pc'[h] = "deleteRole" /\ UNCHANGED <<exists, job>> /\ job[h].role \notin assigned
      BY <2>3, <2>13 DEF AssignCount, AssignFind, CountUsers, DeleteRole, Return, Goto, layers, database
    <3>2. Own
      BY <2>1, <2>5, <3>1 DEF Fresh
    <3> QED
      BY <2>4, <3>2
  <2>14. ASSUME NEW r \in Roles, AssignLookup(h, r) \/ RevokeLookup(h, r) \/ DeleteRoleLookup(h, r)
         PROVE  SerialInv'
    <3>1. /\ UNCHANGED <<exists, assigned, l1, l2, dirty>> /\ pc[h] = "idle"
          /\ pc'[h] \in {"assignCount", "delete", "countUsers"} /\ r \in exists
          /\ job' = [job EXCEPT ![h] = [role |-> r, perms |-> {}, start |-> now]]
      BY <2>3, <2>14 DEF AssignLookup, RevokeLookup, DeleteRoleLookup, Begin, layers, database
    <3>2. job'[h].role = r
      BY <2>3, <3>1
    <3>3. Own
      BY <2>1, <2>5, <3>1, <3>2 DEF Fresh
    <3> QED
      BY <2>4, <3>3
  <2>15. ~RedisFails(h) /\ ~DatabaseFails(h)
    BY DEF RedisFails, DatabaseFails, Fails
  <2> QED
    BY <1>3, <2>6, <2>7, <2>8, <2>9, <2>10, <2>11, <2>12, <2>13, <2>14, <2>15 DEF Act
<1> QED
  BY <1>1, <1>2, <1>3 DEF Next, Act

(* Every step keeps the invariant. *)
LEMMA RolesStep == RolesInv /\ [Next]_cache => RolesInv'
<1>1. RolesInv /\ [Next]_cache => CacheInv' /\ TypeOK' /\ Turns'
  BY CacheStep, TypesStep, TurnsStep DEF RolesInv
<1> QED
  BY <1>1, CapStep, SerialStep DEF RolesInv

(* The invariant says what CacheSound promises. *)
LEMMA RolesInvSound == RolesInv => CacheSound
<1> SUFFICES ASSUME RolesInv PROVE CacheSound
  OBVIOUS
<1>1. TypeOK /\ Turns /\ CapInv /\ SerialInv
  BY DEF RolesInv
<1>2. RolesWithinCap
  <2>1. Cardinality(Counted) \in Nat /\ Cardinality(assigned) \in Nat /\ AtOnce \in Nat /\ MaxRoles \in Nat
    BY <1>1, CountedBounded, RolesCounted, CacheAssumption DEF TypeOK
  <2> QED
    BY <1>1, <2>1 DEF CapInv, RolesWithinCap, AtOnce
<1> QED
  BY <1>1, <1>2 DEF CacheSound, SerialCacheFresh, SerialNoDanglingRole, Idle, Resolvable, SerialInv

(* RolesSound, for any number of requests, pods, roles and ticks: the cap on *)
(* a user's roles is exceeded by overlapping requests only, by one role     *)
(* each; alone and without failures the shared layer and the one of the pod *)
(* that made a change never lag behind the database, and no user keeps a    *)
(* role that is gone (rbac.go:193-510, handlers/role.go).                   *)
THEOREM RolesBounded == AccessSpec => []RolesSound
<1>1. AccessInit => (part = "roles" => RolesInv)
  BY RolesInit DEF AccessInit
<1>2. (part = "roles" => RolesInv) /\ [AccessNext]_all => (part = "roles" => RolesInv)'
  BY RolesStep DEF AccessNext, all
<1>3. (part = "roles" => RolesInv) => RolesSound
  BY RolesInvSound DEF RolesSound
<1> QED
  BY <1>1, <1>2, <1>3, PTL DEF AccessSpec

-----------------------------------------------------------------------------
(* The account of one user.                                                 *)

(* Where a request of the account can stand. *)
ClientSteps == {"idle", "compare", "pend", "count", "insert", "session", "history", "save", "members", "purge",
                "tokens", "unlink", "done", "rotate"}

(* What such a request carries along. *)
ClientCopy ==
    [kind : {"none", "login", "change", "reset", "refresh", "reuse"}, attempts : Nat,
     old : Passwords \cup {Wrong}, new : Passwords \cup {Wrong}, device : Devices, sid : Nat, token : Nat,
     via : {"none", "password", "pending", "google"}, of : Nat \cup Links, members : SUBSET Nat]

(* Which copies belong to which step. *)
Placed(h) ==
    /\ pc[h] \in {"compare", "pend", "count", "insert", "session"} => job[h].of \in Nat /\ job[h].kind = "login"
    /\ pc[h] \in {"count", "insert", "session"} => job[h].via # "none"
    /\ pc[h] \in {"history", "save"} => job[h].new \in Passwords /\ job[h].kind \in {"change", "reset"}
    /\ pc[h] \in {"members", "purge", "tokens"} => job[h].kind \in {"change", "reset", "reuse"}
    /\ pc[h] = "unlink" => job[h].kind = "reset"
    /\ job[h].kind = "reset" => job[h].of \in Links

(* The types the argument needs. *)
AccountTypes ==
    /\ Au!TypeOK
    /\ pc \in [Requests -> ClientSteps] /\ job \in [Requests -> ClientCopy]
    /\ \A h \in Requests : Placed(h)

(* A step of one request. *)
ClientAct(h) ==
    \/ Au!LoginStep(h) \/ Au!PasswordStep(h) \/ Au!RefreshStep(h)
    \/ Au!Answer(h) \/ Au!IgnoredError(h) \/ Au!Abort(h)

(* Every configured lifetime is one. *)
LEMMA LifetimeConfigured == ASSUME NEW device PROVE Au!DetermineTokenTTL(Role, device) \in Au!Lifetimes
BY AccessAssumption DEF Au!AuthAssumption, Au!DetermineTokenTTL

(* So is the lifetime of what a login creates. *)
LEMMA LifetimeOfLogin ==
    ASSUME NEW h PROVE Au!Ttl(h) \in Au!Lifetimes /\ Au!Ttl(h).access \in Nat \ {0} /\ Au!Ttl(h).refresh \in Nat \ {0}
<1>1. Au!Ttl(h) \in Au!Lifetimes
  BY AccessAssumption, LifetimeConfigured DEF Au!AuthAssumption, Au!Ttl
<1> QED
  BY <1>1 DEF Au!Lifetimes

(* What the request of a step does with its own place. *)
LEMMA ClientMoves ==
    ASSUME AccountTypes, NEW h \in Requests, ClientAct(h)
    PROVE  /\ pc' = [pc EXCEPT ![h] = pc'[h]] /\ job' = [job EXCEPT ![h] = job'[h]]
           /\ UNCHANGED <<overlap, now>>
           /\ pc[h] = "idle" /\ ~overlap => \A g \in Requests : pc[g] = "idle"
<1>1. pc = [pc EXCEPT ![h] = pc[h]] /\ job = [job EXCEPT ![h] = job[h]]
  BY DEF AccountTypes
<1>2. ASSUME Au!LoginStep(h)
      PROVE  /\ pc' = [pc EXCEPT ![h] = pc'[h]] /\ job' = [job EXCEPT ![h] = job'[h]]
             /\ UNCHANGED <<overlap, now>>
             /\ pc[h] = "idle" /\ ~overlap => \A g \in Requests : pc[g] = "idle"
  BY <1>1, <1>2, ZenonT(60)
  DEF AccountTypes, Au!LoginStep, Au!LoginLoad, Au!LoginFail, Au!LoginMatch, Au!CreatePending2FASession, Au!Verify2FA,
      Au!CountUserSessions, Au!InsertRefreshToken, Au!CreateSession, Au!GoogleLogin, Au!Begin, Au!MayBegin,
      Au!Goto, Au!Return, Au!bounds
<1>3. ASSUME Au!PasswordStep(h)
      PROVE  /\ pc' = [pc EXCEPT ![h] = pc'[h]] /\ job' = [job EXCEPT ![h] = job'[h]]
             /\ UNCHANGED <<overlap, now>>
             /\ pc[h] = "idle" /\ ~overlap => \A g \in Requests : pc[g] = "idle"
  BY <1>1, <1>3, ZenonT(60)
  DEF AccountTypes, Au!PasswordStep, Au!ChangeLoad, Au!ResetGet, Au!CheckPasswordHistory, Au!SavePassword,
      Au!RevokeAllMembers, Au!RevokeAllPurge, Au!RevokeAllTokens, Au!DeleteLink, Au!Begin, Au!MayBegin, Au!Proceed,
      Au!Goto, Au!Return, Au!bounds
<1>4. ASSUME Au!RefreshStep(h) \/ Au!Answer(h) \/ Au!IgnoredError(h) \/ Au!Abort(h)
      PROVE  /\ pc' = [pc EXCEPT ![h] = pc'[h]] /\ job' = [job EXCEPT ![h] = job'[h]]
             /\ UNCHANGED <<overlap, now>>
             /\ pc[h] = "idle" /\ ~overlap => \A g \in Requests : pc[g] = "idle"
  BY <1>1, <1>4, ZenonT(60)
  DEF AccountTypes, Au!RefreshStep, Au!RefreshLoad, Au!RotateToken, Au!Answer, Au!IgnoredError, Au!Abort,
      Au!Begin, Au!MayBegin, Au!Proceed, Au!Goto, Au!Return, Au!bounds
<1> QED
  BY <1>2, <1>3, <1>4 DEF ClientAct

(* Which steps touch which rows, keys and counts. *)
LEMMA Footprints ==
    ASSUME NEW h \in Requests, ClientAct(h)
    PROVE  /\ UNCHANGED <<attempts, lockedUntil, wrong, lastWrong>> \/ Au!LoginFail(h) \/ Au!LoginMatch(h)
           /\ UNCHANGED <<password, history, uses>> \/ Au!SavePassword(h)
           /\ UNCHANGED links \/ Au!DeleteLink(h)
           /\ \/ UNCHANGED <<pending, issued>> \/ Au!CreatePending2FASession(h)
              \/ \E p \in pending, ok \in BOOLEAN : Au!Verify2FA(h, p, ok)
           /\ \/ UNCHANGED <<sessions, index, indexUntil>>
              \/ Au!InsertRefreshToken(h) \/ Au!CreateSession(h) \/ Au!RevokeAllPurge(h)
           /\ \/ UNCHANGED tokens
              \/ Au!InsertRefreshToken(h) \/ Au!RevokeAllTokens(h) \/ Au!RotateToken(h)
           /\ \/ UNCHANGED barred
              \/ Au!SavePassword(h) \/ (\E t \in 1..Len(tokens) : Au!RefreshLoad(h, t))
<1>1. CASE Au!LoginStep(h)
  BY <1>1
  DEF Au!LoginStep, Au!LoginLoad, Au!CountUserSessions, Au!InsertRefreshToken, Au!CreateSession, Au!GoogleLogin,
      Au!LoginFail, Au!LoginMatch, Au!CreatePending2FASession, Au!Verify2FA,
      Au!account, Au!secret, Au!redisSessions, Au!redisKeys, Au!ghosts, Au!bounds
<1>2. CASE Au!PasswordStep(h)
  BY <1>2, ZenonT(60)
  DEF Au!PasswordStep, Au!ChangeLoad, Au!ResetGet, Au!CheckPasswordHistory, Au!SavePassword,
      Au!RevokeAllMembers, Au!RevokeAllPurge, Au!RevokeAllTokens, Au!DeleteLink,
      Au!account, Au!secret, Au!redisSessions, Au!redisKeys, Au!ghosts, Au!bounds
<1>3. CASE Au!RefreshStep(h) \/ Au!Answer(h) \/ Au!IgnoredError(h) \/ Au!Abort(h)
  BY <1>3, ZenonT(60)
  DEF Au!RefreshStep, Au!RefreshLoad, Au!RotateToken, Au!Answer, Au!IgnoredError, Au!Abort,
      Au!account, Au!secret, Au!redisSessions, Au!redisKeys, Au!ghosts, Au!bounds
<1> QED
  BY <1>1, <1>2, <1>3 DEF ClientAct

(* What requests of the account start with. *)
LEMMA NoJobTyped == Au!NoJob \in ClientCopy /\ Au!NoJob.kind = "none" /\ Au!NoJob.members = {} /\ Au!NoJob.of = 0
BY AccessAssumption DEF Au!AuthAssumption, Au!NoJob, ClientCopy

(* A request that returns leaves nothing behind. *)
LEMMA ReturnPlaced ==
    ASSUME AccountTypes, NEW h \in Requests, Au!Return(h)
    PROVE  /\ pc'[h] = "idle" /\ job'[h] = Au!NoJob
           /\ pc'[h] \in ClientSteps /\ job'[h] \in ClientCopy /\ Placed(h)'
<1>1. pc'[h] = "idle" /\ job'[h] = Au!NoJob
  BY DEF AccountTypes, Au!Return, Au!Goto
<1> QED
  BY <1>1, NoJobTyped DEF Placed, ClientSteps

(* The copies stay of their types and at their steps. *)
LEMMA PlacedStep ==
    ASSUME AccountTypes, NEW h \in Requests, ClientAct(h)
    PROVE  pc'[h] \in ClientSteps /\ job'[h] \in ClientCopy /\ Placed(h)'
<1> DEFINE Goal == pc'[h] \in ClientSteps /\ job'[h] \in ClientCopy /\ Placed(h)'
<1>1. /\ h \in DOMAIN pc /\ h \in DOMAIN job /\ job[h] \in ClientCopy /\ Placed(h) /\ pc[h] \in ClientSteps
      /\ attempts \in Nat /\ password \in Passwords /\ links \subseteq Links /\ pending \subseteq 1..issued
      /\ issued \in Nat /\ "web" \in Devices
  BY AccessAssumption DEF AccountTypes, Au!TypeOK, Au!AuthAssumption
<1>2. ASSUME NEW step, NEW j, Au!Begin(h, step, j) PROVE pc'[h] = step /\ job'[h] = j
  BY <1>1, <1>2 DEF Au!Begin, Au!Goto
<1>3. ASSUME NEW step, Au!Goto(h, step) PROVE pc'[h] = step
  BY <1>1, <1>3 DEF Au!Goto
<1>4. CASE Au!Return(h)
  BY <1>4, ReturnPlaced
<1>5. CASE Au!LoginStep(h)
  <2>1. ASSUME NEW pw \in Passwords \cup {Wrong}, NEW d \in Devices, Au!LoginLoad(h, pw, d) PROVE Goal
    <3>1. /\ pc'[h] = "compare"
          /\ job'[h] = [Au!NoJob EXCEPT !.kind = "login", !.attempts = attempts, !.old = password, !.new = pw,
                                        !.device = d]
      BY <2>1, <1>2 DEF Au!LoginLoad
    <3>2. job'[h] \in ClientCopy
      BY ONLY <3>1, <1>1, NoJobTyped, ZenonT(60) DEF ClientCopy
    <3>3. job'[h].kind = "login" /\ job'[h].of = 0
      BY ONLY <3>1, <1>1, NoJobTyped DEF ClientCopy
    <3> QED
      BY <3>1, <3>2, <3>3 DEF Placed, ClientSteps
  <2>2. CASE Au!LoginMatch(h)
    <3>1. /\ pc[h] = "compare" /\ pc'[h] \in {"pend", "count"} /\ job'[h] = [job[h] EXCEPT !.via = "password"]
      BY <2>2, <1>1 DEF Au!LoginMatch, Au!Goto
    <3>2. /\ job'[h] \in ClientCopy /\ job'[h].kind = job[h].kind /\ job'[h].of = job[h].of
          /\ job'[h].via = "password"
      BY <3>1, <1>1 DEF ClientCopy
    <3> QED
      BY <3>1, <3>2, <1>1 DEF Placed, ClientSteps
  <2>3. ASSUME NEW p \in pending, NEW ok \in BOOLEAN, Au!Verify2FA(h, p, ok) PROVE Goal
    <3>1. CASE ok
      <4>1. pc'[h] = "count" /\ job'[h] = [Au!NoJob EXCEPT !.kind = "login", !.via = "pending", !.of = p]
        BY <2>3, <3>1, <1>2 DEF Au!Verify2FA
      <4>. p \in Nat
        BY <1>1
      <4>2. job'[h] \in ClientCopy
        BY ONLY <4>1, p \in Nat, <1>1, NoJobTyped DEF ClientCopy
      <4>3. job'[h].kind = "login" /\ job'[h].of = p /\ p \in Nat /\ job'[h].via = "pending"
        BY ONLY <4>1, p \in Nat, <1>1, NoJobTyped DEF ClientCopy
      <4> QED
        BY <4>1, <4>2, <4>3 DEF Placed, ClientSteps
    <3>2. CASE ~ok
      <4>1. pc'[h] = "idle" /\ job'[h] = Au!NoJob
        BY <2>3, <3>2, <1>2 DEF Au!Verify2FA
      <4> QED
        BY <4>1, NoJobTyped DEF Placed, ClientSteps
    <3> QED
      BY <3>1, <3>2
  <2>4. CASE Au!CountUserSessions(h)
    <3>1. Au!Return(h) \/ (pc[h] = "count" /\ pc'[h] = "insert" /\ job'[h] = job[h])
      BY <2>4, <1>1 DEF Au!CountUserSessions, Au!Goto
    <3> QED
      BY <3>1, <1>1, <1>4 DEF Placed, ClientSteps
  <2>5. CASE Au!InsertRefreshToken(h)
    <3>1. /\ pc[h] = "insert" /\ pc'[h] = "session" /\ job'[h] = [job[h] EXCEPT !.sid = Len(sessions')]
          /\ Len(sessions') \in Nat
      BY <2>5, <1>1 DEF Au!InsertRefreshToken, Au!Goto, AccountTypes, Au!TypeOK
    <3>2. /\ job'[h] \in ClientCopy /\ job'[h].kind = job[h].kind /\ job'[h].of = job[h].of
          /\ job'[h].via = job[h].via
      BY <3>1, <1>1 DEF ClientCopy
    <3> QED
      BY <3>1, <3>2, <1>1 DEF Placed, ClientSteps
  <2>6. CASE Au!GoogleLogin(h)
    <3>1. pc'[h] = "insert" /\ job'[h] = [Au!NoJob EXCEPT !.kind = "login", !.via = "google"]
      BY <2>6, <1>2 DEF Au!GoogleLogin
    <3>2. job'[h] \in ClientCopy
      BY ONLY <3>1, <1>1, NoJobTyped DEF ClientCopy
    <3>3. job'[h].kind = "login" /\ job'[h].of = 0 /\ job'[h].via = "google"
      BY ONLY <3>1, <1>1, NoJobTyped DEF ClientCopy
    <3> QED
      BY <3>1, <3>2, <3>3 DEF Placed, ClientSteps
  <2>7. Au!LoginFail(h) \/ Au!CreatePending2FASession(h) \/ Au!CreateSession(h) => Au!Return(h)
    BY DEF Au!LoginFail, Au!CreatePending2FASession, Au!CreateSession
  <2> QED
    BY <1>4, <1>5, <2>1, <2>2, <2>3, <2>4, <2>5, <2>6, <2>7 DEF Au!LoginStep
<1>6. CASE Au!PasswordStep(h)
  <2>1. ASSUME NEW old \in Passwords, NEW new \in Passwords, Au!ChangeLoad(h, old, new) PROVE Goal
    <3>1. pc'[h] = "history" /\ job'[h] = [Au!NoJob EXCEPT !.kind = "change", !.old = old, !.new = new]
      BY <2>1, <1>2 DEF Au!ChangeLoad
    <3>2. job'[h] \in ClientCopy
      BY ONLY <3>1, <1>1, NoJobTyped DEF ClientCopy
    <3>3. job'[h].kind = "change" /\ job'[h].new = new
      BY ONLY <3>1, <1>1, NoJobTyped DEF ClientCopy
    <3> QED
      BY <3>1, <3>2, <3>3 DEF Placed, ClientSteps
  <2>2. ASSUME NEW l \in links, NEW new \in Passwords, Au!ResetGet(h, l, new) PROVE Goal
    <3>1. pc'[h] = "history" /\ job'[h] = [Au!NoJob EXCEPT !.kind = "reset", !.new = new, !.of = l]
      BY <2>2, <1>2 DEF Au!ResetGet
    <3>2. job'[h] \in ClientCopy
      BY ONLY <3>1, <1>1, NoJobTyped DEF ClientCopy
    <3>3. job'[h].kind = "reset" /\ job'[h].new = new /\ job'[h].of = l /\ l \in Links
      BY ONLY <3>1, <1>1, NoJobTyped DEF ClientCopy
    <3> QED
      BY <3>1, <3>2, <3>3 DEF Placed, ClientSteps
  <2>3. CASE Au!CheckPasswordHistory(h)
    <3>1. Au!Return(h) \/ (pc[h] = "history" /\ pc'[h] = "save" /\ job'[h] = job[h])
      BY <2>3, <1>1 DEF Au!CheckPasswordHistory, Au!Goto
    <3> QED
      BY <3>1, <1>1, <1>4 DEF Placed, ClientSteps
  <2>4. CASE Au!SavePassword(h)
    <3>1. pc[h] = "save" /\ pc'[h] = "members" /\ job'[h] = job[h]
      BY <2>4, <1>1 DEF Au!SavePassword, Au!Goto
    <3> QED
      BY <3>1, <1>1 DEF Placed, ClientSteps
  <2>5. CASE Au!RevokeAllMembers(h)
    <3>1. /\ pc[h] = "members" /\ job[h].kind \in {"change", "reset", "reuse"}
          /\ pc'[h] \in {"purge", Au!After["purge"][job[h].kind]}
          /\ job'[h] = job[h] \/ job'[h] = [job[h] EXCEPT !.members = Au!Index]
      BY <2>5, <1>1 DEF Au!RevokeAllMembers, Au!Proceed, Au!Goto, Placed
    <3>2. Au!Index \in SUBSET Nat
      BY SMTT(30) DEF Au!Index, AccountTypes, Au!TypeOK
    <3>3. job'[h] \in ClientCopy /\ job'[h].kind = job[h].kind /\ job'[h].of = job[h].of
      BY <3>1, <3>2, <1>1 DEF ClientCopy
    <3>4. pc'[h] \in {"purge", "tokens", "done"}
      BY <3>1 DEF Au!After
    <3> QED
      BY <3>1, <3>3, <3>4, <1>1 DEF Placed, ClientSteps
  <2>6. CASE Au!RevokeAllPurge(h)
    <3>1. pc[h] = "purge" /\ pc'[h] = Au!After["purge"][job[h].kind] /\ job'[h] = job[h]
      BY <2>6, <1>1 DEF Au!RevokeAllPurge, Au!Proceed, Au!Goto
    <3>2. pc'[h] \in {"tokens", "done"} /\ job[h].kind \in {"change", "reset", "reuse"}
      BY <3>1, <1>1 DEF Au!After, Placed
    <3> QED
      BY <3>1, <3>2, <1>1 DEF Placed, ClientSteps
  <2>7. CASE Au!RevokeAllTokens(h)
    <3>1. pc[h] = "tokens" /\ pc'[h] = Au!After["tokens"][job[h].kind] /\ job'[h] = job[h]
      BY <2>7, <1>1 DEF Au!RevokeAllTokens, Au!Proceed, Au!Goto
    <3>2. /\ pc'[h] \in {"done", "unlink", "members"} /\ job[h].kind \in {"change", "reset", "reuse"}
          /\ pc'[h] = "unlink" => job[h].kind = "reset"
      BY <3>1, <1>1 DEF Au!After, Placed
    <3> QED
      BY <3>1, <3>2, <1>1 DEF Placed, ClientSteps
  <2>8. CASE Au!DeleteLink(h)
    <3>1. pc'[h] = "done" /\ job'[h] = job[h]
      BY <2>8, <1>1 DEF Au!DeleteLink, Au!Goto
    <3> QED
      BY <3>1, <1>1 DEF Placed, ClientSteps
  <2> QED
    BY <1>6, <2>1, <2>2, <2>3, <2>4, <2>5, <2>6, <2>7, <2>8 DEF Au!PasswordStep
<1>7. CASE Au!RefreshStep(h)
  <2>1. ASSUME NEW t \in 1..Len(tokens), Au!RefreshLoad(h, t) PROVE Goal
    <3>1. PICK kind \in {"reuse", "refresh"}, step \in {"tokens", "rotate"} :
            /\ pc'[h] = step /\ (step = "tokens" => kind = "reuse")
            /\ job'[h] = [[Au!NoJob EXCEPT !.token = t] EXCEPT !.kind = kind]
      BY <2>1, <1>2 DEF Au!RefreshLoad
    <3>. t \in Nat
      OBVIOUS
    <3>2. job'[h] \in ClientCopy
      BY ONLY t \in Nat, <3>1, <1>1, NoJobTyped DEF ClientCopy
    <3>3. job'[h].kind = kind
      BY ONLY <3>1, <1>1, NoJobTyped DEF ClientCopy
    <3> QED
      BY <3>1, <3>2, <3>3 DEF Placed, ClientSteps
  <2>2. CASE Au!RotateToken(h)
    <3>1. pc'[h] = "done" /\ job'[h] = job[h]
      BY <2>2, <1>1 DEF Au!RotateToken, Au!Goto
    <3> QED
      BY <3>1, <1>1 DEF Placed, ClientSteps
  <2> QED
    BY <1>7, <2>1, <2>2 DEF Au!RefreshStep
<1>8. CASE Au!IgnoredError(h)
  <2>1. /\ pc[h] \in {"members", "purge", "tokens", "unlink"} /\ job'[h] = job[h]
        /\ IF pc[h] = "unlink" THEN pc'[h] = "done"
           ELSE pc'[h] = Au!After[IF pc[h] = "tokens" THEN "tokens" ELSE "purge"][job[h].kind]
    BY <1>8, <1>1 DEF Au!IgnoredError, Au!Proceed, Au!Goto
  <2>2. pc[h] # "unlink" => job[h].kind \in {"change", "reset", "reuse"}
    BY <2>1, <1>1 DEF Placed
  <2>3. /\ pc'[h] \in {"done", "tokens", "unlink", "members"} /\ (pc'[h] = "unlink" => job[h].kind = "reset")
        /\ pc'[h] \in {"tokens", "members"} => job[h].kind \in {"change", "reset", "reuse"}
    BY <2>1, <2>2 DEF Au!After
  <2> QED
    BY <2>1, <2>3, <1>1 DEF Placed, ClientSteps
<1>9. CASE Au!Answer(h) \/ Au!Abort(h)
  BY <1>4, <1>9 DEF Au!Answer, Au!Abort
<1> QED
  BY <1>5, <1>6, <1>7, <1>8, <1>9 DEF ClientAct

(* Rows of sessions, and of refresh tokens for sessions up to n. *)
SessionRow == [until : Nat, ttl : Nat, via : {"password", "pending", "google"}, of : Nat]
TokenRow(n) == [sid : 1..n, device : Devices, until : Nat, revoked : BOOLEAN]

(* What TypeOK says of the rows. *)
LEMMA RowTypes ==
    ASSUME Au!TypeOK
    PROVE  /\ sessions \in Seq(SessionRow) /\ Len(sessions) \in Nat /\ DOMAIN sessions = 1..Len(sessions)
           /\ tokens \in Seq(TokenRow(Len(sessions))) /\ Len(tokens) \in Nat /\ DOMAIN tokens = 1..Len(tokens)
           /\ index \subseteq 1..Len(sessions) /\ Au!Index \subseteq 1..Len(sessions)
           /\ now \in Nat \ {0} /\ indexUntil \in Nat
<1>1. sessions \in Seq(SessionRow) /\ DOMAIN sessions = 1..Len(sessions) /\ Len(sessions) \in Nat
  BY DEF Au!TypeOK, SessionRow
<1>2. tokens \in Seq(TokenRow(Len(sessions))) /\ Len(tokens) \in Nat /\ DOMAIN tokens = 1..Len(tokens)
  BY <1>1 DEF Au!TypeOK, TokenRow
<1> QED
  BY <1>1, <1>2 DEF Au!TypeOK, Au!Index

(* A session that ends is a row as before. *)
LEMMA RowEnds ==
    ASSUME NEW r \in SessionRow, NEW n \in Nat, NEW q, q = [r EXCEPT !.until = n]
    PROVE  q \in SessionRow /\ q.until = n /\ q.ttl = r.ttl /\ q.via = r.via /\ q.of = r.of
BY DEF SessionRow

(* A refresh token that is revoked is a row as before. *)
LEMMA TokenRevoked ==
    ASSUME NEW m \in Nat, NEW r \in TokenRow(m), NEW q, q = [r EXCEPT !.revoked = TRUE]
    PROVE  q \in TokenRow(m) /\ q.sid = r.sid /\ q.revoked = TRUE
BY DEF TokenRow

(* Sessions are only added, and keep how they were opened. *)
LEMMA SessionsKept ==
    ASSUME AccountTypes, (\E h \in Requests : ClientAct(h)) \/ (\E s \in 1..Len(sessions) : Au!RevokeSession(s))
    PROVE  /\ sessions' \in Seq(SessionRow) /\ Len(sessions') \in Nat /\ Len(sessions) <= Len(sessions')
           /\ \A s \in 1..Len(sessions) : sessions'[s].via = sessions[s].via /\ sessions'[s].of = sessions[s].of
           /\ index' \subseteq 1..Len(sessions') /\ indexUntil' \in Nat
<1>1. /\ sessions \in Seq(SessionRow) /\ Len(sessions) \in Nat /\ DOMAIN sessions = 1..Len(sessions)
      /\ index \subseteq 1..Len(sessions) /\ Au!Index \subseteq 1..Len(sessions)
      /\ now \in Nat \ {0} /\ indexUntil \in Nat
  BY RowTypes DEF AccountTypes
<1>2. CASE UNCHANGED <<sessions, index, indexUntil>>
  BY <1>1, <1>2
<1>3. ASSUME NEW h \in Requests, Au!InsertRefreshToken(h) PROVE sessions' \in Seq(SessionRow)
      /\ Len(sessions') = Len(sessions) + 1 /\ (\A s \in 1..Len(sessions) : sessions'[s] = sessions[s])
      /\ UNCHANGED <<index, indexUntil>>
  <2>1. /\ sessions' = Append(sessions, [until |-> 0, ttl |-> 0, via |-> job[h].via, of |-> job[h].of])
        /\ pc[h] = "insert" /\ UNCHANGED <<index, indexUntil>>
    BY <1>3 DEF Au!InsertRefreshToken
  <2>2. job[h].via \in {"password", "pending", "google"} /\ job[h].of \in Nat
    BY <2>1 DEF AccountTypes, Placed, ClientCopy
  <2>3. [until |-> 0, ttl |-> 0, via |-> job[h].via, of |-> job[h].of] \in SessionRow
    BY <2>2 DEF SessionRow
  <2> QED
    BY <1>1, <2>1, <2>3
<1>4. ASSUME NEW h \in Requests, Au!CreateSession(h)
      PROVE  /\ sessions' \in Seq(SessionRow) /\ Len(sessions') = Len(sessions)
             /\ \A s \in 1..Len(sessions) : sessions'[s].via = sessions[s].via /\ sessions'[s].of = sessions[s].of
             /\ index' \subseteq 1..Len(sessions) /\ indexUntil' \in Nat
  <2>0. Au!Ttl(h).access \in Nat /\ now + Au!Ttl(h).access \in Nat
    BY <1>1, LifetimeOfLogin
  <2>1. pc[h] = "session" /\ job[h].sid \in 1..Len(sessions)
    BY <1>1, <1>4 DEF Au!CreateSession, AccountTypes, Au!TypeOK
  <2>2. PICK n, d, k, r :
          /\ n \in Nat /\ d \in Nat /\ k \in 1..Len(sessions)
          /\ r = [sessions[k] EXCEPT !.until = n, !.ttl = d] /\ sessions' = [sessions EXCEPT ![k] = r]
          /\ index' = Au!Index \cup {k} /\ indexUntil' = n
    BY <1>4, <2>0, <2>1 DEF Au!CreateSession
  <2>3. r \in SessionRow /\ r.via = sessions[k].via /\ r.of = sessions[k].of
    <3>1. sessions[k] \in SessionRow
      BY <1>1, <2>2
    <3> QED
      BY ONLY <2>2, <3>1 DEF SessionRow
  <2> QED
    BY ONLY <1>1, <2>2, <2>3
<1>5. ASSUME NEW h \in Requests, Au!RevokeAllPurge(h)
      PROVE  /\ sessions' \in Seq(SessionRow) /\ Len(sessions') = Len(sessions)
             /\ \A s \in 1..Len(sessions) : sessions'[s].via = sessions[s].via /\ sessions'[s].of = sessions[s].of
             /\ index' = {} /\ indexUntil' = 0
  <2>1. /\ sessions' = [s \in 1..Len(sessions) |->
                          IF s \in job[h].members THEN [sessions[s] EXCEPT !.until = 0] ELSE sessions[s]]
        /\ index' = {} /\ indexUntil' = 0
    BY <1>1, <1>5 DEF Au!RevokeAllPurge
  <2>2. \A s \in 1..Len(sessions) :
          /\ sessions'[s] \in SessionRow
          /\ sessions'[s].via = sessions[s].via /\ sessions'[s].of = sessions[s].of
    <3> SUFFICES ASSUME NEW s \in 1..Len(sessions)
                 PROVE  /\ sessions'[s] \in SessionRow
                        /\ sessions'[s].via = sessions[s].via /\ sessions'[s].of = sessions[s].of
      OBVIOUS
    <3>1. PICK r : r = [sessions[s] EXCEPT !.until = 0] /\ (sessions'[s] = sessions[s] \/ sessions'[s] = r)
      BY <2>1
    <3>2. sessions[s] \in SessionRow
      BY <1>1
    <3>3. r \in SessionRow /\ r.via = sessions[s].via /\ r.of = sessions[s].of
      BY ONLY <3>1, <3>2 DEF SessionRow
    <3> QED
      BY ONLY <3>1, <3>2, <3>3
  <2>3. DOMAIN sessions' = 1..Len(sessions) /\ sessions' \in [1..Len(sessions) -> SessionRow]
    BY <2>1, <2>2
  <2>4. sessions' \in Seq(SessionRow) /\ Len(sessions') = Len(sessions)
    BY ONLY <1>1, <2>3
  <2> QED
    BY <2>1, <2>2, <2>4
<1>6. ASSUME NEW s \in 1..Len(sessions), Au!RevokeSession(s)
      PROVE  /\ sessions' \in Seq(SessionRow) /\ Len(sessions') = Len(sessions)
             /\ \A u \in 1..Len(sessions) : sessions'[u].via = sessions[u].via /\ sessions'[u].of = sessions[u].of
             /\ index' \subseteq index \cup Au!Index /\ indexUntil' = indexUntil
  <2>1. /\ sessions' = [sessions EXCEPT ![s] = [sessions[s] EXCEPT !.until = 0]]
        /\ index' = Au!Index \ {s} /\ indexUntil' = indexUntil
    BY <1>1, <1>6 DEF Au!RevokeSession
  <2>2. PICK r : r = [sessions[s] EXCEPT !.until = 0] /\ sessions' = [sessions EXCEPT ![s] = r]
    BY <2>1
  <2>3. r \in SessionRow /\ r.via = sessions[s].via /\ r.of = sessions[s].of
    <3>1. sessions[s] \in SessionRow
      BY <1>1
    <3> QED
      BY ONLY <2>2, <3>1 DEF SessionRow
  <2> QED
    BY <1>1, <2>1, <2>2, <2>3
<1>7. ASSUME NEW h \in Requests, ClientAct(h)
      PROVE  \/ UNCHANGED <<sessions, index, indexUntil>>
             \/ Au!InsertRefreshToken(h) \/ Au!CreateSession(h) \/ Au!RevokeAllPurge(h)
  BY <1>7, Footprints
<1> QED
  <2>1. CASE \E s \in 1..Len(sessions) : Au!RevokeSession(s)
    <3>1. PICK s \in 1..Len(sessions) : Au!RevokeSession(s)
      BY <2>1
    <3>2. /\ sessions' \in Seq(SessionRow) /\ Len(sessions') = Len(sessions)
          /\ \A u \in 1..Len(sessions) : sessions'[u].via = sessions[u].via /\ sessions'[u].of = sessions[u].of
          /\ index' \subseteq index \cup Au!Index /\ indexUntil' = indexUntil
      BY <1>6, <3>1, Zenon
    <3> QED
      BY ONLY <1>1, <3>2
  <2>2. ASSUME NEW h \in Requests, ClientAct(h)
        PROVE  /\ sessions' \in Seq(SessionRow) /\ Len(sessions') \in Nat /\ Len(sessions) <= Len(sessions')
               /\ \A s \in 1..Len(sessions) : sessions'[s].via = sessions[s].via /\ sessions'[s].of = sessions[s].of
               /\ index' \subseteq 1..Len(sessions') /\ indexUntil' \in Nat
    <3>1. CASE Au!InsertRefreshToken(h)
      <4>1. /\ sessions' \in Seq(SessionRow) /\ Len(sessions') = Len(sessions) + 1
            /\ \A s \in 1..Len(sessions) : sessions'[s] = sessions[s]
            /\ UNCHANGED <<index, indexUntil>>
        BY <1>3, <3>1
      <4> QED
        BY ONLY <1>1, <4>1
    <3>2. CASE Au!CreateSession(h)
      BY <1>1, <1>4, <3>2
    <3>3. CASE Au!RevokeAllPurge(h)
      BY <1>1, <1>5, <3>3
    <3> QED
      BY <1>2, <1>7, <2>2, <3>1, <3>2, <3>3
  <2> QED
    BY <2>1, <2>2

(* Rows of refresh tokens are only added, keep their session, and never     *)
(* come back once revoked. *)
LEMMA TokensKept ==
    ASSUME AccountTypes, NEW h \in Requests, ClientAct(h)
    PROVE  /\ tokens' \in Seq(TokenRow(Len(sessions'))) /\ Len(tokens') \in Nat /\ Len(tokens) <= Len(tokens')
           /\ \A t \in 1..Len(tokens) :
                tokens'[t].sid = tokens[t].sid /\ (tokens[t].revoked => tokens'[t].revoked)
<1>1. /\ tokens \in Seq(TokenRow(Len(sessions))) /\ Len(tokens) \in Nat /\ DOMAIN tokens = 1..Len(tokens)
      /\ Len(sessions) \in Nat /\ Len(sessions') \in Nat /\ Len(sessions) <= Len(sessions') /\ now \in Nat
  BY RowTypes, SessionsKept DEF AccountTypes
<1>2. tokens \in Seq(TokenRow(Len(sessions')))
  <2>1. TokenRow(Len(sessions)) \subseteq TokenRow(Len(sessions'))
    BY <1>1 DEF TokenRow
  <2> QED
    BY <1>1, <2>1
<1>3. CASE UNCHANGED tokens
  BY <1>1, <1>2, <1>3
<1>4. CASE Au!InsertRefreshToken(h)
  <2>1. /\ sessions' = Append(sessions, [until |-> 0, ttl |-> 0, via |-> job[h].via, of |-> job[h].of])
        /\ tokens' = Append(tokens, [sid |-> Len(sessions'), device |-> job[h].device,
                                     until |-> now + Au!Ttl(h).refresh, revoked |-> FALSE])
    BY <1>4 DEF Au!InsertRefreshToken
  <2>2. [sid |-> Len(sessions'), device |-> job[h].device, until |-> now + Au!Ttl(h).refresh, revoked |-> FALSE]
          \in TokenRow(Len(sessions'))
    <3>1. sessions \in Seq(SessionRow) /\ Len(sessions') = Len(sessions) + 1
      BY <2>1, RowTypes DEF AccountTypes
    <3>2. Len(sessions') \in 1..Len(sessions') /\ job[h].device \in Devices /\ now + Au!Ttl(h).refresh \in Nat
      BY <1>1, <3>1, LifetimeOfLogin DEF AccountTypes, ClientCopy
    <3> QED
      BY <3>2 DEF TokenRow
  <2> QED
    BY <1>1, <1>2, <2>1, <2>2
<1>5. CASE Au!RevokeAllTokens(h)
  <2>1. tokens' = [t \in 1..Len(tokens) |-> [tokens[t] EXCEPT !.revoked = TRUE]]
    BY <1>1, <1>5 DEF Au!RevokeAllTokens
  <2>2. ASSUME NEW t \in 1..Len(tokens)
        PROVE  tokens'[t] \in TokenRow(Len(sessions')) /\ tokens'[t].sid = tokens[t].sid /\ tokens'[t].revoked
    <3>1. tokens[t] \in TokenRow(Len(sessions')) /\ tokens'[t] = [tokens[t] EXCEPT !.revoked = TRUE]
      BY <1>2, <2>1
    <3>2. PICK r : r = [tokens[t] EXCEPT !.revoked = TRUE] /\ tokens'[t] = r
      BY <3>1
    <3>3. r \in TokenRow(Len(sessions')) /\ r.sid = tokens[t].sid /\ r.revoked = TRUE
      BY ONLY <3>1, <3>2 DEF TokenRow
    <3> QED
      BY ONLY <3>2, <3>3
  <2>3. tokens' \in [1..Len(tokens) -> TokenRow(Len(sessions'))]
    BY <2>1, <2>2
  <2>4. tokens' \in Seq(TokenRow(Len(sessions'))) /\ Len(tokens') = Len(tokens)
    BY ONLY <1>1, <2>3
  <2> QED
    BY <1>1, <2>2, <2>4
<1>6. CASE Au!RotateToken(h)
  <2>1. PICK t \in 1..Len(tokens) : tokens' = Append([tokens EXCEPT ![t] = [tokens[t] EXCEPT !.revoked = TRUE]], Au!Successor(t))
    BY <1>1, <1>6 DEF Au!RotateToken, AccountTypes, Au!TypeOK
  <2>2. PICK n \in Nat : Au!Successor(t) = [tokens[t] EXCEPT !.revoked = FALSE, !.until = n]
    <3>1. Au!DetermineTokenTTL(Role, tokens[t].device) \in Au!Lifetimes
      BY LifetimeConfigured
    <3>2. now + Au!DetermineTokenTTL(Role, tokens[t].device).refresh \in Nat
      BY <1>1, <3>1 DEF Au!Lifetimes
    <3> QED
      BY <3>2 DEF Au!Successor
  <2>3. PICK r : r = [tokens[t] EXCEPT !.revoked = TRUE] /\ tokens' = Append([tokens EXCEPT ![t] = r], Au!Successor(t))
    BY <2>1
  <2>4. Au!Successor(t) \in TokenRow(Len(sessions'))
    <3>1. PICK q : q = [tokens[t] EXCEPT !.revoked = FALSE, !.until = n]
      OBVIOUS
    <3>2. tokens[t] \in TokenRow(Len(sessions'))
      BY <1>2
    <3>3. q \in TokenRow(Len(sessions'))
      BY ONLY <1>1, <3>1, <3>2, n \in Nat DEF TokenRow
    <3> QED
      BY <2>2, <3>1, <3>3
  <2>5. r \in TokenRow(Len(sessions')) /\ r.sid = tokens[t].sid /\ r.revoked = TRUE
    <3>1. tokens[t] \in TokenRow(Len(sessions'))
      BY <1>2
    <3> QED
      BY ONLY <2>3, <3>1 DEF TokenRow
  <2> QED
    BY ONLY <1>1, <1>2, <2>3, <2>4, <2>5
<1> QED
  BY <1>3, <1>4, <1>5, <1>6, Footprints

(* Requests begun and faults are only counted up. *)
LEMMA CountsGrow ==
    ASSUME NEW h \in Requests, ClientAct(h)
    PROVE  requests' \in {requests, requests + 1} /\ faults' \in {faults, faults + 1}
<1>1. CASE Au!LoginStep(h)
  BY <1>1
  DEF Au!LoginStep, Au!LoginLoad, Au!LoginFail, Au!LoginMatch, Au!CreatePending2FASession, Au!Verify2FA,
      Au!CountUserSessions, Au!InsertRefreshToken, Au!CreateSession, Au!GoogleLogin,
      Au!Begin, Au!MayBegin, Au!Fault, Au!bounds
<1>2. CASE Au!PasswordStep(h)
  BY <1>2, ZenonT(60)
  DEF Au!PasswordStep, Au!ChangeLoad, Au!ResetGet, Au!CheckPasswordHistory, Au!SavePassword,
      Au!RevokeAllMembers, Au!RevokeAllPurge, Au!RevokeAllTokens, Au!DeleteLink,
      Au!Begin, Au!MayBegin, Au!bounds
<1>3. CASE Au!RefreshStep(h) \/ Au!Answer(h) \/ Au!IgnoredError(h) \/ Au!Abort(h)
  BY <1>3
  DEF Au!RefreshStep, Au!RefreshLoad, Au!RotateToken, Au!Answer, Au!IgnoredError, Au!Abort,
      Au!Begin, Au!MayBegin, Au!Fault, Au!bounds
<1> QED
  BY <1>1, <1>2, <1>3 DEF ClientAct

(* The counts and columns of the account keep their types. *)
LEMMA ColumnsStep ==
    ASSUME AccountTypes, NEW h \in Requests, ClientAct(h)
    PROVE  /\ requests' \in Nat /\ faults' \in Nat /\ attempts' \in Nat /\ lockedUntil' \in Nat
           /\ password' \in Passwords /\ history' \in Seq(Passwords)
           /\ issued' \in Nat /\ pending' \subseteq 1..issued' /\ links' \subseteq Links
           /\ wrong' \in Nat /\ lastWrong' \in Nat /\ uses' \in [Links -> Nat]
<1>1. /\ requests \in Nat /\ faults \in Nat /\ attempts \in Nat /\ lockedUntil \in Nat /\ now \in Nat
      /\ password \in Passwords /\ history \in Seq(Passwords)
      /\ issued \in Nat /\ pending \subseteq 1..issued /\ links \subseteq Links
      /\ wrong \in Nat /\ lastWrong \in Nat /\ uses \in [Links -> Nat]
      /\ job[h] \in ClientCopy /\ Placed(h)
  BY DEF AccountTypes, Au!TypeOK
<1>2. requests' \in Nat /\ faults' \in Nat
  BY <1>1, CountsGrow
<1>3. attempts' \in Nat /\ lockedUntil' \in Nat /\ wrong' \in Nat /\ lastWrong' \in Nat
  <2>1. CASE Au!LoginFail(h)
    <3>1. job[h].attempts \in Nat
      BY <1>1 DEF ClientCopy
    <3>2. Au!LockoutDuration(job[h].attempts + 1) \in Nat
      BY DEF Au!LockoutDuration
    <3>3. lastWrong' \in {lastWrong, now} /\ wrong' \in {0, 1, wrong + 1, wrong}
      BY <2>1 DEF Au!LoginFail
    <3>4. attempts' \in Nat /\ lockedUntil' \in Nat
      BY <1>1, <2>1, <3>1, <3>2 DEF Au!LoginFail, Au!account
    <3> QED
      BY <1>1, <3>3, <3>4
  <2>2. CASE Au!LoginMatch(h)
    BY <1>1, <2>2 DEF Au!LoginMatch, Au!account
  <2> QED
    BY <1>1, <2>1, <2>2, Footprints
<1>4. password' \in Passwords /\ history' \in Seq(Passwords) /\ uses' \in [Links -> Nat]
  <2>1. CASE Au!SavePassword(h)
    <3>1. /\ job[h].new \in Passwords /\ (job[h].kind = "reset" => job[h].of \in Links)
      BY <1>1, <2>1 DEF Au!SavePassword, Placed
    <3> QED
      BY <1>1, <2>1, <3>1 DEF Au!SavePassword
  <2>2. CASE UNCHANGED <<password, history, uses>>
    BY <1>1, <2>2
  <2> QED
    <3>1. UNCHANGED <<password, history, uses>> \/ Au!SavePassword(h)
      BY ONLY ClientAct(h), h \in Requests, Footprints
    <3> QED
      BY <2>1, <2>2, <3>1
<1>5. issued' \in Nat /\ pending' \subseteq 1..issued'
  <2>1. CASE Au!CreatePending2FASession(h)
    <3>1. issued' = issued + 1 /\ pending' = pending \cup {issued'}
      BY <2>1 DEF Au!CreatePending2FASession
    <3>2. 1..issued \subseteq 1..issued' /\ issued' \in 1..issued'
      BY <1>1, <3>1
    <3> QED
      BY <1>1, <3>1, <3>2
  <2>2. ASSUME NEW p \in pending, NEW ok \in BOOLEAN, Au!Verify2FA(h, p, ok)
        PROVE  issued' \in Nat /\ pending' \subseteq 1..issued'
    BY <1>1, <2>2 DEF Au!Verify2FA
  <2> QED
    BY <1>1, <2>1, <2>2, Footprints
<1>6. links' \subseteq Links
  BY <1>1, Footprints DEF Au!DeleteLink
<1> QED
  BY <1>2, <1>3, <1>4, <1>5, <1>6
(* Where a request stands after it has revoked, or failed to. *)
LEMMA ProceedsTo ==
    ASSUME AccountTypes, NEW h \in Requests, pc[h] \in {"members", "purge", "tokens"},
           NEW done \in {"purge", "tokens"}, Au!Proceed(h, done)
    PROVE  /\ job[h].kind \in {"change", "reset", "reuse"}
           /\ done = "purge" => pc'[h] = IF job[h].kind = "reuse" THEN "done" ELSE "tokens"
           /\ done = "tokens" => pc'[h] = IF job[h].kind = "reuse" THEN "members"
                                          ELSE IF job[h].kind = "reset" THEN "unlink" ELSE "done"
<1>1. job[h].kind \in {"change", "reset", "reuse"}
  BY DEF AccountTypes, Placed
<1>2. pc'[h] = Au!After[done][job[h].kind]
  BY DEF AccountTypes, Au!Proceed, Au!Goto
<1> QED
  BY <1>1, <1>2 DEF Au!After

(* A step that only moves on after a revocation. *)
MovesOn(h) ==
    /\ pc[h] \in {"members", "purge", "tokens", "unlink"}
    /\ job[h].kind \in {"change", "reset", "reuse"} /\ job'[h] = job[h]
    /\ \/ pc[h] = "members" /\ Au!RevokeAllMembers(h) /\ Au!Index = {}
       \/ pc[h] = "purge" /\ Au!RevokeAllPurge(h)
       \/ pc[h] = "tokens" /\ Au!RevokeAllTokens(h)
       \/ Au!IgnoredError(h)
    /\ pc[h] \in {"members", "purge"} => pc'[h] = IF job[h].kind = "reuse" THEN "done" ELSE "tokens"
    /\ pc[h] = "tokens" => pc'[h] = IF job[h].kind = "reuse" THEN "members"
                                    ELSE IF job[h].kind = "reset" THEN "unlink" ELSE "done"
    /\ pc[h] = "unlink" => pc'[h] = "done"

(* Every step of a request, by where the request stands before and after. *)
LEMMA Moves ==
    ASSUME AccountTypes, NEW h \in Requests, ClientAct(h)
    PROVE  \/ Au!Return(h)
           \/ /\ pc[h] = "idle" /\ pc'[h] = "compare"
              /\ \E pw \in Passwords \cup {Wrong}, d \in Devices : Au!LoginLoad(h, pw, d)
           \/ /\ pc[h] = "compare" /\ pc'[h] \in {"pend", "count"} /\ Au!LoginMatch(h)
           \/ /\ pc[h] = "idle" /\ pc'[h] = "count" /\ \E p \in pending : Au!Verify2FA(h, p, TRUE)
           \/ /\ pc[h] = "idle" /\ pc'[h] = "idle" /\ job'[h] = Au!NoJob
              /\ \E p \in pending : Au!Verify2FA(h, p, FALSE)
           \/ /\ pc[h] = "count" /\ pc'[h] = "insert" /\ job'[h] = job[h] /\ Au!CountUserSessions(h)
           \/ /\ pc[h] = "idle" /\ pc'[h] = "insert" /\ Au!GoogleLogin(h)
           \/ /\ pc[h] = "insert" /\ pc'[h] = "session" /\ Au!InsertRefreshToken(h)
           \/ /\ pc[h] = "idle" /\ pc'[h] = "history"
              /\ \/ \E old \in Passwords, new \in Passwords : Au!ChangeLoad(h, old, new)
                 \/ \E l \in links, new \in Passwords : Au!ResetGet(h, l, new)
           \/ /\ pc[h] = "history" /\ pc'[h] = "save" /\ job'[h] = job[h] /\ Au!CheckPasswordHistory(h)
           \/ /\ pc[h] = "save" /\ pc'[h] = "members" /\ job'[h] = job[h] /\ Au!SavePassword(h)
           \/ /\ pc[h] = "members" /\ pc'[h] = "purge" /\ Au!RevokeAllMembers(h)
              /\ job' = [job EXCEPT ![h].members = Au!Index]
           \/ MovesOn(h)
           \/ /\ pc[h] = "unlink" /\ pc'[h] = "done" /\ job'[h] = job[h] /\ Au!DeleteLink(h)
           \/ /\ pc[h] = "idle" /\ \E t \in 1..Len(tokens) :
                   /\ Au!RefreshLoad(h, t) /\ pc'[h] = IF tokens[t].revoked THEN "tokens" ELSE "rotate"
                   /\ job'[h].kind = IF tokens[t].revoked THEN "reuse" ELSE "refresh"
                   /\ job'[h].token = t /\ job'[h].members = {}
           \/ /\ pc[h] = "rotate" /\ pc'[h] = "done" /\ job'[h] = job[h] /\ Au!RotateToken(h)
<1>0. h \in DOMAIN pc /\ h \in DOMAIN job
  BY DEF AccountTypes
<1>1. ASSUME NEW step, NEW j, Au!Begin(h, step, j) PROVE pc[h] = "idle" /\ pc'[h] = step /\ job'[h] = j
  BY <1>0, <1>1 DEF Au!Begin, Au!MayBegin, Au!Goto
<1>2. ASSUME NEW step, Au!Goto(h, step) PROVE pc'[h] = step
  BY <1>0, <1>2 DEF Au!Goto
<1>3. CASE Au!LoginStep(h)
  <2>1. ASSUME NEW pw \in Passwords \cup {Wrong}, NEW d \in Devices, Au!LoginLoad(h, pw, d)
        PROVE  pc[h] = "idle" /\ pc'[h] = "compare"
    BY <2>1, <1>1 DEF Au!LoginLoad
  <2>2. ASSUME NEW p \in pending, NEW ok \in BOOLEAN, Au!Verify2FA(h, p, ok)
        PROVE  \/ pc[h] = "idle" /\ pc'[h] = "count" /\ Au!Verify2FA(h, p, TRUE)
               \/ pc[h] = "idle" /\ pc'[h] = "idle" /\ job'[h] = Au!NoJob /\ Au!Verify2FA(h, p, FALSE)
    <3>1. CASE ok = TRUE
      BY <2>2, <3>1, <1>1 DEF Au!Verify2FA
    <3>2. CASE ok = FALSE
      BY <2>2, <3>2, <1>1 DEF Au!Verify2FA
    <3> QED
      BY <3>1, <3>2
  <2>3. Au!LoginMatch(h) => pc[h] = "compare" /\ pc'[h] \in {"pend", "count"}
    BY <1>2 DEF Au!LoginMatch
  <2>4. Au!CountUserSessions(h) => Au!Return(h) \/ (pc[h] = "count" /\ pc'[h] = "insert" /\ job'[h] = job[h])
    BY <1>2 DEF Au!CountUserSessions
  <2>5. Au!GoogleLogin(h) => pc[h] = "idle" /\ pc'[h] = "insert"
    BY <1>1 DEF Au!GoogleLogin
  <2>6. Au!InsertRefreshToken(h) => pc[h] = "insert" /\ pc'[h] = "session"
    BY <1>2 DEF Au!InsertRefreshToken
  <2>7. Au!LoginFail(h) \/ Au!CreatePending2FASession(h) \/ Au!CreateSession(h) => Au!Return(h)
    BY DEF Au!LoginFail, Au!CreatePending2FASession, Au!CreateSession
  <2> QED
    BY <1>3, <2>1, <2>2, <2>3, <2>4, <2>5, <2>6, <2>7 DEF Au!LoginStep
<1>4. CASE Au!PasswordStep(h)
  <2>1. ASSUME NEW old \in Passwords, NEW new \in Passwords, Au!ChangeLoad(h, old, new)
        PROVE  pc[h] = "idle" /\ pc'[h] = "history"
    BY <2>1, <1>1 DEF Au!ChangeLoad
  <2>2. ASSUME NEW l \in links, NEW new \in Passwords, Au!ResetGet(h, l, new)
        PROVE  pc[h] = "idle" /\ pc'[h] = "history"
    BY <2>2, <1>1 DEF Au!ResetGet
  <2>3. Au!CheckPasswordHistory(h) => Au!Return(h) \/ (pc[h] = "history" /\ pc'[h] = "save" /\ job'[h] = job[h])
    BY <1>2 DEF Au!CheckPasswordHistory
  <2>4. Au!SavePassword(h) => pc[h] = "save" /\ pc'[h] = "members" /\ job'[h] = job[h]
    BY <1>2 DEF Au!SavePassword
  <2>5. ASSUME Au!RevokeAllMembers(h)
        PROVE  \/ pc[h] = "members" /\ pc'[h] = "purge" /\ job' = [job EXCEPT ![h].members = Au!Index]
               \/ MovesOn(h)
    <3>1. CASE Au!Index = {}
      <4>1. pc[h] = "members" /\ Au!Proceed(h, "purge") /\ job'[h] = job[h]
        BY <2>5, <3>1 DEF Au!RevokeAllMembers
      <4> QED
        BY <2>5, <3>1, <4>1, ProceedsTo DEF MovesOn
    <3>2. CASE Au!Index # {}
      BY <2>5, <3>2, <1>2 DEF Au!RevokeAllMembers
    <3> QED
      BY <3>1, <3>2
  <2>6. ASSUME Au!RevokeAllPurge(h) PROVE MovesOn(h)
    <3>1. pc[h] = "purge" /\ Au!Proceed(h, "purge") /\ job'[h] = job[h]
      BY <2>6 DEF Au!RevokeAllPurge
    <3> QED
      BY <2>6, <3>1, ProceedsTo DEF MovesOn
  <2>7. ASSUME Au!RevokeAllTokens(h) PROVE MovesOn(h)
    <3>1. pc[h] = "tokens" /\ Au!Proceed(h, "tokens") /\ job'[h] = job[h]
      BY <2>7 DEF Au!RevokeAllTokens
    <3> QED
      BY <2>7, <3>1, ProceedsTo DEF MovesOn
  <2>8. Au!DeleteLink(h) => pc[h] = "unlink" /\ pc'[h] = "done" /\ job'[h] = job[h]
    BY <1>2 DEF Au!DeleteLink
  <2> QED
    BY <1>4, <2>1, <2>2, <2>3, <2>4, <2>5, <2>6, <2>7, <2>8 DEF Au!PasswordStep
<1>5. CASE Au!RefreshStep(h)
  <2>1. ASSUME NEW t \in 1..Len(tokens), Au!RefreshLoad(h, t)
        PROVE  /\ pc[h] = "idle" /\ pc'[h] = IF tokens[t].revoked THEN "tokens" ELSE "rotate"
               /\ job'[h].kind = IF tokens[t].revoked THEN "reuse" ELSE "refresh"
               /\ job'[h].token = t /\ job'[h].members = {}
    <3>1. /\ pc[h] = "idle" /\ pc'[h] = IF tokens[t].revoked THEN "tokens" ELSE "rotate"
          /\ job'[h] = IF tokens[t].revoked THEN [[Au!NoJob EXCEPT !.token = t] EXCEPT !.kind = "reuse"]
                       ELSE [[Au!NoJob EXCEPT !.token = t] EXCEPT !.kind = "refresh"]
      BY <2>1, <1>1 DEF Au!RefreshLoad
    <3> QED
      BY ONLY <3>1 DEF Au!NoJob
  <2>2. Au!RotateToken(h) => pc[h] = "rotate" /\ pc'[h] = "done" /\ job'[h] = job[h]
    BY <1>2 DEF Au!RotateToken
  <2> QED
    BY <1>5, <2>1, <2>2 DEF Au!RefreshStep
<1>6. CASE Au!IgnoredError(h)
  <2>1. pc[h] \in {"members", "purge", "tokens", "unlink"} /\ job'[h] = job[h]
    BY <1>6 DEF Au!IgnoredError
  <2>2. CASE pc[h] = "unlink"
    <3>1. pc'[h] = "done" /\ job[h].kind \in {"change", "reset", "reuse"}
      BY <1>2, <1>6, <2>2 DEF Au!IgnoredError, AccountTypes, Placed
    <3> QED
      BY <1>6, <2>1, <2>2, <3>1 DEF MovesOn
  <2>3. CASE pc[h] = "tokens"
    <3>1. Au!Proceed(h, "tokens")
      BY <1>6, <2>3 DEF Au!IgnoredError
    <3> QED
      BY <1>6, <2>1, <2>3, <3>1, ProceedsTo DEF MovesOn
  <2>4. CASE pc[h] \in {"members", "purge"}
    <3>1. Au!Proceed(h, "purge")
      BY <1>6, <2>4 DEF Au!IgnoredError
    <3> QED
      BY <1>6, <2>1, <2>4, <3>1, ProceedsTo DEF MovesOn
  <2> QED
    BY <2>1, <2>2, <2>3, <2>4
<1>7. CASE Au!Answer(h) \/ Au!Abort(h)
  BY <1>7 DEF Au!Answer, Au!Abort
<1> QED
  BY <1>3, <1>4, <1>5, <1>6, <1>7 DEF ClientAct

(* What the copies name exists. *)
LEMMA NamedExists ==
    ASSUME AccountTypes, NEW h \in Requests, ClientAct(h)
    PROVE  /\ pc'[h] = "session" => job'[h].sid \in 1..Len(sessions')
           /\ pc'[h] = "rotate" => job'[h].token \in 1..Len(tokens')
           /\ job'[h].members \subseteq 1..Len(sessions')
<1>1. /\ job[h] \in ClientCopy /\ job[h].members \subseteq 1..Len(sessions) /\ h \in DOMAIN job
      /\ Len(sessions) <= Len(sessions') /\ Len(sessions) \in Nat /\ Len(sessions') \in Nat
      /\ Len(tokens) <= Len(tokens') /\ Len(tokens) \in Nat /\ Len(tokens') \in Nat
      /\ Au!Index \subseteq 1..Len(sessions) /\ sessions \in Seq(SessionRow)
  BY RowTypes, SessionsKept, TokensKept DEF AccountTypes, Au!TypeOK
<1>2. 1..Len(sessions) \subseteq 1..Len(sessions') /\ 1..Len(tokens) \subseteq 1..Len(tokens')
  BY <1>1
<1>3. pc'[h] = "session" => job'[h].sid \in 1..Len(sessions')
  <2>1. pc'[h] = "session" => Au!InsertRefreshToken(h)
    BY Moves, ReturnPlaced DEF MovesOn
  <2>2. ASSUME Au!InsertRefreshToken(h) PROVE job'[h].sid \in 1..Len(sessions')
    <3>1. Len(sessions') = Len(sessions) + 1
      BY <1>1, <2>2 DEF Au!InsertRefreshToken
    <3>2. job'[h] = [job[h] EXCEPT !.sid = Len(sessions')]
      BY <1>1, <2>2 DEF Au!InsertRefreshToken
    <3>3. job'[h].sid = Len(sessions')
      BY <1>1, <3>2 DEF ClientCopy
    <3> QED
      BY <1>1, <3>1, <3>3
  <2> QED
    BY <2>1, <2>2
<1>4. pc'[h] = "rotate" => job'[h].token \in 1..Len(tokens')
  BY <1>2, Moves, ReturnPlaced DEF MovesOn
<1>5. job'[h].members \subseteq 1..Len(sessions')
  <2>1. CASE job'[h] = Au!NoJob
    BY <2>1, NoJobTyped
  <2>2. CASE job' = [job EXCEPT ![h].members = Au!Index]
    <3>1. job'[h].members = Au!Index
      BY <1>1, <2>2 DEF ClientCopy
    <3> QED
      BY <1>1, <1>2, <3>1
  <2>3. CASE job'[h].members \in {{}, job[h].members}
    BY <1>1, <1>2, <2>3
  <2>4. job'[h].members \in {{}, job[h].members} \/ job' = [job EXCEPT ![h].members = Au!Index]
    <3>1. \A j, step : Au!Begin(h, step, j) => job'[h] = j
      BY <1>1 DEF Au!Begin
    <3>2. ASSUME NEW pw, NEW d, Au!LoginLoad(h, pw, d) PROVE job'[h].members = {}
      BY <3>1, <3>2 DEF Au!LoginLoad, Au!NoJob
    <3>3. ASSUME NEW p, NEW ok \in BOOLEAN, Au!Verify2FA(h, p, ok) PROVE job'[h].members = {}
      <4>1. CASE ok
        <5>1. job'[h] = [Au!NoJob EXCEPT !.kind = "login", !.via = "pending", !.of = p]
          BY <3>1, <3>3, <4>1 DEF Au!Verify2FA
        <5> QED
          BY ONLY <5>1 DEF Au!NoJob
      <4>2. CASE ~ok
        <5>1. job'[h] = Au!NoJob
          BY <3>1, <3>3, <4>2 DEF Au!Verify2FA
        <5> QED
          BY <5>1, NoJobTyped
      <4> QED
        BY <4>1, <4>2
    <3>4. Au!GoogleLogin(h) => job'[h].members = {}
      BY <3>1 DEF Au!GoogleLogin, Au!NoJob
    <3>5. ASSUME NEW old, NEW new, Au!ChangeLoad(h, old, new) PROVE job'[h].members = {}
      BY <3>1, <3>5 DEF Au!ChangeLoad, Au!NoJob
    <3>6. ASSUME NEW l, NEW new, Au!ResetGet(h, l, new) PROVE job'[h].members = {}
      BY <3>1, <3>6 DEF Au!ResetGet, Au!NoJob
    <3>7. Au!LoginMatch(h) => job'[h].members = job[h].members
      BY <1>1 DEF Au!LoginMatch, ClientCopy
    <3>8. Au!InsertRefreshToken(h) => job'[h].members = job[h].members
      BY <1>1 DEF Au!InsertRefreshToken, ClientCopy
    <3>9. Au!Return(h) => job'[h].members = {}
      BY ReturnPlaced, NoJobTyped
    <3> QED
      BY <3>2, <3>3, <3>4, <3>5, <3>6, <3>7, <3>8, <3>9, Moves, NoJobTyped DEF MovesOn
  <2> QED
    BY <2>2, <2>3, <2>4
<1> QED
  BY <1>3, <1>4, <1>5

(* Steps that no request takes. *)
OutsideAct ==
    \/ \E s \in 1..Len(sessions) : Au!RevokeSession(s)
    \/ \E p \in pending : Au!Pending2FAExpires(p)
    \/ \E l \in Links : Au!ForgotPassword(l) \/ Au!LinkExpires(l)
    \/ Au!Tick

(* A step is one of a request, one from outside, or none. *)
LEMMA WhoSteps ==
    ASSUME [Au!Next]_(Au!auth)
    PROVE  (\E h \in Requests : ClientAct(h)) \/ OutsideAct \/ UNCHANGED Au!auth
BY DEF Au!Next, ClientAct, OutsideAct, Au!Refused

(* What steps from outside leave alone. *)
LEMMA OutsideLeaves ==
    ASSUME OutsideAct
    PROVE  /\ UNCHANGED <<pc, job, overlap, requests, faults, tokens, attempts, lockedUntil, wrong, lastWrong>>
           /\ UNCHANGED <<password, history, uses, barred, issued>>
           /\ UNCHANGED <<sessions, index, indexUntil>> \/ \E s \in 1..Len(sessions) : Au!RevokeSession(s)
           /\ UNCHANGED now \/ (Au!Tick /\ now' = now + 1 /\ UNCHANGED <<sessions, index, indexUntil>>)
           /\ UNCHANGED pending \/ \E p \in pending : pending' = pending \ {p}
           /\ \/ UNCHANGED links
              \/ \E l \in Links : Au!ForgotPassword(l) \/ Au!LinkExpires(l)
BY DEF OutsideAct, Au!RevokeSession, Au!Pending2FAExpires, Au!ForgotPassword, Au!LinkExpires, Au!Tick,
       Au!account, Au!secret, Au!redisSessions, Au!redisKeys, Au!ghosts, Au!bounds

(* The types hold at the start: nothing yet, or one earlier login. *)
LEMMA AccountTypesInit == Au!Init => AccountTypes
<1> SUFFICES ASSUME Au!Init PROVE AccountTypes
  OBVIOUS
<1>1. /\ now = 1 /\ requests = 0 /\ faults = 0 /\ attempts \in StartAttempts /\ StartAttempts \subseteq Nat
      /\ Overlaps \subseteq BOOLEAN /\ overlap \in Overlaps
      /\ lockedUntil = 0 /\ password \in Passwords /\ history = <<password>> /\ pending = {} /\ issued = 0
      /\ links = {} /\ wrong = attempts /\ lastWrong = 0 /\ uses = [l \in Links |-> 0]
      /\ pc = [h \in Requests |-> "idle"] /\ job = [h \in Requests |-> Au!NoJob]
  BY AccessAssumption DEF Au!Init, Au!AuthAssumption
<1>2. /\ sessions \in Seq(SessionRow) /\ index \subseteq DOMAIN sessions /\ indexUntil \in Nat
      /\ tokens \in Seq([sid : DOMAIN sessions, device : Devices, until : Nat, revoked : BOOLEAN])
  <2>1. CASE sessions = <<>> /\ index = {} /\ indexUntil = 0 /\ tokens = <<>>
    BY <2>1
  <2>2. ASSUME NEW d \in Devices, Au!LoggedIn(Au!DetermineTokenTTL(Role, d), d)
        PROVE  /\ sessions \in Seq(SessionRow) /\ index \subseteq DOMAIN sessions /\ indexUntil \in Nat
               /\ tokens \in Seq([sid : DOMAIN sessions, device : Devices, until : Nat, revoked : BOOLEAN])
    <3>1. Au!DetermineTokenTTL(Role, d) \in Au!Lifetimes
      BY LifetimeConfigured
    <3>2. PICK a \in Nat, r \in Nat :
            /\ sessions = <<[until |-> now + a, ttl |-> a, via |-> "password", of |-> 0]>>
            /\ index = {1} /\ indexUntil = now + a
            /\ tokens = <<[sid |-> 1, device |-> d, until |-> now + r, revoked |-> FALSE]>>
      BY <2>2, <3>1 DEF Au!LoggedIn, Au!Lifetimes
    <3>3. [until |-> now + a, ttl |-> a, via |-> "password", of |-> 0] \in SessionRow
      BY <1>1 DEF SessionRow
    <3>4. sessions \in Seq(SessionRow) /\ DOMAIN sessions = {1} /\ index \subseteq DOMAIN sessions /\ indexUntil \in Nat
      BY ONLY <1>1, <3>2, <3>3, a \in Nat
    <3>5. [sid |-> 1, device |-> d, until |-> now + r, revoked |-> FALSE]
            \in [sid : DOMAIN sessions, device : Devices, until : Nat, revoked : BOOLEAN]
      BY <1>1, <3>4
    <3> QED
      BY <3>2, <3>4, <3>5
  <2> QED
    BY <2>1, <2>2 DEF Au!Init
<1>3. ASSUME NEW h \in Requests
      PROVE  pc[h] = "idle" /\ job[h] = Au!NoJob /\ Placed(h)
  BY <1>1, NoJobTyped DEF Placed
<1>4. pc \in [Requests -> ClientSteps] /\ job \in [Requests -> ClientCopy]
  BY <1>1, NoJobTyped DEF ClientSteps
<1>5. Au!TypeOK
  <2>1. history \in Seq(Passwords) /\ uses \in [Links -> Nat] /\ overlap \in BOOLEAN /\ attempts \in Nat /\ pending \subseteq 1..issued
    BY <1>1
  <2>2. sessions \in Seq([until : Nat, ttl : Nat, via : {"password", "pending", "google"}, of : Nat])
    BY <1>2 DEF SessionRow
  <2>3. \A h \in Requests :
          /\ pc[h] = "session" => job[h].sid \in DOMAIN sessions
          /\ pc[h] = "rotate" => job[h].token \in DOMAIN tokens
          /\ pc[h] = "save" => job[h].new \in Passwords
          /\ job[h].members \subseteq DOMAIN sessions
    BY <1>3, NoJobTyped
  <2> QED
    BY <1>1, <1>2, <2>1, <2>2, <2>3 DEF Au!TypeOK
<1> QED
  BY <1>3, <1>4, <1>5 DEF AccountTypes

(* They hold after every step. *)
LEMMA AccountTypesStep == AccountTypes /\ [Au!Next]_(Au!auth) => AccountTypes'
<1> SUFFICES ASSUME AccountTypes, [Au!Next]_(Au!auth) PROVE AccountTypes'
  OBVIOUS
<1>0. /\ sessions \in Seq(SessionRow) /\ Len(sessions) \in Nat /\ DOMAIN sessions = 1..Len(sessions)
      /\ tokens \in Seq(TokenRow(Len(sessions))) /\ Len(tokens) \in Nat /\ DOMAIN tokens = 1..Len(tokens)
      /\ now \in Nat \ {0} /\ pc \in [Requests -> ClientSteps] /\ job \in [Requests -> ClientCopy]
      /\ overlap \in BOOLEAN
  BY RowTypes DEF AccountTypes, Au!TypeOK
<1>1. ASSUME NEW h \in Requests, ClientAct(h) PROVE AccountTypes'
  <2>1. /\ pc' = [pc EXCEPT ![h] = pc'[h]] /\ job' = [job EXCEPT ![h] = job'[h]] /\ UNCHANGED <<overlap, now>>
        /\ pc'[h] \in ClientSteps /\ job'[h] \in ClientCopy /\ Placed(h)'
    BY <1>1, ClientMoves, PlacedStep
  <2>2. pc' \in [Requests -> ClientSteps] /\ job' \in [Requests -> ClientCopy]
    BY <1>0, <2>1
  <2>3. \A g \in Requests : g # h => pc'[g] = pc[g] /\ job'[g] = job[g]
    BY <1>0, <2>1
  <2>4. \A g \in Requests : Placed(g)'
    BY <2>1, <2>3 DEF AccountTypes, Placed
  <2>5. /\ sessions' \in Seq(SessionRow) /\ Len(sessions') \in Nat /\ DOMAIN sessions' = 1..Len(sessions')
        /\ tokens' \in Seq(TokenRow(Len(sessions'))) /\ Len(tokens') \in Nat /\ DOMAIN tokens' = 1..Len(tokens')
        /\ Len(sessions) <= Len(sessions') /\ Len(tokens) <= Len(tokens')
        /\ index' \subseteq 1..Len(sessions') /\ indexUntil' \in Nat
    BY <1>1, SessionsKept, TokensKept
  <2>6. 1..Len(sessions) \subseteq 1..Len(sessions') /\ 1..Len(tokens) \subseteq 1..Len(tokens')
    BY <1>0, <2>5
  <2>7. \A g \in Requests :
          /\ pc'[g] = "session" => job'[g].sid \in DOMAIN sessions'
          /\ pc'[g] = "rotate" => job'[g].token \in DOMAIN tokens'
          /\ pc'[g] = "save" => job'[g].new \in Passwords
          /\ job'[g].members \subseteq DOMAIN sessions'
    <3> SUFFICES ASSUME NEW g \in Requests
                 PROVE  /\ pc'[g] = "session" => job'[g].sid \in DOMAIN sessions'
                        /\ pc'[g] = "rotate" => job'[g].token \in DOMAIN tokens'
                        /\ pc'[g] = "save" => job'[g].new \in Passwords
                        /\ job'[g].members \subseteq DOMAIN sessions'
      OBVIOUS
    <3>1. CASE g = h
      BY <1>1, <2>1, <2>5, <3>1, NamedExists DEF Placed
    <3>2. CASE g # h
      BY <1>0, <2>3, <2>5, <2>6, <3>2 DEF AccountTypes, Au!TypeOK
    <3> QED
      BY <3>1, <3>2
  <2>8. Au!TypeOK'
    <3>1. tokens' \in Seq([sid : DOMAIN sessions', device : Devices, until : Nat, revoked : BOOLEAN])
      BY <2>5 DEF TokenRow
    <3>2. /\ requests' \in Nat /\ faults' \in Nat /\ attempts' \in Nat /\ lockedUntil' \in Nat
          /\ password' \in Passwords /\ history' \in Seq(Passwords)
          /\ issued' \in Nat /\ pending' \subseteq 1..issued' /\ links' \subseteq Links
          /\ wrong' \in Nat /\ lastWrong' \in Nat /\ uses' \in [Links -> Nat]
      BY <1>1, ColumnsStep
    <3>3. DOMAIN pc' = Requests /\ DOMAIN job' = Requests
      BY <2>2
    <3>4. overlap' \in BOOLEAN /\ now' \in Nat \ {0}
      BY <1>0, <2>1
    <3>5. sessions' \in Seq([until : Nat, ttl : Nat, via : {"password", "pending", "google"}, of : Nat])
          /\ index' \subseteq DOMAIN sessions' /\ indexUntil' \in Nat
      BY <2>5 DEF SessionRow
    <3> QED
      BY ONLY <2>7, <3>1, <3>2, <3>3, <3>4, <3>5 DEF Au!TypeOK
  <2> QED
    BY <2>2, <2>4, <2>8 DEF AccountTypes
<1>2. ASSUME OutsideAct PROVE AccountTypes'
  <2>1. /\ UNCHANGED <<pc, job, overlap, requests, faults, tokens, attempts, lockedUntil, wrong, lastWrong>>
        /\ UNCHANGED <<password, history, uses, barred, issued>>
    BY <1>2, OutsideLeaves
  <2>2. /\ sessions' \in Seq(SessionRow) /\ DOMAIN sessions' = 1..Len(sessions')
        /\ DOMAIN sessions' = DOMAIN sessions /\ index' \subseteq DOMAIN sessions' /\ indexUntil' \in Nat
    <3>1. CASE UNCHANGED <<sessions, index, indexUntil>>
      BY <1>0, <3>1 DEF AccountTypes, Au!TypeOK
    <3>2. ASSUME NEW s \in 1..Len(sessions), Au!RevokeSession(s)
          PROVE  /\ sessions' \in Seq(SessionRow) /\ DOMAIN sessions' = 1..Len(sessions')
                 /\ DOMAIN sessions' = DOMAIN sessions /\ index' \subseteq DOMAIN sessions' /\ indexUntil' \in Nat
      <4>1. DOMAIN sessions' = DOMAIN sessions
        BY <3>2 DEF Au!RevokeSession
      <4>2. /\ sessions' \in Seq(SessionRow) /\ Len(sessions') \in Nat
            /\ index' \subseteq 1..Len(sessions') /\ indexUntil' \in Nat
        BY <3>2, SessionsKept
      <4> QED
        BY <4>1, <4>2
    <3> QED
      BY <1>2, <3>1, <3>2, OutsideLeaves
  <2>3. now' \in Nat \ {0}
    BY <1>0, <1>2, OutsideLeaves
  <2>4. pending' \subseteq pending
    BY <1>2, OutsideLeaves
  <2>5. links' \subseteq Links
    BY <1>2, OutsideLeaves DEF Au!ForgotPassword, Au!LinkExpires, AccountTypes, Au!TypeOK
  <2>6. pc' \in [Requests -> ClientSteps] /\ job' \in [Requests -> ClientCopy] /\ \A h \in Requests : Placed(h)'
    BY <2>1 DEF AccountTypes, Placed
  <2>7. Au!TypeOK'
    <3>1. sessions' \in Seq([until : Nat, ttl : Nat, via : {"password", "pending", "google"}, of : Nat])
      BY <2>2 DEF SessionRow
    <3>2. tokens' \in Seq([sid : DOMAIN sessions', device : Devices, until : Nat, revoked : BOOLEAN])
      BY <1>0, <2>1, <2>2 DEF TokenRow
    <3> QED
      BY <2>1, <2>2, <2>3, <2>4, <2>5, <3>1, <3>2 DEF AccountTypes, Au!TypeOK
  <2> QED
    BY <2>6, <2>7 DEF AccountTypes
<1>3. CASE UNCHANGED Au!auth
  BY <1>3 DEF AccountTypes, Au!TypeOK, Placed, Au!auth, Au!account, Au!secret, Au!redisSessions, Au!redisKeys,
              Au!ghosts, Au!bounds
<1> QED
  BY <1>1, <1>2, <1>3, WhoSteps

(* The steps of one request leave the others where they are. *)
LEMMA OthersStay ==
    ASSUME AccountTypes, NEW h \in Requests, ClientAct(h)
    PROVE  /\ \A g \in Requests : g # h => pc'[g] = pc[g] /\ job'[g] = job[g]
           /\ UNCHANGED <<overlap, now>>
           /\ ~overlap /\ pc[h] = "idle" => \A g \in Requests : pc[g] = "idle"
<1>1. /\ pc' = [pc EXCEPT ![h] = pc'[h]] /\ job' = [job EXCEPT ![h] = job'[h]] /\ UNCHANGED <<overlap, now>>
      /\ pc[h] = "idle" /\ ~overlap => \A g \in Requests : pc[g] = "idle"
  BY ClientMoves
<1>2. DOMAIN pc = Requests /\ DOMAIN job = Requests
  BY DEF AccountTypes
<1> QED
  BY <1>1, <1>2

(* The row of a refresh token's session: not open yet. *)
LEMMA InsertRow ==
    ASSUME AccountTypes, NEW h \in Requests, Au!InsertRefreshToken(h)
    PROVE  /\ pc[h] = "insert" /\ pc'[h] = "session" /\ Len(sessions') = Len(sessions) + 1
           /\ \A s \in 1..Len(sessions) : sessions'[s] = sessions[s]
           /\ LET r == sessions'[Len(sessions')] IN
                r.until = 0 /\ r.ttl = 0 /\ r.via = job[h].via /\ r.of = job[h].of
           /\ job'[h].sid = Len(sessions') /\ job'[h].via = job[h].via /\ job'[h].of = job[h].of
           /\ Au!Index' = Au!Index /\ UNCHANGED <<index, indexUntil, now, barred, pending, issued>>
<1>1. sessions \in Seq(SessionRow) /\ Len(sessions) \in Nat /\ job[h] \in ClientCopy
      /\ h \in DOMAIN pc /\ h \in DOMAIN job
  BY RowTypes DEF AccountTypes
<1>2. /\ sessions' = Append(sessions, [until |-> 0, ttl |-> 0, via |-> job[h].via, of |-> job[h].of])
      /\ pc[h] = "insert" /\ pc'[h] = "session" /\ job'[h] = [job[h] EXCEPT !.sid = Len(sessions')]
      /\ UNCHANGED <<index, indexUntil, now, barred, pending, issued>>
  BY <1>1 DEF Au!InsertRefreshToken, Au!Goto, Au!bounds, Au!ghosts, Au!redisKeys
<1>3. job'[h].sid = Len(sessions') /\ job'[h].via = job[h].via /\ job'[h].of = job[h].of
  BY <1>1, <1>2 DEF ClientCopy
<1>4. Au!Index' = Au!Index
  BY <1>2 DEF Au!Index
<1> QED
  BY <1>1, <1>2, <1>3, <1>4

(* The session is opened and indexed. *)
LEMMA CreateRow ==
    ASSUME AccountTypes, NEW h \in Requests, Au!CreateSession(h)
    PROVE  \E k \in 1..Len(sessions), a \in Nat \ {0} :
             /\ pc[h] = "session" /\ pc'[h] = "idle" /\ k = job[h].sid
             /\ Len(sessions') = Len(sessions) /\ \A s \in 1..Len(sessions) : s # k => sessions'[s] = sessions[s]
             /\ LET r == sessions'[k] IN
                  r.until = now + a /\ r.ttl = a /\ r.via = sessions[k].via /\ r.of = sessions[k].of
             /\ index' = Au!Index \cup {k} /\ indexUntil' = now + a /\ Au!Index' = Au!Index \cup {k}
             /\ UNCHANGED <<now, barred, pending, issued, tokens>>
<1>1. sessions \in Seq(SessionRow) /\ Len(sessions) \in Nat /\ now \in Nat \ {0} /\ DOMAIN sessions = 1..Len(sessions)
      /\ h \in DOMAIN pc
  BY RowTypes DEF AccountTypes
<1>2. Au!Ttl(h).access \in Nat \ {0} /\ now + Au!Ttl(h).access \in Nat /\ now + Au!Ttl(h).access > now
  BY <1>1, LifetimeOfLogin
<1>3. pc[h] = "session" /\ job[h].sid \in 1..Len(sessions) /\ Au!Return(h)
  BY <1>1 DEF Au!CreateSession, AccountTypes, Au!TypeOK
<1>4. PICK a, k, r :
        /\ a \in Nat \ {0} /\ k \in 1..Len(sessions) /\ k = job[h].sid /\ now + a > now /\ now + a \in Nat
        /\ r = [sessions[k] EXCEPT !.until = now + a, !.ttl = a] /\ sessions' = [sessions EXCEPT ![k] = r]
        /\ index' = Au!Index \cup {k} /\ indexUntil' = now + a
        /\ UNCHANGED <<now, barred, pending, issued, tokens>>
  BY <1>2, <1>3 DEF Au!CreateSession, Au!bounds, Au!ghosts, Au!redisKeys
<1>5. r.until = now + a /\ r.ttl = a /\ r.via = sessions[k].via /\ r.of = sessions[k].of
  <2>1. sessions[k] \in SessionRow
    BY <1>1, <1>4
  <2> QED
    BY ONLY <1>4, <2>1 DEF SessionRow
<1>6. Au!Index' = Au!Index \cup {k}
  BY <1>4 DEF Au!Index
<1>7. /\ Len(sessions') = Len(sessions) /\ sessions'[k] = r
      /\ \A s \in 1..Len(sessions) : s # k => sessions'[s] = sessions[s]
  <2>1. sessions' = [sessions EXCEPT ![k] = r] /\ k \in 1..Len(sessions)
    BY <1>4
  <2> QED
    BY ONLY <1>1, <2>1
<1>8. pc'[h] = "idle"
  BY <1>3, ReturnPlaced
<1> QED
  BY <1>3, <1>4, <1>5, <1>6, <1>7, <1>8

(* The sessions of the ids that were read end, the index is gone. *)
LEMMA PurgeRows ==
    ASSUME AccountTypes, NEW h \in Requests, Au!RevokeAllPurge(h)
    PROVE  /\ pc[h] = "purge" /\ job'[h] = job[h] /\ Len(sessions') = Len(sessions)
           /\ \A s \in 1..Len(sessions) :
                /\ sessions'[s].via = sessions[s].via /\ sessions'[s].of = sessions[s].of
                /\ sessions'[s].ttl = sessions[s].ttl
                /\ sessions'[s].until = IF s \in job[h].members THEN 0 ELSE sessions[s].until
           /\ index' = {} /\ indexUntil' = 0 /\ Au!Index' = {} /\ UNCHANGED <<now, barred, tokens, pending, issued>>
<1>1. sessions \in Seq(SessionRow) /\ Len(sessions) \in Nat /\ DOMAIN sessions = 1..Len(sessions)
  BY RowTypes DEF AccountTypes
<1>2. /\ sessions' = [s \in 1..Len(sessions) |->
                        IF s \in job[h].members THEN [sessions[s] EXCEPT !.until = 0] ELSE sessions[s]]
      /\ pc[h] = "purge" /\ job' = job /\ index' = {} /\ indexUntil' = 0
      /\ UNCHANGED <<now, barred, tokens, pending, issued>>
  BY <1>1 DEF Au!RevokeAllPurge, Au!bounds, Au!ghosts, Au!redisKeys
<1>3. ASSUME NEW s \in 1..Len(sessions)
      PROVE  /\ sessions'[s].via = sessions[s].via /\ sessions'[s].of = sessions[s].of
             /\ sessions'[s].ttl = sessions[s].ttl
             /\ sessions'[s].until = IF s \in job[h].members THEN 0 ELSE sessions[s].until
  <2>1. CASE s \in job[h].members
    <3>1. PICK r : r = [sessions[s] EXCEPT !.until = 0] /\ sessions'[s] = r
      BY <1>2, <2>1
    <3>2. sessions[s] \in SessionRow
      BY <1>1
    <3>3. r.until = 0 /\ r.ttl = sessions[s].ttl /\ r.via = sessions[s].via /\ r.of = sessions[s].of
      BY ONLY <3>1, <3>2 DEF SessionRow
    <3> QED
      BY <2>1, <3>1, <3>3
  <2>2. CASE s \notin job[h].members
    BY <1>2, <2>2
  <2> QED
    BY <2>1, <2>2
<1>4. Au!Index' = {}
  BY <1>2 DEF Au!Index
<1>5. Len(sessions') = Len(sessions)
  BY <1>1, <1>2
<1> QED
  BY <1>2, <1>3, <1>4, <1>5

(* One session ends. *)
LEMMA RevokeRow ==
    ASSUME AccountTypes, NEW k \in 1..Len(sessions), Au!RevokeSession(k)
    PROVE  /\ Len(sessions') = Len(sessions) /\ \A s \in 1..Len(sessions) : s # k => sessions'[s] = sessions[s]
           /\ sessions'[k].until = 0 /\ sessions'[k].ttl = sessions[k].ttl
           /\ sessions'[k].via = sessions[k].via /\ sessions'[k].of = sessions[k].of
           /\ Au!Index' = Au!Index \ {k} /\ index' = Au!Index \ {k} /\ UNCHANGED <<indexUntil, now>>
<1>1. sessions \in Seq(SessionRow) /\ Len(sessions) \in Nat /\ DOMAIN sessions = 1..Len(sessions)
  BY RowTypes DEF AccountTypes
<1>2. /\ sessions' = [sessions EXCEPT ![k].until = 0] /\ index' = Au!Index \ {k} /\ UNCHANGED <<indexUntil, now>>
  BY DEF Au!RevokeSession, Au!bounds
<1>3. PICK r : r = [sessions[k] EXCEPT !.until = 0] /\ sessions' = [sessions EXCEPT ![k] = r]
  BY <1>2
<1>4. r.until = 0 /\ r.ttl = sessions[k].ttl /\ r.via = sessions[k].via /\ r.of = sessions[k].of
  <2>1. sessions[k] \in SessionRow
    BY <1>1
  <2> QED
    BY ONLY <1>3, <2>1 DEF SessionRow
<1>5. Au!Index' = Au!Index \ {k}
  BY <1>2 DEF Au!Index
<1> QED
  BY <1>1, <1>2, <1>3, <1>4, <1>5

-----------------------------------------------------------------------------
(* The account's invariant, part by part. *)

(* Without overlap one request is under way at most. *)
RequestTurns == ~overlap => \A g, h \in Requests : pc[g] # "idle" /\ pc[h] # "idle" => g = h

(* A session whose refresh token is in place is of one login and not open   *)
(* yet; no session outlives its lifetime. *)
OpeningInv ==
    /\ \A h \in Requests : pc[h] = "session" =>
         LET r == sessions[job[h].sid] IN
         r.until = 0 /\ r.ttl = 0 /\ r.via = job[h].via /\ r.of = job[h].of
    /\ \A g, h \in Requests : pc[g] = "session" /\ pc[h] = "session" /\ job[g].sid = job[h].sid => g = h
    /\ \A s \in 1..Len(sessions) : sessions[s].until <= now + sessions[s].ttl

(* What the cap counts, and the logins that have passed it. *)
Capped == {s \in Au!Index : sessions[s].via # "google"}
Entering == {h \in Requests : pc[h] \in {"insert", "session"} /\ job[h].via # "google"}

(* A login that passes the cap finds less than MaxSessions sessions. *)
OvershootInv == Cardinality(Capped) + Cardinality(Entering) <= MaxSessions - 1 + Cardinality(Requests)

(* Logins on the way from their second factor to their session. *)
Promoting(h) == pc[h] \in {"count", "insert"} /\ job[h].via = "pending"

(* A pending second factor is in Redis, at one login or at one session. *)
PromotionInv ==
    /\ \A h \in Requests : Promoting(h) =>
         /\ job[h].of \in (1..issued) \ pending
         /\ \A s \in 1..Len(sessions) : sessions[s].via = "pending" => sessions[s].of # job[h].of
    /\ \A g, h \in Requests : Promoting(g) /\ Promoting(h) /\ job[g].of = job[h].of => g = h
    /\ \A s \in 1..Len(sessions) : sessions[s].via = "pending" => sessions[s].of \in (1..issued) \ pending
    /\ Au!OneSessionPerPending

(* Without overlap the copy a password is compared for has the count, which *)
(* misses none as long as no UPDATE was lost. *)
FailuresInv ==
    /\ ~overlap => \A h \in Requests : pc[h] = "compare" => job[h].attempts = attempts
    /\ ~overlap /\ faults = 0 => wrong = attempts
    /\ Au!SerialFailuresLock

(* Without overlap the token to be rotated is in use. *)
RotationInv ==
    /\ ~overlap => \A h \in Requests : pc[h] = "rotate" => ~tokens[job[h].token].revoked
    /\ Au!SerialOneTokenPerSession

(* Without overlap the password to be saved is none of the recent ones. *)
HistoryInv ==
    /\ ~overlap => \A h \in Requests : pc[h] = "save" => job[h].new \notin Au!Recent(history)
    /\ Au!SerialNoReuse

(* A request that has used its link and has not deleted it yet. *)
Using(h, l) == job[h].kind = "reset" /\ job[h].of = l /\ pc[h] \in {"members", "purge", "tokens", "unlink"}

(* Without overlap and faults a link that was used is at its request until  *)
(* it is deleted, and a request yet to save has an unused one. *)
LinkInv == ~overlap /\ faults = 0 =>
    /\ \A l \in Links : uses[l] <= 1
    /\ \A l \in links : uses[l] = 0 \/ \E h \in Requests : Using(h, l)
    /\ \A h \in Requests : pc[h] \in {"history", "save"} /\ job[h].kind = "reset" => uses[job[h].of] = 0

(* All sessions have had one lifetime. *)
Uniform ==
    \A s, t \in 1..Len(sessions) : 0 \in {sessions[s].ttl, sessions[t].ttl} \/ sessions[s].ttl = sessions[t].ttl

(* Requests that have yet to revoke the tokens, or to end the sessions. *)
RevokesTokens(h) == pc[h] = "tokens" \/ (pc[h] \in {"members", "purge"} /\ job[h].kind # "reuse")
EndsSessions(h) == pc[h] \in {"members", "purge"} \/ (pc[h] = "tokens" /\ job[h].kind = "reuse")

(* Only what exists is barred, and no session yet to be opened. *)
BarredInv ==
    /\ \A x \in barred : \/ \E s \in 1..Len(sessions) : x = <<"session", s>>
                         \/ \E t \in 1..Len(tokens) : x = <<"token", t>>
    /\ \A h \in Requests : pc[h] = "session" => <<"session", job[h].sid>> \notin barred

(* Without overlap and faults a barred token is revoked, or about to be. *)
TokensOutInv == ~overlap /\ faults = 0 =>
    \A t \in 1..Len(tokens) : <<"token", t>> \in barred =>
        tokens[t].revoked \/ \E h \in Requests : RevokesTokens(h)

(* And a barred session has ended or is about to, as long as all sessions   *)
(* have had one lifetime: then the index lasts as long as any of them, and  *)
(* holds the live ones when a request reads it. *)
SessionsOutInv == ~overlap /\ faults = 0 /\ Uniform =>
    /\ \A s \in Au!LiveSessions : s \in index /\ sessions[s].until <= indexUntil
    /\ \A h \in Requests : pc[h] = "purge" => Au!LiveSessions \subseteq job[h].members
    /\ \A s \in Au!LiveSessions : <<"session", s>> \in barred => \E h \in Requests : EndsSessions(h)

(* A step that moves no request keeps the turns. *)
LEMMA RequestTurnsStep == AccountTypes /\ RequestTurns /\ [Au!Next]_(Au!auth) => RequestTurns'
<1> SUFFICES ASSUME AccountTypes, RequestTurns, [Au!Next]_(Au!auth) PROVE RequestTurns'
  OBVIOUS
<1>1. ASSUME NEW h \in Requests, ClientAct(h) PROVE RequestTurns'
  BY <1>1, OthersStay DEF RequestTurns
<1>2. CASE UNCHANGED <<overlap, pc>>
  BY <1>2 DEF RequestTurns
<1> QED
  BY <1>1, <1>2, WhoSteps, OutsideLeaves DEF Au!auth, Au!bounds

(* Without overlap every other request is idle while one acts. *)
LEMMA ActsAlone ==
    ASSUME AccountTypes, RequestTurns, NEW h \in Requests, ClientAct(h), ~overlap
    PROVE  \A g \in Requests : g # h => pc[g] = "idle" /\ pc'[g] = "idle"
<1>1. (\A g \in Requests : g # h => pc'[g] = pc[g]) /\ (pc[h] = "idle" => \A g \in Requests : pc[g] = "idle")
  BY OthersStay
<1> QED
  BY <1>1 DEF RequestTurns

(* Sessions to be opened stay closed, and apart from each other. *)
LEMMA OpeningStep == AccountTypes /\ OpeningInv /\ [Au!Next]_(Au!auth) => OpeningInv'
<1> SUFFICES ASSUME AccountTypes, OpeningInv, [Au!Next]_(Au!auth) PROVE OpeningInv'
  OBVIOUS
<1> DEFINE Closed(r, j) == r.until = 0 /\ r.ttl = 0 /\ r.via = j.via /\ r.of = j.of
<1>0. /\ sessions \in Seq(SessionRow) /\ Len(sessions) \in Nat /\ now \in Nat
      /\ \A s \in 1..Len(sessions) : sessions[s].until \in Nat /\ sessions[s].ttl \in Nat
      /\ \A h \in Requests : pc[h] = "session" => job[h].sid \in 1..Len(sessions) /\ Closed(sessions[job[h].sid], job[h])
      /\ \A g, h \in Requests : pc[g] = "session" /\ pc[h] = "session" /\ job[g].sid = job[h].sid => g = h
      /\ \A s \in 1..Len(sessions) : sessions[s].until <= now + sessions[s].ttl
  <2>1. /\ sessions \in Seq(SessionRow) /\ Len(sessions) \in Nat /\ DOMAIN sessions = 1..Len(sessions)
        /\ now \in Nat \ {0}
    BY RowTypes DEF AccountTypes
  <2>2. \A s \in 1..Len(sessions) : sessions[s] \in SessionRow
    BY <2>1
  <2>3. \A s \in 1..Len(sessions) : sessions[s].until \in Nat /\ sessions[s].ttl \in Nat
    BY <2>2 DEF SessionRow
  <2> QED
    BY <2>1, <2>3 DEF OpeningInv, AccountTypes, Au!TypeOK
<1>1. ASSUME NEW h \in Requests, ClientAct(h) PROVE OpeningInv'
  <2>1. /\ \A g \in Requests : g # h => pc'[g] = pc[g] /\ job'[g] = job[g]
        /\ UNCHANGED now
    BY <1>1, OthersStay
  <2>2. pc'[h] = "session" => Au!InsertRefreshToken(h)
    BY <1>1, Moves, ReturnPlaced DEF MovesOn
  <2>3. CASE Au!InsertRefreshToken(h)
    <3>1. /\ Len(sessions') = Len(sessions) + 1 /\ \A s \in 1..Len(sessions) : sessions'[s] = sessions[s]
          /\ Closed(sessions'[Len(sessions')], job'[h]) /\ job'[h].sid = Len(sessions')
      BY <2>3, InsertRow
    <3>2. ASSUME NEW s \in 1..Len(sessions') PROVE sessions'[s].until <= now' + sessions'[s].ttl
      <4>1. CASE s \in 1..Len(sessions)
        <5>1. sessions'[s] = sessions[s] /\ sessions[s].until <= now + sessions[s].ttl
          BY <1>0, <3>1, <4>1
        <5> QED
          BY ONLY <2>1, <5>1
      <4>2. CASE s = Len(sessions')
        <5>1. sessions'[s].until = 0 /\ sessions'[s].ttl = 0
          BY <3>1, <4>2 DEF Closed
        <5> QED
          BY ONLY <1>0, <2>1, <5>1
      <4> QED
        BY ONLY <1>0, <3>1, <4>1, <4>2, s \in 1..Len(sessions')
    <3>3. ASSUME NEW g \in Requests, pc'[g] = "session"
          PROVE  Closed(sessions'[job'[g].sid], job'[g]) /\ (g # h => job'[g].sid \in 1..Len(sessions))
      <4>1. CASE g = h
        BY <3>1, <4>1
      <4>2. CASE g # h
        <5>1. pc[g] = "session" /\ job'[g] = job[g]
          BY <2>1, <3>3, <4>2
        <5>2. job[g].sid \in 1..Len(sessions) /\ Closed(sessions[job[g].sid], job[g])
          BY <1>0, <5>1
        <5> QED
          BY <3>1, <5>1, <5>2
      <4> QED
        BY <4>1, <4>2
    <3>4. ASSUME NEW f \in Requests, NEW g \in Requests, f # g,
                 pc'[f] = "session", pc'[g] = "session", job'[f].sid = job'[g].sid
          PROVE  FALSE
      <4>1. CASE f # h /\ g # h
        BY <1>0, <2>1, <3>4, <4>1
      <4>2. CASE f = h
        <5>1. job'[g].sid \in 1..Len(sessions) /\ job'[f].sid = Len(sessions) + 1
          BY <3>1, <3>3, <3>4, <4>2
        <5> QED
          BY <1>0, <3>4, <5>1
      <4>3. CASE g = h
        <5>1. job'[f].sid \in 1..Len(sessions) /\ job'[g].sid = Len(sessions) + 1
          BY <3>1, <3>3, <3>4, <4>3
        <5> QED
          BY <1>0, <3>4, <5>1
      <4> QED
        BY <4>1, <4>2, <4>3
    <3> QED
      BY <3>2, <3>3, <3>4 DEF OpeningInv
  <2>4. CASE Au!CreateSession(h)
    <3>1. PICK k \in 1..Len(sessions), a \in Nat \ {0} :
             /\ pc[h] = "session" /\ pc'[h] = "idle" /\ k = job[h].sid
             /\ Len(sessions') = Len(sessions) /\ \A s \in 1..Len(sessions) : s # k => sessions'[s] = sessions[s]
             /\ sessions'[k].until = now + a /\ sessions'[k].ttl = a
      BY <2>4, CreateRow
    <3>2. ASSUME NEW s \in 1..Len(sessions') PROVE sessions'[s].until <= now' + sessions'[s].ttl
      <4>1. CASE s = k
        BY ONLY <1>0, <2>1, <3>1, <4>1
      <4>2. CASE s # k
        <5>1. s \in 1..Len(sessions) /\ sessions'[s] = sessions[s]
          BY <3>1, <4>2
        <5>2. sessions[s].until <= now + sessions[s].ttl
          BY <1>0, <5>1
        <5> QED
          BY ONLY <2>1, <5>1, <5>2
      <4> QED
        BY <4>1, <4>2
    <3>3. \A g \in Requests : pc'[g] = "session" =>
            /\ g # h /\ pc[g] = "session" /\ job'[g] = job[g] /\ job[g].sid \in 1..Len(sessions) /\ job[g].sid # k
      BY <1>0, <2>1, <3>1
    <3>4. \A g \in Requests : pc'[g] = "session" => Closed(sessions'[job'[g].sid], job'[g])
      BY <1>0, <3>1, <3>3
    <3>5. \A f, g \in Requests : pc'[f] = "session" /\ pc'[g] = "session" /\ job'[f].sid = job'[g].sid => f = g
      BY <1>0, <3>3
    <3> QED
      BY <3>2, <3>4, <3>5 DEF OpeningInv
  <2>5. CASE Au!RevokeAllPurge(h)
    <3>1. /\ pc[h] = "purge" /\ Len(sessions') = Len(sessions)
          /\ \A s \in 1..Len(sessions) :
                /\ sessions'[s].via = sessions[s].via /\ sessions'[s].of = sessions[s].of
                /\ sessions'[s].ttl = sessions[s].ttl
                /\ sessions'[s].until = IF s \in job[h].members THEN 0 ELSE sessions[s].until
      BY <2>5, PurgeRows
    <3>2. ASSUME NEW s \in 1..Len(sessions') PROVE sessions'[s].until <= now' + sessions'[s].ttl
      <4>1. /\ sessions[s].until <= now + sessions[s].ttl /\ sessions[s].ttl \in Nat /\ now \in Nat
            /\ sessions'[s].ttl = sessions[s].ttl /\ sessions'[s].until \in {0, sessions[s].until}
        BY <1>0, <3>1
      <4> QED
        BY ONLY <2>1, <4>1
    <3>3. \A g \in Requests : pc'[g] = "session" => g # h /\ pc[g] = "session" /\ job'[g] = job[g]
      BY <2>1, <2>2, <3>1 DEF Au!InsertRefreshToken
    <3>4. ASSUME NEW g \in Requests, pc'[g] = "session" PROVE Closed(sessions'[job'[g].sid], job'[g])
      <4>1. pc[g] = "session" /\ job'[g] = job[g]
        BY <3>3, <3>4
      <4>2. job[g].sid \in 1..Len(sessions) /\ Closed(sessions[job[g].sid], job[g])
        BY <1>0, <4>1
      <4>3. /\ sessions'[job[g].sid].via = sessions[job[g].sid].via
            /\ sessions'[job[g].sid].of = sessions[job[g].sid].of
            /\ sessions'[job[g].sid].ttl = sessions[job[g].sid].ttl
            /\ sessions'[job[g].sid].until \in {0, sessions[job[g].sid].until}
        BY <3>1, <4>2
      <4> QED
        BY ONLY <4>1, <4>2, <4>3 DEF Closed
    <3>5. \A f, g \in Requests : pc'[f] = "session" /\ pc'[g] = "session" /\ job'[f].sid = job'[g].sid => f = g
      BY <1>0, <3>3
    <3> QED
      BY <3>2, <3>4, <3>5 DEF OpeningInv
  <2>6. CASE UNCHANGED sessions /\ pc'[h] # "session"
    <3>1. \A g \in Requests : pc'[g] = "session" => g # h /\ pc[g] = "session" /\ job'[g] = job[g]
      BY <2>1, <2>6
    <3>2. \A g \in Requests : pc'[g] = "session" => Closed(sessions'[job'[g].sid], job'[g])
      BY <1>0, <2>6, <3>1
    <3>3. \A f, g \in Requests : pc'[f] = "session" /\ pc'[g] = "session" /\ job'[f].sid = job'[g].sid => f = g
      BY <1>0, <3>1
    <3>4. \A s \in 1..Len(sessions') : sessions'[s].until <= now' + sessions'[s].ttl
      BY <1>0, <2>1, <2>6
    <3> QED
      BY <3>2, <3>3, <3>4 DEF OpeningInv
  <2> QED
    BY <1>1, <2>2, <2>3, <2>4, <2>5, <2>6, Footprints
<1>2. ASSUME OutsideAct PROVE OpeningInv'
  <2>1. UNCHANGED <<pc, job>> /\ now' \in Nat /\ now <= now'
    BY <1>0, <1>2, OutsideLeaves
  <2>2. /\ Len(sessions') = Len(sessions)
        /\ \A s \in 1..Len(sessions) :
             /\ sessions'[s].until \in {0, sessions[s].until} /\ sessions'[s].ttl = sessions[s].ttl
             /\ sessions'[s].via = sessions[s].via /\ sessions'[s].of = sessions[s].of
    <3>1. CASE UNCHANGED sessions
      BY <3>1
    <3>2. ASSUME NEW k \in 1..Len(sessions), Au!RevokeSession(k)
          PROVE  /\ Len(sessions') = Len(sessions)
                 /\ \A s \in 1..Len(sessions) :
                     /\ sessions'[s].until \in {0, sessions[s].until} /\ sessions'[s].ttl = sessions[s].ttl
                     /\ sessions'[s].via = sessions[s].via /\ sessions'[s].of = sessions[s].of
      BY <3>2, RevokeRow
    <3> QED
      BY <1>2, <3>1, <3>2, OutsideLeaves
  <2>3. ASSUME NEW s \in 1..Len(sessions') PROVE sessions'[s].until <= now' + sessions'[s].ttl
    <3>1. /\ sessions[s].until <= now + sessions[s].ttl /\ sessions[s].ttl \in Nat /\ now \in Nat
          /\ sessions'[s].ttl = sessions[s].ttl /\ sessions'[s].until \in {0, sessions[s].until}
          /\ sessions[s].until \in Nat
      BY <1>0, <2>2
    <3> QED
      BY ONLY <2>1, <3>1
  <2>4. ASSUME NEW g \in Requests, pc'[g] = "session" PROVE Closed(sessions'[job'[g].sid], job'[g])
    <3>1. pc[g] = "session" /\ job'[g] = job[g]
      BY <2>1, <2>4
    <3>2. job[g].sid \in 1..Len(sessions) /\ Closed(sessions[job[g].sid], job[g])
      BY <1>0, <3>1
    <3>3. /\ sessions'[job[g].sid].via = sessions[job[g].sid].via
          /\ sessions'[job[g].sid].of = sessions[job[g].sid].of
          /\ sessions'[job[g].sid].ttl = sessions[job[g].sid].ttl
          /\ sessions'[job[g].sid].until \in {0, sessions[job[g].sid].until}
      BY <2>2, <3>2
    <3> QED
      BY ONLY <3>1, <3>2, <3>3 DEF Closed
  <2> QED
    BY <1>0, <2>1, <2>3, <2>4 DEF OpeningInv
<1>3. CASE UNCHANGED Au!auth
  BY <1>3 DEF OpeningInv, Au!auth, Au!redisSessions, Au!bounds
<1> QED
  BY <1>1, <1>2, <1>3, WhoSteps

(* Finite sets are the same in both modules. *)
LEMMA SameCardinality ==
    ASSUME NEW S PROVE Au!Cardinality(S) = Cardinality(S) /\ Au!IsFiniteSet(S) = IsFiniteSet(S)
BY DEF Au!Cardinality, Cardinality, Au!IsFiniteSet, IsFiniteSet

(* What the cap counts can be counted. *)
LEMMA CappedCounted ==
    AccountTypes =>
        /\ IsFiniteSet(Capped) /\ Cardinality(Capped) \in Nat /\ Cardinality(Capped) <= Cardinality(Au!Index)
        /\ Cardinality(Au!Index) \in Nat
        /\ IsFiniteSet(Entering) /\ Cardinality(Entering) \in Nat
        /\ Cardinality(Entering) <= Cardinality(Requests) /\ Cardinality(Requests) \in Nat \ {0}
        /\ MaxSessions \in Nat \ {0}
<1> SUFFICES ASSUME AccountTypes
             PROVE  /\ IsFiniteSet(Capped) /\ Cardinality(Capped) \in Nat /\ Cardinality(Capped) <= Cardinality(Au!Index)
                    /\ Cardinality(Au!Index) \in Nat
                    /\ IsFiniteSet(Entering) /\ Cardinality(Entering) \in Nat
                    /\ Cardinality(Entering) <= Cardinality(Requests) /\ Cardinality(Requests) \in Nat \ {0}
                    /\ MaxSessions \in Nat \ {0}
  OBVIOUS
<1>1. IsFiniteSet(Requests) /\ Requests # {} /\ MaxSessions \in Nat \ {0}
  BY AccessAssumption, SameCardinality DEF Au!AuthAssumption
<1>2. Cardinality(Requests) \in Nat \ {0}
  BY <1>1, FS_CardinalityType, FS_EmptySet
<1>3. Entering \subseteq Requests /\ Capped \subseteq Au!Index
  BY DEF Entering, Capped
<1>4. IsFiniteSet(Entering) /\ Cardinality(Entering) <= Cardinality(Requests) /\ Cardinality(Entering) \in Nat
  BY <1>1, <1>3, FS_Subset, FS_CardinalityType
<1>5. Au!Index \subseteq 1..Len(sessions) /\ Len(sessions) \in Nat
  BY RowTypes DEF AccountTypes
<1>6. IsFiniteSet(Au!Index)
  <2>1. IsFiniteSet(1..Len(sessions))
    BY <1>5, FS_Interval
  <2> QED
    BY <1>5, <2>1, FS_Subset
<1>7. IsFiniteSet(Capped) /\ Cardinality(Capped) <= Cardinality(Au!Index)
  BY <1>3, <1>6, FS_Subset
<1> QED
  BY <1>1, <1>2, <1>4, <1>6, <1>7, FS_CardinalityType

(* Fewer capped sessions and fewer logins past the cap do not exceed it. *)
LEMMA OvershootShrinks ==
    ASSUME AccountTypes, AccountTypes', OvershootInv, Capped' \subseteq Capped, Entering' \subseteq Entering
    PROVE  OvershootInv'
<1>1. /\ IsFiniteSet(Capped) /\ Cardinality(Capped) \in Nat /\ IsFiniteSet(Entering) /\ Cardinality(Entering) \in Nat
      /\ Cardinality(Requests) \in Nat \ {0} /\ MaxSessions \in Nat \ {0}
  BY CappedCounted
<1>2. Cardinality(Capped') <= Cardinality(Capped) /\ Cardinality(Entering') <= Cardinality(Entering)
  BY <1>1, FS_Subset
<1>3. Cardinality(Capped') \in Nat /\ Cardinality(Entering') \in Nat
  BY <1>1, FS_Subset, FS_CardinalityType
<1> QED
  BY <1>1, <1>2, <1>3 DEF OvershootInv

(* No login exceeds the cap by more than itself. *)
LEMMA OvershootStep ==
    AccountTypes /\ AccountTypes' /\ OpeningInv /\ OvershootInv /\ [Au!Next]_(Au!auth) => OvershootInv'
<1> SUFFICES ASSUME AccountTypes, AccountTypes', OpeningInv, OvershootInv, [Au!Next]_(Au!auth) PROVE OvershootInv'
  OBVIOUS
<1>0. /\ Au!Index \subseteq 1..Len(sessions) /\ Len(sessions) \in Nat /\ now \in Nat
      /\ \A h \in Requests : pc[h] = "session" => job[h].sid \in 1..Len(sessions)
  BY RowTypes DEF AccountTypes, Au!TypeOK
<1>1. ASSUME NEW h \in Requests, ClientAct(h) PROVE OvershootInv'
  <2>1. (\A g \in Requests : g # h => pc'[g] = pc[g] /\ job'[g] = job[g]) /\ UNCHANGED now
    BY <1>1, OthersStay
  <2>2. CASE UNCHANGED <<sessions, index, indexUntil>>
    <3>1. Au!Index' = Au!Index /\ Capped' = Capped
      BY <2>1, <2>2 DEF Au!Index, Capped
    <3>2. CASE pc[h] = "count" /\ pc'[h] = "insert" /\ Au!CountUserSessions(h)
      <4>1. Cardinality(Au!Index) < MaxSessions
        <5>1. ~(Cardinality(Au!Index) >= MaxSessions)
          BY <3>2, ReturnPlaced, SameCardinality DEF Au!CountUserSessions
        <5> QED
          BY <5>1, CappedCounted
      <4>2. Cardinality(Capped') < MaxSessions /\ Cardinality(Capped') \in Nat
        BY <3>1, <4>1, CappedCounted
      <4>3. Cardinality(Entering') \in Nat /\ Cardinality(Entering') <= Cardinality(Requests)
        <5>1. (AccountTypes => Cardinality(Entering) \in Nat /\ Cardinality(Entering) <= Cardinality(Requests))'
          BY CappedCounted, PTL
        <5> QED
          BY <5>1
      <4> QED
        BY <4>2, <4>3, CappedCounted DEF OvershootInv
    <3>3. CASE pc'[h] \notin {"insert", "session"} \/ job'[h].via = "google"
      <4>1. Entering' \subseteq Entering
        BY <2>1, <3>3 DEF Entering
      <4> QED
        BY <3>1, <4>1, OvershootShrinks
    <3>4. CASE pc[h] = "idle" /\ Au!GoogleLogin(h)
      <4>1. job'[h] = [Au!NoJob EXCEPT !.kind = "login", !.via = "google"]
        BY <3>4 DEF Au!GoogleLogin, Au!Begin, AccountTypes
      <4>2. job'[h].via = "google"
        BY ONLY <4>1 DEF Au!NoJob
      <4> QED
        BY <3>3, <4>2
    <3>5. CASE Au!InsertRefreshToken(h)
      <4>1. Entering' \subseteq Entering
        BY <2>1, <3>5, InsertRow DEF Entering
      <4> QED
        BY <3>1, <4>1, OvershootShrinks
    <3> QED
      BY <1>1, <3>2, <3>3, <3>4, <3>5, Moves, ReturnPlaced DEF MovesOn
  <2>3. CASE Au!InsertRefreshToken(h)
    <3>1. Capped' \subseteq Capped
      BY <1>0, <2>3, InsertRow DEF Capped
    <3>2. Entering' \subseteq Entering
      BY <2>1, <2>3, InsertRow DEF Entering
    <3> QED
      BY <3>1, <3>2, OvershootShrinks
  <2>4. CASE Au!CreateSession(h)
    <3>1. PICK k \in 1..Len(sessions), a \in Nat \ {0} :
             /\ pc[h] = "session" /\ pc'[h] = "idle" /\ k = job[h].sid
             /\ Len(sessions') = Len(sessions) /\ \A s \in 1..Len(sessions) : s # k => sessions'[s] = sessions[s]
             /\ sessions'[k].via = sessions[k].via /\ Au!Index' = Au!Index \cup {k}
      BY <2>4, CreateRow
    <3>2. sessions[k].via = job[h].via
      BY <3>1 DEF OpeningInv
    <3>3. CASE job[h].via = "google"
      <4>1. Capped' \subseteq Capped
        BY <1>0, <3>1, <3>2, <3>3 DEF Capped
      <4>2. Entering' \subseteq Entering
        BY <2>1, <3>1 DEF Entering
      <4> QED
        BY <4>1, <4>2, OvershootShrinks
    <3>4. CASE job[h].via # "google"
      <4>1. Capped' \subseteq Capped \cup {k}
        BY <1>0, <3>1 DEF Capped
      <4>2. Entering' \subseteq Entering \ {h} /\ h \in Entering
        BY <2>1, <3>1, <3>4 DEF Entering
      <4>3. /\ IsFiniteSet(Capped) /\ Cardinality(Capped) \in Nat /\ IsFiniteSet(Entering)
            /\ Cardinality(Entering) \in Nat /\ Cardinality(Requests) \in Nat \ {0} /\ MaxSessions \in Nat \ {0}
        BY CappedCounted
      <4>4. Cardinality(Capped') <= Cardinality(Capped) + 1 /\ Cardinality(Capped') \in Nat
        <5>1. IsFiniteSet(Capped \cup {k}) /\ Cardinality(Capped \cup {k}) <= Cardinality(Capped) + 1
          <6>1. /\ IsFiniteSet(Capped \cup {k})
                /\ Cardinality(Capped \cup {k}) = IF k \in Capped THEN Cardinality(Capped) ELSE Cardinality(Capped) + 1
            BY ONLY <4>3, FS_AddElement
          <6> QED
            BY ONLY <4>3, <6>1
        <5>2. Cardinality(Capped \cup {k}) \in Nat
          BY <5>1, FS_CardinalityType
        <5>3. IsFiniteSet(Capped') /\ Cardinality(Capped') <= Cardinality(Capped \cup {k})
          BY <4>1, <5>1, FS_Subset
        <5>4. Cardinality(Capped') \in Nat
          BY <5>3, FS_CardinalityType
        <5> QED
          BY <4>3, <5>1, <5>2, <5>3, <5>4
      <4>5. Cardinality(Entering') <= Cardinality(Entering) - 1 /\ Cardinality(Entering') \in Nat
        <5>1. IsFiniteSet(Entering \ {h}) /\ Cardinality(Entering \ {h}) = Cardinality(Entering) - 1
          BY <4>2, <4>3, FS_RemoveElement
        <5>2. IsFiniteSet(Entering') /\ Cardinality(Entering') <= Cardinality(Entering \ {h})
          BY <4>2, <5>1, FS_Subset
        <5>3. Cardinality(Entering') \in Nat
          BY <5>2, FS_CardinalityType
        <5> QED
          BY <5>1, <5>2, <5>3
      <4> QED
        BY <4>3, <4>4, <4>5 DEF OvershootInv
    <3> QED
      BY <3>3, <3>4
  <2>5. CASE Au!RevokeAllPurge(h)
    <3>1. Capped' \subseteq Capped
      BY <2>5, PurgeRows DEF Capped
    <3>2. pc[h] = "purge" /\ pc'[h] \notin {"insert", "session"}
      BY <1>1, <2>5, PurgeRows, Moves, ReturnPlaced DEF MovesOn
    <3>3. Entering' \subseteq Entering
      BY <2>1, <3>2 DEF Entering
    <3> QED
      BY <3>1, <3>3, OvershootShrinks
  <2> QED
    BY <1>1, <2>2, <2>3, <2>4, <2>5, Footprints
<1>2. ASSUME OutsideAct PROVE OvershootInv'
  <2>1. UNCHANGED <<pc, job>> /\ Entering' = Entering
    BY <1>2, OutsideLeaves DEF Entering
  <2>2. CASE UNCHANGED <<sessions, index, indexUntil>>
    <3>1. now' >= now /\ now' \in Nat
      BY <1>0, <1>2, OutsideLeaves
    <3>2. Au!Index' \subseteq Au!Index
      <4>1. indexUntil \in Nat /\ (indexUntil' > now' => indexUntil > now)
        <5>1. indexUntil \in Nat /\ now \in Nat
          BY <1>0 DEF AccountTypes, Au!TypeOK
        <5> QED
          BY ONLY <2>2, <3>1, <5>1
      <4> QED
        BY <2>2, <4>1 DEF Au!Index
    <3>3. Capped' \subseteq Capped
      BY <2>2, <3>2 DEF Capped
    <3> QED
      BY <2>1, <3>3, OvershootShrinks
  <2>3. ASSUME NEW k \in 1..Len(sessions), Au!RevokeSession(k) PROVE OvershootInv'
    <3>1. Capped' \subseteq Capped
      BY <1>0, <2>3, RevokeRow DEF Capped
    <3> QED
      BY <2>1, <3>1, OvershootShrinks
  <2> QED
    BY <1>2, <2>2, <2>3, OutsideLeaves
<1>3. CASE UNCHANGED Au!auth
  BY <1>3 DEF OvershootInv, Capped, Entering, Au!Index, Au!auth, Au!redisSessions, Au!bounds
<1> QED
  BY <1>1, <1>2, <1>3, WhoSteps

(* The cap of the property is the one that is counted. *)
LEMMA OvershootBounded == AccountTypes /\ OvershootInv => Au!CapOvershoot
<1> SUFFICES ASSUME AccountTypes, OvershootInv PROVE Au!CapOvershoot
  OBVIOUS
<1>1. Cardinality(Capped) <= MaxSessions - 1 + Cardinality(Requests)
  BY CappedCounted DEF OvershootInv
<1> QED
  BY <1>1, SameCardinality DEF Au!CapOvershoot, Capped

(* What a step does to how sessions were opened, short of opening one. *)
RowsKept ==
    /\ Len(sessions') = Len(sessions)
    /\ \A s \in 1..Len(sessions) : sessions'[s].via = sessions[s].via /\ sessions'[s].of = sessions[s].of

(* All steps of a request but the insertion keep the rows. *)
LEMMA MostKeepRows ==
    ASSUME AccountTypes, NEW h \in Requests, ClientAct(h), ~Au!InsertRefreshToken(h)
    PROVE  RowsKept
<1>1. CASE UNCHANGED sessions
  BY <1>1 DEF RowsKept
<1>2. CASE Au!CreateSession(h)
  <2>1. PICK k \in 1..Len(sessions) :
           /\ Len(sessions') = Len(sessions) /\ \A s \in 1..Len(sessions) : s # k => sessions'[s] = sessions[s]
           /\ sessions'[k].via = sessions[k].via /\ sessions'[k].of = sessions[k].of
    BY <1>2, CreateRow
  <2> QED
    BY <2>1 DEF RowsKept
<1>3. CASE Au!RevokeAllPurge(h)
  BY <1>3, PurgeRows DEF RowsKept
<1> QED
  BY <1>1, <1>2, <1>3, Footprints

(* Nobody is promoted anew, no pending second factor added. *)
LEMMA PromotionKept ==
    ASSUME PromotionInv, RowsKept, issued' = issued, pending' \subseteq pending,
           \A g \in Requests : Promoting(g)' => Promoting(g) /\ job'[g].of = job[g].of
    PROVE  PromotionInv'
<1>1. \A g \in Requests : Promoting(g)' =>
         /\ job'[g].of \in (1..issued') \ pending'
         /\ \A s \in 1..Len(sessions') : sessions'[s].via = "pending" => sessions'[s].of # job'[g].of
  BY DEF PromotionInv, RowsKept
<1>2. \A f, g \in Requests : Promoting(f)' /\ Promoting(g)' /\ job'[f].of = job'[g].of => f = g
  BY DEF PromotionInv
<1>3. \A s \in 1..Len(sessions') : sessions'[s].via = "pending" => sessions'[s].of \in (1..issued') \ pending'
  BY DEF PromotionInv, RowsKept
<1>4. Au!OneSessionPerPending'
  BY DEF PromotionInv, RowsKept, Au!OneSessionPerPending
<1> QED
  BY <1>1, <1>2, <1>3, <1>4 DEF PromotionInv

(* A pending second factor goes to one login, and from there to one session. *)
LEMMA PromotionStep == AccountTypes /\ PromotionInv /\ [Au!Next]_(Au!auth) => PromotionInv'
<1> SUFFICES ASSUME AccountTypes, PromotionInv, [Au!Next]_(Au!auth) PROVE PromotionInv'
  OBVIOUS
<1>0. issued \in Nat /\ pending \subseteq 1..issued /\ Len(sessions) \in Nat
  BY RowTypes DEF AccountTypes, Au!TypeOK
<1>1. ASSUME NEW h \in Requests, ClientAct(h) PROVE PromotionInv'
  <2>1. \A g \in Requests : g # h => pc'[g] = pc[g] /\ job'[g] = job[g] /\ (Promoting(g)' <=> Promoting(g))
    BY <1>1, OthersStay DEF Promoting
  <2>2. CASE Au!CreatePending2FASession(h)
    <3>1. RowsKept /\ issued' = issued + 1 /\ pending' = pending \cup {issued + 1} /\ pc'[h] = "idle"
      BY <2>2, ReturnPlaced DEF Au!CreatePending2FASession, Au!redisSessions, RowsKept
    <3>2. \A g \in Requests : Promoting(g)' => Promoting(g) /\ job'[g].of = job[g].of
      BY <2>1, <3>1 DEF Promoting
    <3>3. \A n \in 1..issued : n \notin pending => n \in 1..issued' /\ n \notin pending'
      BY <1>0, <3>1
    <3>4. \A g \in Requests : Promoting(g)' =>
             /\ job'[g].of \in (1..issued') \ pending'
             /\ \A s \in 1..Len(sessions') : sessions'[s].via = "pending" => sessions'[s].of # job'[g].of
      BY <3>1, <3>2, <3>3 DEF PromotionInv, RowsKept
    <3>5. \A f, g \in Requests : Promoting(f)' /\ Promoting(g)' /\ job'[f].of = job'[g].of => f = g
      BY <3>2 DEF PromotionInv
    <3>6. \A s \in 1..Len(sessions') : sessions'[s].via = "pending" => sessions'[s].of \in (1..issued') \ pending'
      BY <3>1, <3>3 DEF PromotionInv, RowsKept
    <3>7. Au!OneSessionPerPending'
      BY <3>1 DEF PromotionInv, RowsKept, Au!OneSessionPerPending
    <3> QED
      BY <3>4, <3>5, <3>6, <3>7 DEF PromotionInv
  <2>3. ASSUME NEW p \in pending, Au!Verify2FA(h, p, TRUE) PROVE PromotionInv'
    <3>1. RowsKept /\ issued' = issued /\ pending' = pending \ {p} /\ pc[h] = "idle"
      BY <2>3 DEF Au!Verify2FA, Au!redisSessions, Au!Begin, Au!MayBegin, RowsKept
    <3>2. job'[h] = [Au!NoJob EXCEPT !.kind = "login", !.via = "pending", !.of = p]
      BY <2>3 DEF Au!Verify2FA, Au!Begin, AccountTypes
    <3>3. job'[h].of = p
      BY ONLY <3>2 DEF Au!NoJob
    <3>4. \A g \in Requests : g # h => job'[g] = job[g] /\ (Promoting(g)' <=> Promoting(g))
      BY <2>1
    <3>5. \A g \in Requests : Promoting(g)' =>
             /\ job'[g].of \in (1..issued') \ pending'
             /\ \A s \in 1..Len(sessions') : sessions'[s].via = "pending" => sessions'[s].of # job'[g].of
      <4>1. p \in (1..issued') \ pending'
        BY <1>0, <3>1
      <4>2. \A s \in 1..Len(sessions') : sessions'[s].via = "pending" => sessions'[s].of # p
        BY <3>1 DEF PromotionInv, RowsKept
      <4>3. ASSUME NEW g \in Requests, g # h, Promoting(g)'
            PROVE  /\ job'[g].of \in (1..issued') \ pending'
                   /\ \A s \in 1..Len(sessions') : sessions'[s].via = "pending" => sessions'[s].of # job'[g].of
        BY <3>1, <3>4, <4>3 DEF PromotionInv, RowsKept
      <4> QED
        BY <3>3, <4>1, <4>2, <4>3
    <3>6. \A f, g \in Requests : Promoting(f)' /\ Promoting(g)' /\ job'[f].of = job'[g].of => f = g
      <4>1. \A g \in Requests : g # h /\ Promoting(g)' => job'[g].of # p
        BY <3>4 DEF PromotionInv
      <4> QED
        BY <3>3, <3>4, <4>1 DEF PromotionInv
    <3>7. \A s \in 1..Len(sessions') : sessions'[s].via = "pending" => sessions'[s].of \in (1..issued') \ pending'
      BY <3>1 DEF PromotionInv, RowsKept
    <3>8. Au!OneSessionPerPending'
      BY <3>1 DEF PromotionInv, RowsKept, Au!OneSessionPerPending
    <3> QED
      BY <3>5, <3>6, <3>7, <3>8 DEF PromotionInv
  <2>4. CASE Au!InsertRefreshToken(h)
    <3> DEFINE n == Len(sessions')
    <3>1. /\ pc[h] = "insert" /\ pc'[h] = "session" /\ n = Len(sessions) + 1
          /\ \A s \in 1..Len(sessions) : sessions'[s] = sessions[s]
          /\ sessions'[n].via = job[h].via /\ sessions'[n].of = job[h].of
          /\ pending' = pending /\ issued' = issued
      BY <2>4, InsertRow
    <3>2. 1..n = (1..Len(sessions)) \cup {n} /\ n \notin 1..Len(sessions)
      BY <1>0, <3>1
    <3>3. \A g \in Requests : Promoting(g)' => g # h /\ Promoting(g) /\ job'[g].of = job[g].of
      BY <2>1, <3>1 DEF Promoting
    <3>4. job[h].via = "pending" => Promoting(h)
      BY <3>1 DEF Promoting
    <3>5. \A g \in Requests : Promoting(g)' =>
             /\ job'[g].of \in (1..issued') \ pending'
             /\ \A s \in 1..Len(sessions') : sessions'[s].via = "pending" => sessions'[s].of # job'[g].of
      <4> SUFFICES ASSUME NEW g \in Requests, Promoting(g)'
                   PROVE  /\ job'[g].of \in (1..issued') \ pending'
                          /\ \A s \in 1..n : sessions'[s].via = "pending" => sessions'[s].of # job'[g].of
        OBVIOUS
      <4>1. \A s \in 1..Len(sessions) : sessions'[s].via = "pending" => sessions'[s].of # job'[g].of
        BY <3>1, <3>3 DEF PromotionInv
      <4>2. sessions'[n].via = "pending" => sessions'[n].of # job'[g].of
        BY <3>1, <3>3, <3>4 DEF PromotionInv
      <4>3. job'[g].of \in (1..issued') \ pending'
        BY <3>1, <3>3 DEF PromotionInv
      <4> QED
        BY <3>2, <4>1, <4>2, <4>3
    <3>6. \A f, g \in Requests : Promoting(f)' /\ Promoting(g)' /\ job'[f].of = job'[g].of => f = g
      BY <3>3 DEF PromotionInv
    <3>7. \A s \in 1..n : sessions'[s].via = "pending" => sessions'[s].of \in (1..issued') \ pending'
      BY <3>1, <3>2, <3>4 DEF PromotionInv
    <3>8. \A s, t \in 1..n : sessions'[s].via = "pending" /\ sessions'[t].via = "pending"
                              /\ sessions'[s].of = sessions'[t].of => s = t
      <4>1. \A s \in 1..Len(sessions) : sessions'[s].via = "pending" /\ sessions'[n].via = "pending"
              => sessions'[s].of # sessions'[n].of
        BY <3>1, <3>4 DEF PromotionInv
      <4>2. \A s, t \in 1..Len(sessions) : sessions'[s].via = "pending" /\ sessions'[t].via = "pending"
              /\ sessions'[s].of = sessions'[t].of => s = t
        BY <3>1 DEF PromotionInv, Au!OneSessionPerPending
      <4> QED
        BY <3>2, <4>1, <4>2
    <3> QED
      BY <3>5, <3>6, <3>7, <3>8 DEF PromotionInv, Au!OneSessionPerPending
  <2>5. ASSUME ~Au!InsertRefreshToken(h), UNCHANGED issued, pending' \subseteq pending,
               Promoting(h)' => Promoting(h) /\ job'[h].of = job[h].of
        PROVE  PromotionInv'
    <3>1. RowsKept
      BY <1>1, <2>5, MostKeepRows
    <3>2. \A g \in Requests : Promoting(g)' => Promoting(g) /\ job'[g].of = job[g].of
      BY <2>1, <2>5
    <3> QED
      BY <2>5, <3>1, <3>2, PromotionKept
  <2>6. CASE UNCHANGED <<pending, issued>> /\ ~Au!InsertRefreshToken(h) /\ (\A p \in pending : ~Au!Verify2FA(h, p, TRUE))
    <3>1. Promoting(h)' => Promoting(h) /\ job'[h].of = job[h].of
      <4>1. Au!LoginMatch(h) => job'[h].via = "password"
        BY DEF Au!LoginMatch, AccountTypes, ClientCopy
      <4>2. Au!GoogleLogin(h) => job'[h].via = "google"
        <5>1. Au!GoogleLogin(h) => job'[h] = [Au!NoJob EXCEPT !.kind = "login", !.via = "google"]
          BY DEF Au!GoogleLogin, Au!Begin, AccountTypes
        <5>2. [Au!NoJob EXCEPT !.kind = "login", !.via = "google"].via = "google"
          BY DEF Au!NoJob
        <5> QED
          BY <5>1, <5>2
      <4> QED
        BY <1>1, <2>6, <4>1, <4>2, Moves, ReturnPlaced DEF MovesOn, Promoting
    <3> QED
      BY <2>5, <2>6, <3>1
  <2>7. ASSUME NEW p \in pending, Au!Verify2FA(h, p, FALSE) PROVE PromotionInv'
    <3>1. pc[h] = "idle" /\ pc'[h] = "idle" /\ UNCHANGED <<issued, sessions>> /\ pending' \subseteq pending
      BY <2>7 DEF Au!Verify2FA, Au!redisSessions, Au!Begin, Au!MayBegin, Au!Goto, AccountTypes
    <3>2. ~Promoting(h)' /\ RowsKept
      BY <3>1 DEF Promoting, RowsKept
    <3>3. \A g \in Requests : Promoting(g)' => Promoting(g) /\ job'[g].of = job[g].of
      BY <2>1, <3>2
    <3> QED
      BY <3>1, <3>2, <3>3, PromotionKept
  <2> QED
    <3>1. \/ UNCHANGED <<pending, issued>> \/ Au!CreatePending2FASession(h)
          \/ \E p \in pending, ok \in BOOLEAN : Au!Verify2FA(h, p, ok)
      BY <1>1, Footprints
    <3>2. (\E p \in pending, ok \in BOOLEAN : Au!Verify2FA(h, p, ok)) =>
             (\E p \in pending : Au!Verify2FA(h, p, TRUE)) \/ (\E p \in pending : Au!Verify2FA(h, p, FALSE))
      <4>1. BOOLEAN = {TRUE, FALSE}
        OBVIOUS
      <4> QED
        BY <4>1
    <3> QED
      BY <2>2, <2>3, <2>4, <2>6, <2>7, <3>1, <3>2
<1>2. ASSUME OutsideAct PROVE PromotionInv'
  <2>1. issued' = issued /\ pending' \subseteq pending /\ UNCHANGED <<pc, job>>
    BY <1>2, OutsideLeaves
  <2>2. RowsKept
    <3>1. CASE UNCHANGED sessions
      BY <3>1 DEF RowsKept
    <3>2. ASSUME NEW k \in 1..Len(sessions), Au!RevokeSession(k) PROVE RowsKept
      BY <3>2, RevokeRow DEF RowsKept
    <3> QED
      BY <1>2, <3>1, <3>2, OutsideLeaves
  <2>3. \A g \in Requests : Promoting(g)' => Promoting(g) /\ job'[g].of = job[g].of
    BY <2>1 DEF Promoting
  <2> QED
    BY <2>1, <2>2, <2>3, PromotionKept
<1>3. CASE UNCHANGED Au!auth
  BY <1>3 DEF PromotionInv, Promoting, Au!OneSessionPerPending, Au!auth, Au!redisSessions, Au!redisKeys
<1> QED
  BY <1>1, <1>2, <1>3, WhoSteps

(* Wrong passwords are counted one by one, and lock the account. *)
LEMMA FailuresStep == AccountTypes /\ RequestTurns /\ FailuresInv /\ [Au!Next]_(Au!auth) => FailuresInv'
<1> SUFFICES ASSUME AccountTypes, RequestTurns, FailuresInv, [Au!Next]_(Au!auth) PROVE FailuresInv'
  OBVIOUS
<1>0. wrong \in Nat /\ attempts \in Nat /\ lastWrong \in Nat /\ lockedUntil \in Nat /\ now \in Nat /\ faults \in Nat
  BY DEF AccountTypes, Au!TypeOK
<1>1. CASE UNCHANGED <<attempts, lockedUntil, wrong, lastWrong, overlap>> /\ (faults' = 0 => faults = 0)
           /\ \A h \in Requests : pc'[h] = "compare" => pc[h] = "compare" /\ job'[h] = job[h]
  BY <1>1 DEF FailuresInv, Au!SerialFailuresLock, Au!Serial
<1>2. ASSUME NEW h \in Requests, ClientAct(h) PROVE FailuresInv'
  <2>1. /\ \A g \in Requests : g # h => pc'[g] = pc[g] /\ job'[g] = job[g]
        /\ overlap' = overlap
    BY <1>2, OthersStay
  <2>2. CASE overlap
    BY <2>1, <2>2 DEF FailuresInv, Au!SerialFailuresLock, Au!Serial
  <2>3. CASE ~overlap
    <3>1. \A g \in Requests : g # h => pc'[g] = "idle"
      BY <1>2, <2>3, ActsAlone
    <3>2. /\ faults' = 0 => faults = 0
          /\ pc[h] = "compare" => job[h].attempts = attempts
          /\ faults = 0 => /\ wrong = attempts
                           /\ lastWrong > 0 /\ wrong >= 5 =>
                                lockedUntil >= lastWrong + IF wrong >= 10 THEN 2 ELSE 1
      <4>1. faults' = 0 => faults = 0
        BY <1>0, <1>2, CountsGrow
      <4> QED
        BY <2>3, <4>1 DEF FailuresInv, Au!SerialFailuresLock, Au!Serial
    <3>3. CASE Au!LoginFail(h)
      <4>1. pc'[h] = "idle" /\ wrong' = wrong + 1 /\ lastWrong' = now
        BY <3>3, ReturnPlaced DEF Au!LoginFail
      <4>2. CASE faults' # 0
        BY <3>1, <4>1, <4>2 DEF FailuresInv, Au!SerialFailuresLock, Au!Serial
      <4>3. CASE faults' = 0
        <5>1. /\ attempts' = attempts + 1
              /\ lockedUntil' = IF Au!LockoutDuration(attempts + 1) > 0
                                THEN now + Au!LockoutDuration(attempts + 1) ELSE lockedUntil
          BY <1>0, <3>2, <3>3, <4>3 DEF Au!LoginFail, Au!Fault
        <5>2. wrong' >= 5 => lockedUntil' >= lastWrong' + IF wrong' >= 10 THEN 2 ELSE 1
          BY <1>0, <3>2, <4>1, <4>3, <5>1 DEF Au!LockoutDuration
        <5> QED
          BY <3>1, <3>2, <4>1, <4>3, <5>1, <5>2 DEF FailuresInv, Au!SerialFailuresLock, Au!Serial
      <4> QED
        BY <4>2, <4>3
    <3>4. CASE Au!LoginMatch(h)
      <4>1. pc[h] = "compare" /\ pc'[h] \in {"pend", "count"} /\ wrong' = 0
        BY <3>4 DEF Au!LoginMatch, Au!Goto, AccountTypes
      <4>2. faults' = 0 => attempts' = 0
        BY <1>0, <3>2, <3>4, <4>1 DEF Au!LoginMatch, Au!Fault, Au!account
      <4> QED
        BY <3>1, <4>1, <4>2 DEF FailuresInv, Au!SerialFailuresLock, Au!Serial
    <3>5. CASE UNCHANGED <<attempts, lockedUntil, wrong, lastWrong>>
      <4>1. pc'[h] = "compare" => job'[h].attempts = attempts
        <5>1. ASSUME NEW pw, NEW d, Au!LoginLoad(h, pw, d) PROVE job'[h].attempts = attempts
          <6>1. job'[h] = [Au!NoJob EXCEPT !.kind = "login", !.attempts = attempts, !.old = password, !.new = pw,
                                           !.device = d]
            BY <5>1 DEF Au!LoginLoad, Au!Begin, AccountTypes
          <6> QED
            BY ONLY <6>1 DEF Au!NoJob
        <5> QED
          BY <1>2, <5>1, Moves, ReturnPlaced DEF MovesOn
      <4> QED
        BY <2>1, <3>1, <3>2, <3>5, <4>1 DEF FailuresInv, Au!SerialFailuresLock, Au!Serial
    <3> QED
      BY <1>2, <3>3, <3>4, <3>5, Footprints
  <2> QED
    BY <2>2, <2>3
<1>3. OutsideAct => FailuresInv'
  BY <1>1, OutsideLeaves
<1>4. UNCHANGED Au!auth => FailuresInv'
  BY <1>1 DEF Au!auth, Au!account, Au!ghosts, Au!bounds
<1> QED
  BY <1>2, <1>3, <1>4, WhoSteps

(* The rows of refresh tokens, step by step. *)
LEMMA TokenRows ==
    ASSUME AccountTypes, NEW h \in Requests, ClientAct(h)
    PROVE  \/ UNCHANGED tokens
           \/ /\ Au!InsertRefreshToken(h) /\ Len(tokens') = Len(tokens) + 1
              /\ \A t \in 1..Len(tokens) : tokens'[t] = tokens[t]
              /\ tokens'[Len(tokens')].sid = Len(sessions) + 1 /\ ~tokens'[Len(tokens')].revoked
           \/ /\ Au!RevokeAllTokens(h) /\ Len(tokens') = Len(tokens)
              /\ \A t \in 1..Len(tokens) : tokens'[t].revoked
           \/ \E k \in 1..Len(tokens) :
                /\ Au!RotateToken(h) /\ k = job[h].token /\ Len(tokens') = Len(tokens) + 1
                /\ \A t \in 1..Len(tokens) : t # k => tokens'[t] = tokens[t]
                /\ tokens'[k].revoked /\ tokens'[k].sid = tokens[k].sid
                /\ tokens'[Len(tokens')].sid = tokens[k].sid
<1>1. /\ tokens \in Seq(TokenRow(Len(sessions))) /\ Len(tokens) \in Nat /\ DOMAIN tokens = 1..Len(tokens)
      /\ Len(sessions) \in Nat
  BY RowTypes DEF AccountTypes
<1>2. CASE Au!InsertRefreshToken(h)
  <2>1. PICK r : r.sid = Len(sessions') /\ r.revoked = FALSE /\ tokens' = Append(tokens, r)
    BY <1>2 DEF Au!InsertRefreshToken
  <2>2. Len(sessions') = Len(sessions) + 1
    BY <1>2, InsertRow
  <2>3. Len(tokens') = Len(tokens) + 1 /\ (\A t \in 1..Len(tokens) : tokens'[t] = tokens[t]) /\ tokens'[Len(tokens')] = r
    BY ONLY <1>1, <2>1
  <2> QED
    BY <1>2, <2>1, <2>2, <2>3
<1>3. CASE Au!RevokeAllTokens(h)
  <2>1. tokens' = [t \in 1..Len(tokens) |-> [tokens[t] EXCEPT !.revoked = TRUE]]
    BY <1>1, <1>3 DEF Au!RevokeAllTokens
  <2>2. ASSUME NEW t \in 1..Len(tokens) PROVE tokens'[t].revoked = TRUE
    <3>1. tokens[t] \in TokenRow(Len(sessions)) /\ tokens'[t] = [tokens[t] EXCEPT !.revoked = TRUE]
      BY <1>1, <2>1
    <3> QED
      BY <1>1, <3>1, TokenRevoked
  <2>3. Len(tokens') = Len(tokens)
    BY <1>1, <2>1
  <2> QED
    BY <1>3, <2>2, <2>3
<1>4. CASE Au!RotateToken(h)
  <2>1. pc[h] = "rotate" /\ job[h].token \in 1..Len(tokens)
    BY <1>1, <1>4 DEF Au!RotateToken, AccountTypes, Au!TypeOK
  <2>2. PICK k, r, q :
          /\ k \in 1..Len(tokens) /\ k = job[h].token /\ r = [tokens[k] EXCEPT !.revoked = TRUE] /\ q = Au!Successor(k)
          /\ tokens' = Append([tokens EXCEPT ![k] = r], q)
    BY <1>4, <2>1 DEF Au!RotateToken
  <2>3. tokens[k] \in TokenRow(Len(sessions))
    BY <1>1, <2>2
  <2>4. r.revoked = TRUE /\ r.sid = tokens[k].sid
    BY ONLY <1>1, <2>2, <2>3, TokenRevoked
  <2>5. q.sid = tokens[k].sid
    BY ONLY <2>2, <2>3 DEF Au!Successor, TokenRow
  <2>6. /\ Len(tokens') = Len(tokens) + 1 /\ (\A t \in 1..Len(tokens) : t # k => tokens'[t] = tokens[t])
        /\ tokens'[k] = r /\ tokens'[Len(tokens')] = q
    <3>1. tokens' = Append([tokens EXCEPT ![k] = r], q) /\ k \in 1..Len(tokens)
      BY <2>2
    <3> QED
      BY ONLY <1>1, <3>1
  <2> QED
    BY <1>4, <2>2, <2>4, <2>5, <2>6
<1> QED
  BY <1>2, <1>3, <1>4, Footprints

(* Without overlap a rotation replaces the one token of its session. *)
LEMMA RotationStep == AccountTypes /\ RequestTurns /\ RotationInv /\ [Au!Next]_(Au!auth) => RotationInv'
<1> SUFFICES ASSUME AccountTypes, RequestTurns, RotationInv, [Au!Next]_(Au!auth) PROVE RotationInv'
  OBVIOUS
<1>0. /\ Len(tokens) \in Nat /\ Len(sessions) \in Nat
      /\ \A t \in 1..Len(tokens) : tokens[t].sid \in 1..Len(sessions) /\ tokens[t].revoked \in BOOLEAN
      /\ \A h \in Requests : pc[h] = "rotate" => job[h].token \in 1..Len(tokens)
  <2>1. /\ tokens \in Seq(TokenRow(Len(sessions))) /\ Len(tokens) \in Nat /\ DOMAIN tokens = 1..Len(tokens)
        /\ Len(sessions) \in Nat
    BY RowTypes DEF AccountTypes
  <2>2. \A t \in 1..Len(tokens) : tokens[t] \in TokenRow(Len(sessions))
    BY <2>1
  <2> QED
    BY <2>1, <2>2 DEF TokenRow, AccountTypes, Au!TypeOK
<1>1. CASE UNCHANGED <<tokens, overlap>>
           /\ \A h \in Requests : pc'[h] = "rotate" => pc[h] = "rotate" /\ job'[h] = job[h]
  BY <1>1 DEF RotationInv, Au!SerialOneTokenPerSession, Au!ActiveTokens, Au!Serial
<1>2. ASSUME NEW h \in Requests, ClientAct(h) PROVE RotationInv'
  <2>1. overlap' = overlap
    BY <1>2, OthersStay
  <2>2. CASE overlap
    BY <2>1, <2>2 DEF RotationInv, Au!SerialOneTokenPerSession, Au!Serial
  <2>3. CASE ~overlap
    <3>1. \A g \in Requests : g # h => pc'[g] = "idle"
      BY <1>2, <2>3, ActsAlone
    <3>2. /\ pc[h] = "rotate" => ~tokens[job[h].token].revoked
          /\ \A t, u \in 1..Len(tokens) : ~tokens[t].revoked /\ ~tokens[u].revoked /\ tokens[t].sid = tokens[u].sid => t = u
      BY <2>3, SMTT(30) DEF RotationInv, Au!SerialOneTokenPerSession, Au!ActiveTokens, Au!Serial
    <3> DEFINE Alone == \A t, u \in 1..Len(tokens') :
                          ~tokens'[t].revoked /\ ~tokens'[u].revoked /\ tokens'[t].sid = tokens'[u].sid => t = u
    <3>3. Alone => Au!SerialOneTokenPerSession'
      BY DEF Au!SerialOneTokenPerSession, Au!ActiveTokens, Au!Serial
    <3>4. pc'[h] = "rotate" => UNCHANGED tokens /\ ~tokens[job'[h].token].revoked
      <4>1. pc'[h] = "rotate" => \E t \in 1..Len(tokens) :
              Au!RefreshLoad(h, t) /\ pc'[h] = (IF tokens[t].revoked THEN "tokens" ELSE "rotate") /\ job'[h].token = t
        BY <1>2, Moves, ReturnPlaced DEF MovesOn
      <4> QED
        BY <4>1 DEF Au!RefreshLoad
    <3>5. CASE UNCHANGED tokens
      BY <3>1, <3>2, <3>3, <3>4, <3>5 DEF RotationInv
    <3>6. CASE /\ Len(tokens') = Len(tokens) + 1
               /\ \A t \in 1..Len(tokens) : tokens'[t] = tokens[t]
               /\ tokens'[Len(tokens')].sid = Len(sessions) + 1
      <4>1. Alone
        BY <1>0, <3>2, <3>6
      <4> QED
        BY <1>0, <3>1, <3>3, <3>4, <3>6, <4>1 DEF RotationInv
    <3>7. CASE Len(tokens') = Len(tokens) /\ \A t \in 1..Len(tokens) : tokens'[t].revoked
      BY <3>1, <3>3, <3>4, <3>7 DEF RotationInv
    <3>8. ASSUME NEW k \in 1..Len(tokens),
                 /\ Au!RotateToken(h) /\ k = job[h].token /\ Len(tokens') = Len(tokens) + 1
                 /\ \A t \in 1..Len(tokens) : t # k => tokens'[t] = tokens[t]
                 /\ tokens'[k].revoked /\ tokens'[k].sid = tokens[k].sid
                 /\ tokens'[Len(tokens')].sid = tokens[k].sid
          PROVE  RotationInv'
      <4>1. pc[h] = "rotate" /\ pc'[h] = "done"
        BY <3>8 DEF Au!RotateToken, Au!Goto, AccountTypes
      <4>2. \A t \in 1..Len(tokens) : ~tokens'[t].revoked => t # k /\ tokens'[t] = tokens[t] /\ tokens[t].sid # tokens[k].sid
        BY <3>2, <3>8, <4>1
      <4>3. 1..Len(tokens') = 1..Len(tokens) \cup {Len(tokens')}
        BY <1>0, <3>8
      <4>4. Alone
        BY <3>2, <3>8, <4>2, <4>3
      <4> QED
        BY <3>1, <3>3, <4>1, <4>4 DEF RotationInv
    <3> QED
      BY <1>2, <3>5, <3>6, <3>7, <3>8, TokenRows
  <2> QED
    BY <2>2, <2>3
<1>3. OutsideAct => RotationInv'
  BY <1>1, OutsideLeaves
<1>4. UNCHANGED Au!auth => RotationInv'
  BY <1>1 DEF Au!auth, Au!bounds
<1> QED
  BY <1>2, <1>3, <1>4, WhoSteps

(* Without overlap a password is saved against the history it was compared  *)
(* with. *)
LEMMA HistoryStep == AccountTypes /\ RequestTurns /\ HistoryInv /\ [Au!Next]_(Au!auth) => HistoryInv'
<1> SUFFICES ASSUME AccountTypes, RequestTurns, HistoryInv, [Au!Next]_(Au!auth) PROVE HistoryInv'
  OBVIOUS
<1>0. history \in Seq(Passwords) /\ Len(history) \in Nat /\ HistoryDepth \in Nat
  BY AccessAssumption DEF AccountTypes, Au!TypeOK, Au!AuthAssumption
<1>1. CASE UNCHANGED <<history, overlap>>
           /\ \A h \in Requests : pc'[h] = "save" => pc[h] = "save" /\ job'[h] = job[h]
  BY <1>1 DEF HistoryInv, Au!SerialNoReuse, Au!Recent, Au!Serial
<1>2. ASSUME NEW h \in Requests, ClientAct(h) PROVE HistoryInv'
  <2>1. overlap' = overlap /\ \A g \in Requests : g # h => pc'[g] = pc[g] /\ job'[g] = job[g]
    BY <1>2, OthersStay
  <2>2. CASE overlap
    BY <2>1, <2>2 DEF HistoryInv, Au!SerialNoReuse, Au!Serial
  <2>3. CASE ~overlap
    <3>1. \A g \in Requests : g # h => pc'[g] = "idle"
      BY <1>2, <2>3, ActsAlone
    <3>2. \A i, j \in 1..Len(history) : i < j /\ j - i <= HistoryDepth => history[i] # history[j]
      BY <2>3 DEF HistoryInv, Au!SerialNoReuse, Au!Serial
    <3>3. CASE Au!SavePassword(h)
      <4>1. /\ pc[h] = "save" /\ pc'[h] = "members" /\ history' = Append(history, job[h].new)
        BY <3>3 DEF Au!SavePassword, Au!Goto, AccountTypes
      <4>2. job[h].new \notin Au!Recent(history)
        BY <2>3, <4>1 DEF HistoryInv
      <4>3. \A i \in 1..Len(history) : i > Len(history) - HistoryDepth => history[i] # job[h].new
        BY <4>2 DEF Au!Recent
      <4>4. /\ Len(history') = Len(history) + 1 /\ history'[Len(history')] = job[h].new
            /\ \A i \in 1..Len(history) : history'[i] = history[i]
        BY <1>0, <4>1
      <4>5. \A i, j \in 1..Len(history') : i < j /\ j - i <= HistoryDepth => history'[i] # history'[j]
        <5> SUFFICES ASSUME NEW i \in 1..Len(history'), NEW j \in 1..Len(history'), i < j, j - i <= HistoryDepth
                     PROVE  history'[i] # history'[j]
          OBVIOUS
        <5>1. i \in 1..Len(history) /\ (j \in 1..Len(history) \/ j = Len(history'))
          BY <1>0, <4>4
        <5>2. CASE j \in 1..Len(history)
          BY <3>2, <4>4, <5>1, <5>2
        <5>3. CASE j = Len(history')
          <6>1. i > Len(history) - HistoryDepth
            BY <1>0, <4>4, <5>1, <5>3
          <6> QED
            BY <4>3, <4>4, <5>1, <5>3, <6>1
        <5> QED
          BY <5>1, <5>2, <5>3
      <4>6. Au!SerialNoReuse'
        BY <4>5 DEF Au!SerialNoReuse
      <4> QED
        BY <3>1, <4>1, <4>6 DEF HistoryInv
    <3>4. CASE UNCHANGED history
      <4>1. pc'[h] = "save" => job'[h].new \notin Au!Recent(history)
        <5>1. pc'[h] = "save" => Au!CheckPasswordHistory(h) /\ job'[h] = job[h]
          BY <1>2, Moves, ReturnPlaced DEF MovesOn
        <5>2. Au!CheckPasswordHistory(h) /\ pc'[h] = "save" => job[h].new \notin Au!Recent(history)
          BY ReturnPlaced DEF Au!CheckPasswordHistory
        <5> QED
          BY <5>1, <5>2
      <4> QED
        BY <2>1, <3>1, <3>2, <3>4, <4>1 DEF HistoryInv, Au!SerialNoReuse, Au!Recent, Au!Serial
    <3> QED
      BY <1>2, <3>3, <3>4, Footprints
  <2> QED
    BY <2>2, <2>3
<1>3. OutsideAct => HistoryInv'
  BY <1>1, OutsideLeaves
<1>4. UNCHANGED Au!auth => HistoryInv'
  BY <1>1 DEF Au!auth, Au!secret, Au!bounds
<1> QED
  BY <1>2, <1>3, <1>4, WhoSteps

(* Faults end a request early or let it go on; without any it goes all the  *)
(* way. *)
LEMMA FaultsStay ==
    ASSUME AccountTypes, NEW h \in Requests, ClientAct(h), faults' = 0
    PROVE  faults = 0 /\ ~Au!IgnoredError(h) /\ ~Au!Abort(h)
<1>1. faults \in Nat /\ faults' \in {faults, faults + 1}
  BY CountsGrow DEF AccountTypes, Au!TypeOK
<1> QED
  BY <1>1 DEF Au!IgnoredError, Au!Abort, Au!Fault

(* A request that revokes goes on to the end, and skips nothing. *)
LEMMA RevokingGoesOn ==
    ASSUME AccountTypes, NEW h \in Requests, ClientAct(h), ~Au!IgnoredError(h), ~Au!Abort(h),
           pc[h] \in {"members", "purge", "tokens", "unlink"}
    PROVE  /\ job[h].kind \in {"change", "reset", "reuse"}
           /\ \/ /\ pc[h] = "members" /\ Au!RevokeAllMembers(h) /\ pc'[h] = "purge"
                 /\ job' = [job EXCEPT ![h].members = Au!Index]
              \/ /\ pc[h] = "members" /\ Au!RevokeAllMembers(h) /\ Au!Index = {} /\ job'[h] = job[h]
                 /\ pc'[h] = IF job[h].kind = "reuse" THEN "done" ELSE "tokens"
              \/ /\ pc[h] = "purge" /\ Au!RevokeAllPurge(h) /\ job'[h] = job[h]
                 /\ pc'[h] = IF job[h].kind = "reuse" THEN "done" ELSE "tokens"
              \/ /\ pc[h] = "tokens" /\ Au!RevokeAllTokens(h) /\ job'[h] = job[h]
                 /\ pc'[h] = IF job[h].kind = "reuse" THEN "members"
                             ELSE IF job[h].kind = "reset" THEN "unlink" ELSE "done"
              \/ /\ pc[h] = "unlink" /\ Au!DeleteLink(h) /\ job'[h] = job[h] /\ pc'[h] = "done"
<1>1. ~Au!LoginStep(h)
  BY DEF Au!LoginStep, Au!LoginLoad, Au!LoginFail, Au!LoginMatch, Au!CreatePending2FASession, Au!Verify2FA,
         Au!CountUserSessions, Au!InsertRefreshToken, Au!CreateSession, Au!GoogleLogin, Au!Begin, Au!MayBegin
<1>2. ~Au!RefreshStep(h) /\ ~Au!Answer(h)
  BY DEF Au!RefreshStep, Au!RefreshLoad, Au!RotateToken, Au!Begin, Au!MayBegin, Au!Answer
<1>3. Au!RevokeAllMembers(h) \/ Au!RevokeAllPurge(h) \/ Au!RevokeAllTokens(h) \/ Au!DeleteLink(h)
  BY <1>1, <1>2
  DEF ClientAct, Au!PasswordStep, Au!ChangeLoad, Au!ResetGet, Au!CheckPasswordHistory, Au!SavePassword,
      Au!Begin, Au!MayBegin
<1>4. pc'[h] # "idle"
  <2>1. \/ pc[h] \in {"members", "purge", "tokens"} /\ (Au!Proceed(h, "purge") \/ Au!Proceed(h, "tokens"))
        \/ pc'[h] \in {"purge", "done"}
    BY <1>3 DEF Au!RevokeAllMembers, Au!RevokeAllPurge, Au!RevokeAllTokens, Au!DeleteLink, Au!Goto, AccountTypes
  <2> QED
    BY <2>1, ProceedsTo
<1>5. ~Au!Return(h)
  BY <1>4, ReturnPlaced
<1>6. job[h].kind \in {"change", "reset", "reuse"}
  BY DEF AccountTypes, Placed
<1> QED
  BY <1>5, <1>6, Moves DEF MovesOn

(* Without overlap and faults a link is deleted by the request that used it. *)
LEMMA LinkStep == AccountTypes /\ RequestTurns /\ LinkInv /\ [Au!Next]_(Au!auth) => LinkInv'
<1> SUFFICES ASSUME AccountTypes, RequestTurns, LinkInv, [Au!Next]_(Au!auth), ~overlap', faults' = 0 PROVE
      /\ \A l \in Links : uses'[l] <= 1
      /\ \A l \in links' : uses'[l] = 0 \/ \E h \in Requests : Using(h, l)'
      /\ \A h \in Requests : pc'[h] \in {"history", "save"} /\ job'[h].kind = "reset" => uses'[job'[h].of] = 0
  BY DEF LinkInv
<1> DEFINE Goal ==
      /\ \A l \in Links : uses'[l] <= 1
      /\ \A l \in links' : uses'[l] = 0 \/ \E h \in Requests : Using(h, l)'
      /\ \A h \in Requests : pc'[h] \in {"history", "save"} /\ job'[h].kind = "reset" => uses'[job'[h].of] = 0
<1>0. uses \in [Links -> Nat] /\ links \subseteq Links
  BY DEF AccountTypes, Au!TypeOK
<1>1. ASSUME ~overlap, faults = 0
      PROVE  /\ \A l \in Links : uses[l] <= 1
             /\ \A l \in links : uses[l] = 0 \/ \E h \in Requests : Using(h, l)
             /\ \A h \in Requests : pc[h] \in {"history", "save"} /\ job[h].kind = "reset" => uses[job[h].of] = 0
  BY <1>1 DEF LinkInv
<1>2. ASSUME NEW h \in Requests, ClientAct(h) PROVE Goal
  <2>1. ~overlap /\ faults = 0 /\ ~Au!IgnoredError(h) /\ ~Au!Abort(h)
    BY <1>2, OthersStay, FaultsStay
  <2>2. \A g \in Requests : g # h => pc[g] = "idle" /\ pc'[g] = "idle"
    BY <1>2, <2>1, ActsAlone
  <2>3. /\ \A l \in Links : uses[l] <= 1
        /\ \A l \in links : uses[l] = 0 \/ Using(h, l)
        /\ pc[h] \in {"history", "save"} /\ job[h].kind = "reset" => uses[job[h].of] = 0
    BY <1>1, <2>1, <2>2 DEF Using
  <2>4. Placed(h) /\ Placed(h)'
    BY <1>2, PlacedStep DEF AccountTypes
  <2>5. CASE Au!SavePassword(h)
    <3>1. /\ pc[h] = "save" /\ pc'[h] = "members" /\ job'[h] = job[h] /\ links' = links
          /\ uses' = IF job[h].kind = "reset" THEN [uses EXCEPT ![job[h].of] = @ + 1] ELSE uses
      BY <2>5 DEF Au!SavePassword, Au!Goto, Au!redisKeys, AccountTypes
    <3>2. CASE job[h].kind = "reset"
      <4>1. /\ job[h].of \in Links /\ uses[job[h].of] = 0 /\ uses'[job[h].of] = 1
            /\ \A l \in Links : l # job[h].of => uses'[l] = uses[l]
        BY <1>0, <2>3, <2>4, <3>1, <3>2 DEF Placed
      <4>2. \A l \in links' : uses'[l] = 0 \/ Using(h, l)'
        BY <1>0, <2>3, <3>1, <3>2, <4>1 DEF Using
      <4>3. \A l \in Links : uses'[l] <= 1
        BY <2>3, <4>1
      <4> QED
        BY <2>2, <3>1, <4>2, <4>3
    <3>3. CASE job[h].kind # "reset"
      BY <1>0, <2>2, <2>3, <3>1, <3>3 DEF Using
    <3> QED
      BY <3>2, <3>3
  <2>6. CASE UNCHANGED uses /\ ~Au!SavePassword(h)
    <3>1. pc'[h] \in {"history", "save"} /\ job'[h].kind = "reset" => uses[job'[h].of] = 0
      <4>1. ASSUME NEW l \in links, NEW new, Au!ResetGet(h, l, new) PROVE uses[job'[h].of] = 0
        <5>1. pc[h] = "idle"
          BY <4>1 DEF Au!ResetGet, Au!Begin, Au!MayBegin
        <5>2. uses[l] = 0
          BY <2>3, <5>1 DEF Using
        <5>3. job'[h] = [Au!NoJob EXCEPT !.kind = "reset", !.new = new, !.of = l]
          BY <4>1 DEF Au!ResetGet, Au!Begin, AccountTypes
        <5>4. job'[h].of = l
          BY ONLY <5>3 DEF Au!NoJob
        <5> QED
          BY <5>2, <5>4
      <4>2. ASSUME NEW old, NEW new, Au!ChangeLoad(h, old, new) PROVE job'[h].kind # "reset"
        <5>1. job'[h] = [Au!NoJob EXCEPT !.kind = "change", !.old = old, !.new = new]
          BY <4>2 DEF Au!ChangeLoad, Au!Begin, AccountTypes
        <5> QED
          BY ONLY <5>1 DEF Au!NoJob
      <4>3. pc'[h] \in {"history", "save"} =>
              \/ pc[h] = "history" /\ job'[h] = job[h]
              \/ (\E old \in Passwords, new \in Passwords : Au!ChangeLoad(h, old, new))
              \/ (\E l \in links, new \in Passwords : Au!ResetGet(h, l, new))
        BY <1>2, Moves, ReturnPlaced DEF MovesOn
      <4> QED
        BY <2>3, <4>1, <4>2, <4>3
    <3>2. ASSUME NEW l \in links, Using(h, l), l \in links' PROVE Using(h, l)'
      <4>1. CASE Au!DeleteLink(h)
        BY <3>2, <4>1 DEF Au!DeleteLink, Using
      <4>2. CASE ~Au!DeleteLink(h)
        <5>1. pc[h] \in {"members", "purge", "tokens", "unlink"} /\ job[h].kind = "reset" /\ job[h].of = l
          BY <3>2 DEF Using
        <5>2. job'[h].kind = job[h].kind /\ job'[h].of = job[h].of /\ pc'[h] \in {"purge", "tokens", "unlink"}
          <6>1. job' = [job EXCEPT ![h].members = Au!Index] => job'[h].kind = job[h].kind /\ job'[h].of = job[h].of
            BY DEF AccountTypes, ClientCopy
          <6> QED
            BY <1>2, <2>1, <4>2, <5>1, <6>1, RevokingGoesOn
        <5> QED
          BY <5>1, <5>2 DEF Using
      <4> QED
        BY <4>1, <4>2
    <3>3. links' \subseteq links
      BY <1>2, Footprints DEF Au!DeleteLink
    <3>4. \A l \in links' : uses'[l] = 0 \/ Using(h, l)'
      BY <2>3, <2>6, <3>2, <3>3
    <3> QED
      BY <2>2, <2>3, <2>6, <3>1, <3>4
  <2> QED
    BY <1>2, <2>5, <2>6, Footprints
<1>3. ASSUME OutsideAct PROVE Goal
  <2>1. UNCHANGED <<pc, job, overlap, faults, uses>>
    BY <1>3, OutsideLeaves
  <2>2. \A l \in links' : l \in links \/ uses[l] = 0
    BY <1>3, OutsideLeaves DEF Au!ForgotPassword, Au!LinkExpires
  <2> QED
    BY <1>1, <2>1, <2>2 DEF Using
<1>4. CASE UNCHANGED Au!auth
  BY <1>1, <1>4 DEF Using, Au!auth, Au!ghosts, Au!redisKeys, Au!bounds
<1> QED
  BY <1>2, <1>3, <1>4, WhoSteps

(* What is barred is what exists when the password is saved or a reuse is   *)
(* noticed, and the request goes on to revoke it. *)
LEMMA BarredGrows ==
    ASSUME AccountTypes, NEW h \in Requests, ClientAct(h)
    PROVE  \/ UNCHANGED barred
           \/ /\ barred' = barred \cup Au!Existing /\ UNCHANGED <<sessions, index, indexUntil, tokens>>
              /\ \/ pc'[h] = "members" /\ job'[h].kind # "reuse"
                 \/ pc'[h] = "tokens" /\ job'[h].kind = "reuse"
<1>1. CASE Au!SavePassword(h)
  <2>1. /\ pc[h] = "save" /\ pc'[h] = "members" /\ job'[h] = job[h]
        /\ barred' = barred \cup Au!Existing /\ UNCHANGED <<sessions, index, indexUntil, tokens>>
    BY <1>1 DEF Au!SavePassword, Au!Goto, Au!redisSessions, AccountTypes
  <2>2. job[h].kind # "reuse"
    BY <2>1 DEF AccountTypes, Placed
  <2> QED
    BY <2>1, <2>2
<1>2. ASSUME NEW t \in 1..Len(tokens), Au!RefreshLoad(h, t), barred' # barred
      PROVE  /\ barred' = barred \cup Au!Existing /\ UNCHANGED <<sessions, index, indexUntil, tokens>>
             /\ pc'[h] = "tokens" /\ job'[h].kind = "reuse"
  <2>1. /\ tokens[t].revoked /\ barred' = barred \cup Au!Existing /\ UNCHANGED <<sessions, index, indexUntil, tokens>>
        /\ Au!Begin(h, "tokens", [[Au!NoJob EXCEPT !.token = t] EXCEPT !.kind = "reuse"])
    BY <1>2 DEF Au!RefreshLoad, Au!redisSessions
  <2>2. pc'[h] = "tokens" /\ job'[h] = [[Au!NoJob EXCEPT !.token = t] EXCEPT !.kind = "reuse"]
    BY <2>1 DEF Au!Begin, Au!Goto, AccountTypes
  <2>3. job'[h].kind = "reuse"
    BY ONLY <2>2 DEF Au!NoJob
  <2> QED
    BY <2>1, <2>2, <2>3
<1>3. UNCHANGED barred \/ Au!SavePassword(h) \/ (\E t \in 1..Len(tokens) : Au!RefreshLoad(h, t))
  BY Footprints
<1> QED
  BY <1>1, <1>2, <1>3

(* Barring concerns live sessions and tokens in use only. *)
LEMMA BarredStep == AccountTypes /\ OpeningInv /\ BarredInv /\ [Au!Next]_(Au!auth) => BarredInv'
<1> SUFFICES ASSUME AccountTypes, OpeningInv, BarredInv, [Au!Next]_(Au!auth) PROVE BarredInv'
  OBVIOUS
<1> DEFINE Known(x, n, m) == (\E s \in 1..n : x = <<"session", s>>) \/ (\E t \in 1..m : x = <<"token", t>>)
<1>0. Len(sessions) \in Nat /\ Len(tokens) \in Nat /\ now \in Nat
  BY RowTypes DEF AccountTypes
<1>1. \A x \in barred : Known(x, Len(sessions), Len(tokens))
  BY DEF BarredInv
<1>2. ASSUME NEW h \in Requests, ClientAct(h) PROVE BarredInv'
  <2>1. \A g \in Requests : g # h => pc'[g] = pc[g] /\ job'[g] = job[g]
    BY <1>2, OthersStay
  <2>2. /\ Len(sessions') \in Nat /\ Len(sessions) <= Len(sessions')
        /\ Len(tokens') \in Nat /\ Len(tokens) <= Len(tokens')
    BY <1>2, SessionsKept, TokensKept
  <2>3. \A x \in barred : Known(x, Len(sessions'), Len(tokens'))
    <3>1. 1..Len(sessions) \subseteq 1..Len(sessions') /\ 1..Len(tokens) \subseteq 1..Len(tokens')
      BY <1>0, <2>2
    <3> QED
      BY <1>1, <3>1
  <2>4. pc'[h] = "session" => Au!InsertRefreshToken(h)
    BY <1>2, Moves, ReturnPlaced DEF MovesOn
  <2>5. CASE UNCHANGED barred
    <3>1. Au!InsertRefreshToken(h) => job'[h].sid = Len(sessions) + 1
      BY InsertRow
    <3>2. pc'[h] = "session" => <<"session", job'[h].sid>> \notin barred
      <4>1. <<"session", Len(sessions) + 1>> \notin barred
        BY <1>0, <1>1
      <4> QED
        BY <2>4, <3>1, <4>1
    <3>3. \A g \in Requests : pc'[g] = "session" => <<"session", job'[g].sid>> \notin barred
      BY <2>1, <3>2 DEF BarredInv
    <3> QED
      BY <2>3, <2>5, <3>3 DEF BarredInv
  <2>6. CASE /\ barred' = barred \cup Au!Existing /\ UNCHANGED <<sessions, tokens>>
             /\ pc'[h] \in {"members", "tokens"}
    <3>1. \A x \in Au!Existing : Known(x, Len(sessions), Len(tokens))
      BY DEF Au!Existing, Au!LiveSessions, Au!ActiveTokens
    <3>2. \A s \in 1..Len(sessions) : <<"session", s>> \in Au!Existing => sessions[s].until > now
      BY DEF Au!Existing, Au!LiveSessions, Au!Live
    <3>3. \A g \in Requests : pc'[g] = "session" =>
            /\ g # h /\ job'[g] = job[g] /\ job[g].sid \in 1..Len(sessions) /\ sessions[job[g].sid].until = 0
            /\ <<"session", job[g].sid>> \notin barred
      <4>1. \A g \in Requests : pc'[g] = "session" => g # h /\ pc[g] = "session" /\ job'[g] = job[g]
        BY <2>1, <2>6
      <4>2. \A g \in Requests : pc[g] = "session" => job[g].sid \in 1..Len(sessions)
        BY RowTypes DEF AccountTypes, Au!TypeOK
      <4>3. \A g \in Requests : pc[g] = "session" => sessions[job[g].sid].until = 0
        BY DEF OpeningInv
      <4>4. \A g \in Requests : pc[g] = "session" => <<"session", job[g].sid>> \notin barred
        BY DEF BarredInv
      <4> QED
        BY <4>1, <4>2, <4>3, <4>4
    <3>4. \A g \in Requests : pc'[g] = "session" => <<"session", job'[g].sid>> \notin barred'
      <4> SUFFICES ASSUME NEW g \in Requests, pc'[g] = "session" PROVE <<"session", job'[g].sid>> \notin barred'
        OBVIOUS
      <4>1. <<"session", job[g].sid>> \notin Au!Existing
        BY <1>0, <3>2, <3>3
      <4> QED
        BY <2>6, <3>3, <4>1
    <3>5. \A x \in barred' : Known(x, Len(sessions'), Len(tokens'))
      BY <1>1, <2>6, <3>1
    <3> QED
      BY <3>4, <3>5 DEF BarredInv
  <2> QED
    BY <1>2, <2>5, <2>6, BarredGrows
<1>3. ASSUME OutsideAct PROVE BarredInv'
  <2>1. UNCHANGED <<pc, job, barred, tokens>>
    BY <1>3, OutsideLeaves
  <2>2. Len(sessions') = Len(sessions)
    <3>1. CASE UNCHANGED sessions
      BY <3>1
    <3>2. ASSUME NEW k \in 1..Len(sessions), Au!RevokeSession(k) PROVE Len(sessions') = Len(sessions)
      BY <3>2, RevokeRow
    <3> QED
      BY <1>3, <3>1, <3>2, OutsideLeaves
  <2> QED
    BY <2>1, <2>2 DEF BarredInv
<1>4. CASE UNCHANGED Au!auth
  BY <1>4 DEF BarredInv, Au!auth, Au!redisSessions, Au!ghosts
<1> QED
  BY <1>2, <1>3, <1>4, WhoSteps

(* Without overlap and faults all tokens are revoked before the request ends. *)
LEMMA TokensOutStep ==
    AccountTypes /\ RequestTurns /\ BarredInv /\ TokensOutInv /\ [Au!Next]_(Au!auth) => TokensOutInv'
<1> SUFFICES ASSUME AccountTypes, RequestTurns, BarredInv, TokensOutInv, [Au!Next]_(Au!auth), ~overlap', faults' = 0,
                    NEW t \in 1..Len(tokens'), <<"token", t>> \in barred'
             PROVE  tokens'[t].revoked \/ \E h \in Requests : RevokesTokens(h)'
  BY DEF TokensOutInv
<1>0. Len(tokens) \in Nat
  BY RowTypes DEF AccountTypes
<1>1. ASSUME NEW h \in Requests, ClientAct(h) PROVE tokens'[t].revoked \/ \E g \in Requests : RevokesTokens(g)'
  <2>1. ~overlap /\ faults = 0 /\ ~Au!IgnoredError(h) /\ ~Au!Abort(h)
    BY <1>1, OthersStay, FaultsStay
  <2>2. \A g \in Requests : g # h => pc[g] = "idle" /\ pc'[g] = "idle"
    BY <1>1, <2>1, ActsAlone
  <2>3. CASE UNCHANGED barred
    <3>1. t \in 1..Len(tokens)
      BY <2>3 DEF BarredInv
    <3>2. tokens[t].revoked => tokens'[t].revoked
      BY <1>1, <3>1, TokensKept
    <3>3. ASSUME RevokesTokens(h) PROVE RevokesTokens(h)' \/ tokens'[t].revoked
      <4>1. pc[h] \in {"members", "purge", "tokens"}
        BY <3>3 DEF RevokesTokens
      <4>2. CASE pc[h] = "tokens"
        <5>1. Au!RevokeAllTokens(h)
          BY <1>1, <2>1, <4>2, RevokingGoesOn
        <5>2. ~Au!InsertRefreshToken(h) /\ ~Au!RotateToken(h)
          BY <4>2 DEF Au!InsertRefreshToken, Au!RotateToken
        <5>3. tokens' = [u \in DOMAIN tokens |-> [tokens[u] EXCEPT !.revoked = TRUE]] /\ t \in DOMAIN tokens
          BY <3>1, <5>1, RowTypes DEF Au!RevokeAllTokens, AccountTypes
        <5>4. tokens[t] \in TokenRow(Len(sessions)) /\ tokens'[t] = [tokens[t] EXCEPT !.revoked = TRUE]
              /\ Len(sessions) \in Nat
          BY <3>1, <5>3, RowTypes DEF AccountTypes
        <5> QED
          BY ONLY <5>4, TokenRevoked
      <4>3. CASE pc[h] \in {"members", "purge"}
        <5>1. job[h].kind # "reuse"
          BY <3>3, <4>3 DEF RevokesTokens
        <5>2. job' = [job EXCEPT ![h].members = Au!Index] => job'[h].kind = job[h].kind
          BY DEF AccountTypes, ClientCopy
        <5>3. pc'[h] \in {"purge", "tokens"} /\ job'[h].kind = job[h].kind
          BY <1>1, <2>1, <4>3, <5>1, <5>2, RevokingGoesOn
        <5> QED
          BY <5>1, <5>3 DEF RevokesTokens
      <4> QED
        BY <4>1, <4>2, <4>3
    <3>4. \A g \in Requests : RevokesTokens(g) => g = h
      BY <2>2 DEF RevokesTokens
    <3> QED
      BY <2>1, <2>3, <3>1, <3>2, <3>3, <3>4 DEF TokensOutInv
  <2>4. CASE (pc'[h] = "members" /\ job'[h].kind # "reuse") \/ pc'[h] = "tokens"
    BY <2>4 DEF RevokesTokens
  <2> QED
    BY <1>1, <2>3, <2>4, BarredGrows
<1>2. CASE UNCHANGED <<pc, job, overlap, faults, barred, tokens>>
  BY <1>2 DEF TokensOutInv, RevokesTokens
<1> QED
  BY <1>1, <1>2, WhoSteps, OutsideLeaves DEF Au!auth, Au!bounds, Au!ghosts

(* What a step does to the sessions that are live. *)
LEMMA LiveMoves ==
    ASSUME AccountTypes, OpeningInv, NEW h \in Requests, ClientAct(h), ~Au!CreateSession(h)
    PROVE  /\ Au!LiveSessions' \subseteq Au!LiveSessions
           /\ \A s \in Au!LiveSessions' : sessions'[s].until = sessions[s].until
           /\ \A s \in 1..Len(sessions) : sessions'[s].ttl = sessions[s].ttl
           /\ Len(sessions) <= Len(sessions')
<1>0. Len(sessions) \in Nat /\ now \in Nat /\ now' = now
  BY OthersStay, RowTypes DEF AccountTypes
<1>1. CASE UNCHANGED sessions
  BY <1>0, <1>1 DEF Au!LiveSessions, Au!Live
<1>2. CASE Au!InsertRefreshToken(h)
  <2>1. /\ Len(sessions') = Len(sessions) + 1 /\ \A s \in 1..Len(sessions) : sessions'[s] = sessions[s]
        /\ sessions'[Len(sessions')].until = 0
    BY <1>2, InsertRow
  <2>2. \A s \in 1..Len(sessions') : sessions'[s].until > now => s \in 1..Len(sessions)
    BY <1>0, <2>1
  <2> QED
    BY <1>0, <2>1, <2>2 DEF Au!LiveSessions, Au!Live
<1>3. CASE Au!RevokeAllPurge(h)
  <2>1. /\ Len(sessions') = Len(sessions)
        /\ \A s \in 1..Len(sessions) :
             /\ sessions'[s].ttl = sessions[s].ttl
             /\ sessions'[s].until = IF s \in job[h].members THEN 0 ELSE sessions[s].until
    BY <1>3, PurgeRows
  <2> QED
    BY <1>0, <2>1 DEF Au!LiveSessions, Au!Live
<1> QED
  BY <1>1, <1>2, <1>3, Footprints

(* Lifetimes that agree after a step have agreed before. *)
LEMMA UniformBefore ==
    ASSUME AccountTypes, OpeningInv, [Au!Next]_(Au!auth), Uniform'
    PROVE  Uniform
<1>0. Len(sessions) \in Nat
  BY RowTypes DEF AccountTypes
<1>1. ASSUME NEW n \in Nat, Len(sessions') = n, Len(sessions) <= n,
             \A s \in 1..Len(sessions) : sessions[s].ttl \in {0, sessions'[s].ttl}
      PROVE  Uniform
  <2>1. 1..Len(sessions) \subseteq 1..Len(sessions')
    BY <1>0, <1>1
  <2> QED
    BY <1>1, <2>1 DEF Uniform
<1>2. ASSUME NEW h \in Requests, ClientAct(h) PROVE Uniform
  <2>1. Len(sessions') \in Nat /\ Len(sessions) <= Len(sessions')
    BY <1>2, SessionsKept
  <2>2. CASE Au!CreateSession(h)
    <3>1. PICK k \in 1..Len(sessions) :
             /\ pc[h] = "session" /\ k = job[h].sid
             /\ Len(sessions') = Len(sessions) /\ \A s \in 1..Len(sessions) : s # k => sessions'[s] = sessions[s]
      BY <2>2, CreateRow
    <3>2. sessions[k].ttl = 0
      BY <3>1 DEF OpeningInv
    <3> QED
      BY <1>1, <2>1, <3>1, <3>2
  <2>3. CASE ~Au!CreateSession(h)
    BY <1>1, <1>2, <2>1, <2>3, LiveMoves
  <2> QED
    BY <2>2, <2>3
<1>3. CASE UNCHANGED sessions
  BY <1>0, <1>1, <1>3
<1>4. ASSUME NEW k \in 1..Len(sessions), Au!RevokeSession(k) PROVE Uniform
  <2>1. /\ Len(sessions') = Len(sessions) /\ \A s \in 1..Len(sessions) : s # k => sessions'[s] = sessions[s]
        /\ sessions'[k].ttl = sessions[k].ttl
    BY <1>4, RevokeRow
  <2> QED
    BY <1>0, <1>1, <2>1
<1> QED
  BY <1>2, <1>3, <1>4, WhoSteps, OutsideLeaves DEF Au!auth, Au!redisSessions

(* Without overlap and faults all sessions end before the request does. *)
LEMMA SessionsOutStep ==
    AccountTypes /\ RequestTurns /\ OpeningInv /\ BarredInv /\ SessionsOutInv /\ [Au!Next]_(Au!auth) => SessionsOutInv'
<1> DEFINE Indexed == \A s \in Au!LiveSessions : s \in index /\ sessions[s].until <= indexUntil
           Read == \A h \in Requests : pc[h] = "purge" => Au!LiveSessions \subseteq job[h].members
           Out == \A s \in Au!LiveSessions : <<"session", s>> \in barred => \E h \in Requests : EndsSessions(h)
<1> SUFFICES ASSUME AccountTypes, RequestTurns, OpeningInv, BarredInv, SessionsOutInv, [Au!Next]_(Au!auth),
                    ~overlap', faults' = 0, Uniform'
             PROVE  Indexed' /\ Read' /\ Out'
  BY DEF SessionsOutInv
<1>0. /\ Len(sessions) \in Nat /\ now \in Nat /\ indexUntil \in Nat /\ index \subseteq 1..Len(sessions)
      /\ \A s \in 1..Len(sessions) : sessions[s].until \in Nat /\ sessions[s].ttl \in Nat
  <2>1. /\ sessions \in Seq(SessionRow) /\ Len(sessions) \in Nat /\ DOMAIN sessions = 1..Len(sessions)
        /\ now \in Nat /\ indexUntil \in Nat /\ index \subseteq 1..Len(sessions)
    BY RowTypes DEF AccountTypes
  <2>2. \A s \in 1..Len(sessions) : sessions[s] \in SessionRow
    BY <2>1
  <2> QED
    BY <2>1, <2>2 DEF SessionRow
<1>1. Uniform
  BY UniformBefore
<1>2. ~overlap /\ faults = 0 => Indexed /\ Read /\ Out
  BY <1>1 DEF SessionsOutInv
<1>3. Indexed => Au!LiveSessions \subseteq Au!Index
  BY <1>0 DEF Au!LiveSessions, Au!Live, Au!Index
<1>4. ASSUME NEW h \in Requests, ClientAct(h) PROVE Indexed' /\ Read' /\ Out'
  <2>1. ~overlap /\ faults = 0 /\ ~Au!IgnoredError(h) /\ ~Au!Abort(h)
    BY <1>4, OthersStay, FaultsStay
  <2>2. \A g \in Requests : g # h => pc[g] = "idle" /\ pc'[g] = "idle"
    BY <1>4, <2>1, ActsAlone
  <2>3. Indexed /\ Read /\ Out /\ Au!LiveSessions \subseteq Au!Index /\ now' = now
    BY <1>2, <1>3, <1>4, <2>1, OthersStay
  <2>4. CASE Au!CreateSession(h)
    <3>1. PICK k \in 1..Len(sessions), a \in Nat \ {0} :
             /\ pc[h] = "session" /\ pc'[h] = "idle" /\ k = job[h].sid
             /\ Len(sessions') = Len(sessions) /\ \A s \in 1..Len(sessions) : s # k => sessions'[s] = sessions[s]
             /\ sessions'[k].until = now + a /\ sessions'[k].ttl = a
             /\ index' = Au!Index \cup {k} /\ indexUntil' = now + a /\ barred' = barred
      BY <2>4, CreateRow
    <3>2. \A s \in Au!LiveSessions' : s = k \/ (s \in Au!LiveSessions /\ s # k)
      BY <2>3, <3>1 DEF Au!LiveSessions, Au!Live
    <3>3. ASSUME NEW s \in Au!LiveSessions, s # k PROVE sessions'[s].until <= now + a
      <4>1. s \in 1..Len(sessions) /\ sessions[s].until > now /\ sessions[s].until <= now + sessions[s].ttl
        BY <3>3 DEF Au!LiveSessions, Au!Live, OpeningInv
      <4>2. sessions[s].ttl # 0 /\ sessions'[s] = sessions[s]
        BY <1>0, <3>1, <3>3, <4>1
      <4>3. 0 \in {sessions'[s].ttl, sessions'[k].ttl} \/ sessions'[s].ttl = sessions'[k].ttl
        BY <3>1, <4>1 DEF Uniform
      <4>4. sessions[s].ttl = a
        BY <3>1, <4>2, <4>3
      <4> QED
        BY <4>1, <4>2, <4>4
    <3>4. Indexed'
      <4>1. ASSUME NEW s \in Au!LiveSessions' PROVE s \in index' /\ sessions'[s].until <= indexUntil'
        BY <1>0, <2>3, <3>1, <3>2, <3>3
      <4> QED
        BY <4>1
    <3>5. Read'
      BY <2>2, <3>1
    <3>6. Out'
      <4>1. ~EndsSessions(h) /\ \A g \in Requests : g # h => ~EndsSessions(g)
        BY <2>2, <3>1 DEF EndsSessions
      <4>2. \A s \in Au!LiveSessions : <<"session", s>> \notin barred
        BY <2>3, <4>1
      <4>3. <<"session", k>> \notin barred
        BY <3>1 DEF BarredInv
      <4> QED
        BY <3>1, <3>2, <4>2, <4>3
    <3> QED
      BY <3>4, <3>5, <3>6
  <2>5. CASE Au!RevokeAllPurge(h)
    <3>1. /\ pc[h] = "purge" /\ Len(sessions') = Len(sessions)
          /\ \A s \in 1..Len(sessions) : sessions'[s].until = IF s \in job[h].members THEN 0 ELSE sessions[s].until
      BY <2>5, PurgeRows
    <3>2. Au!LiveSessions \subseteq job[h].members
      BY <2>3, <3>1
    <3>3. Au!LiveSessions' = {}
      BY <1>0, <2>3, <3>1, <3>2 DEF Au!LiveSessions, Au!Live
    <3> QED
      BY <3>3
  <2>6. CASE ~Au!CreateSession(h) /\ ~Au!RevokeAllPurge(h)
    <3>1. Au!LiveSessions' \subseteq Au!LiveSessions /\ \A s \in Au!LiveSessions' : sessions'[s].until = sessions[s].until
      BY <1>4, <2>6, LiveMoves
    <3>2. UNCHANGED <<index, indexUntil>>
      BY <1>4, <2>6, Footprints DEF Au!InsertRefreshToken
    <3>3. Indexed'
      BY <2>3, <3>1, <3>2
    <3>4. Read'
      <4>1. pc'[h] = "purge" => job' = [job EXCEPT ![h].members = Au!Index]
        BY <1>4, Moves, ReturnPlaced DEF MovesOn
      <4>2. job' = [job EXCEPT ![h].members = Au!Index] => job'[h].members = Au!Index
        BY DEF AccountTypes, ClientCopy
      <4> QED
        BY <2>2, <2>3, <3>1, <4>1, <4>2
    <3>5. Out'
      <4>1. CASE UNCHANGED barred
        <5>1. ASSUME NEW s \in Au!LiveSessions', <<"session", s>> \in barred' PROVE EndsSessions(h)'
          <6>1. s \in Au!LiveSessions /\ EndsSessions(h)
            BY <2>2, <2>3, <3>1, <4>1, <5>1 DEF EndsSessions
          <6>2. Au!Index # {}
            BY <2>3, <6>1
          <6>3. pc[h] = "members" \/ (pc[h] = "tokens" /\ job[h].kind = "reuse")
            BY <1>4, <2>1, <2>6, <6>1, RevokingGoesOn DEF EndsSessions
          <6>4. pc'[h] \in {"purge", "members"}
            BY <1>4, <2>1, <6>2, <6>3, RevokingGoesOn
          <6> QED
            BY <6>4 DEF EndsSessions
        <5> QED
          BY <5>1
      <4>2. CASE (pc'[h] = "members" /\ job'[h].kind # "reuse") \/ (pc'[h] = "tokens" /\ job'[h].kind = "reuse")
        BY <4>2 DEF EndsSessions
      <4> QED
        BY <1>4, <4>1, <4>2, BarredGrows
    <3> QED
      BY <3>3, <3>4, <3>5
  <2> QED
    BY <2>4, <2>5, <2>6
<1>5. ASSUME OutsideAct PROVE Indexed' /\ Read' /\ Out'
  <2>1. UNCHANGED <<pc, job, overlap, faults, barred>>
    BY <1>5, OutsideLeaves
  <2>2. Indexed /\ Read /\ Out /\ Au!LiveSessions \subseteq Au!Index
    BY <1>2, <1>3, <2>1
  <2>3. Au!LiveSessions' \subseteq Au!LiveSessions /\ Indexed'
    <3>1. CASE UNCHANGED <<sessions, index, indexUntil>>
      <4>1. now' \in Nat /\ now' >= now
        BY <1>0, <1>5, OutsideLeaves
      <4>2. Au!LiveSessions' \subseteq Au!LiveSessions
        BY <1>0, <3>1, <4>1 DEF Au!LiveSessions, Au!Live
      <4> QED
        BY <2>2, <3>1, <4>2
    <3>2. ASSUME NEW k \in 1..Len(sessions), Au!RevokeSession(k)
          PROVE  Au!LiveSessions' \subseteq Au!LiveSessions /\ Indexed'
      <4>1. /\ Len(sessions') = Len(sessions) /\ \A s \in 1..Len(sessions) : s # k => sessions'[s] = sessions[s]
            /\ sessions'[k].until = 0 /\ index' = Au!Index \ {k} /\ UNCHANGED <<indexUntil, now>>
        BY <3>2, RevokeRow
      <4>2. \A s \in Au!LiveSessions' : s \in Au!LiveSessions /\ s # k /\ sessions'[s] = sessions[s]
        BY <1>0, <4>1 DEF Au!LiveSessions, Au!Live
      <4> QED
        BY <2>2, <4>1, <4>2
    <3> QED
      BY <1>5, <3>1, <3>2, OutsideLeaves
  <2> QED
    BY <2>1, <2>2, <2>3 DEF EndsSessions
<1>6. CASE UNCHANGED Au!auth
  BY <1>2, <1>6 DEF Au!auth, Au!redisSessions, Au!ghosts, Au!bounds, Au!LiveSessions, Au!Live, EndsSessions
<1> QED
  BY <1>4, <1>5, <1>6, WhoSteps

(* What the account keeps: each part with what the parts before it say. *)
AccountInv ==
    /\ AccountTypes /\ RequestTurns /\ OpeningInv /\ OvershootInv /\ PromotionInv /\ FailuresInv
    /\ RotationInv /\ HistoryInv /\ LinkInv /\ BarredInv /\ TokensOutInv /\ SessionsOutInv

(* It holds at the start, with or without an earlier login. *)
LEMMA AccountInit == Au!Init => AccountInv
<1> SUFFICES ASSUME Au!Init PROVE AccountInv
  OBVIOUS
<1>0. AccountTypes
  BY AccountTypesInit
<1>1. /\ now = 1 /\ wrong = attempts /\ lastWrong = 0 /\ barred = {} /\ links = {} /\ pending = {}
      /\ history = <<password>> /\ uses = [l \in Links |-> 0]
      /\ \A h \in Requests : pc[h] = "idle" /\ job[h] = Au!NoJob
  BY DEF Au!Init
<1>2. \/ sessions = <<>> /\ index = {} /\ indexUntil = 0 /\ tokens = <<>>
      \/ \E a \in Nat \ {0}, r \in Nat, d \in Devices :
            /\ sessions = <<[until |-> now + a, ttl |-> a, via |-> "password", of |-> 0]>>
            /\ index = {1} /\ indexUntil = now + a
            /\ tokens = <<[sid |-> 1, device |-> d, until |-> now + r, revoked |-> FALSE]>>
  <2>1. ASSUME NEW d \in Devices, Au!LoggedIn(Au!DetermineTokenTTL(Role, d), d)
        PROVE  \E a \in Nat \ {0}, r \in Nat :
                 /\ sessions = <<[until |-> now + a, ttl |-> a, via |-> "password", of |-> 0]>>
                 /\ index = {1} /\ indexUntil = now + a
                 /\ tokens = <<[sid |-> 1, device |-> d, until |-> now + r, revoked |-> FALSE]>>
    <3>1. Au!DetermineTokenTTL(Role, d) \in Au!Lifetimes
      BY LifetimeConfigured
    <3> QED
      BY <2>1, <3>1 DEF Au!LoggedIn, Au!Lifetimes
  <2> QED
    BY <2>1 DEF Au!Init
<1>3. /\ Len(sessions) \in {0, 1} /\ Len(tokens) \in {0, 1} /\ Au!Index \subseteq {1}
      /\ \A s \in 1..Len(sessions) : /\ s = 1 /\ sessions[s].via = "password" /\ s \in index
                                     /\ sessions[s].until = indexUntil /\ sessions[s].until = now + sessions[s].ttl
  BY <1>2 DEF Au!Index
<1>4. RequestTurns /\ OpeningInv
  <2>1. now \in Nat /\ \A s \in 1..Len(sessions) : sessions[s].until <= now + sessions[s].ttl
    <3>1. \A s \in 1..Len(sessions) : sessions[s].until \in Nat
      <4>1. sessions \in Seq(SessionRow)
        BY <1>0, RowTypes DEF AccountTypes
      <4>2. \A s \in 1..Len(sessions) : sessions[s] \in SessionRow
        BY <4>1
      <4> QED
        BY <4>2 DEF SessionRow
    <3> QED
      BY <1>1, <1>3, <3>1
  <2> QED
    BY <1>1, <2>1 DEF RequestTurns, OpeningInv
<1>5. OvershootInv
  <2>1. Entering = {} /\ Cardinality(Entering) = 0
    <3>1. Entering = {}
      BY <1>1 DEF Entering
    <3> QED
      BY <3>1, FS_EmptySet
  <2>2. Cardinality(Capped) <= 1
    <3>1. IsFiniteSet({1}) /\ Cardinality({1}) = 1 /\ Capped \subseteq {1}
      BY <1>3, FS_Singleton DEF Capped
    <3> QED
      BY <3>1, FS_Subset
  <2>3. Cardinality(Requests) \in Nat \ {0} /\ MaxSessions \in Nat \ {0} /\ Cardinality(Capped) \in Nat
    BY <1>0, CappedCounted
  <2> QED
    BY <2>1, <2>2, <2>3 DEF OvershootInv
<1>6. PromotionInv
  BY <1>1, <1>3 DEF PromotionInv, Promoting, Au!OneSessionPerPending
<1>7. FailuresInv
  BY <1>1 DEF FailuresInv, Au!SerialFailuresLock
<1>8. RotationInv
  BY <1>1, <1>3 DEF RotationInv, Au!SerialOneTokenPerSession, Au!ActiveTokens
<1>9. HistoryInv
  BY <1>1 DEF HistoryInv, Au!SerialNoReuse
<1>10. LinkInv
  BY <1>1 DEF LinkInv
<1>11. BarredInv /\ TokensOutInv
  BY <1>1 DEF BarredInv, TokensOutInv
<1>12. SessionsOutInv
  <2>1. \A s \in Au!LiveSessions : s \in index /\ sessions[s].until <= indexUntil
    <3>1. indexUntil \in Nat
      BY <1>0 DEF AccountTypes, Au!TypeOK
    <3> QED
      BY <1>3, <3>1 DEF Au!LiveSessions
  <2> QED
    BY <1>1, <2>1 DEF SessionsOutInv
<1> QED
  BY <1>0, <1>4, <1>5, <1>6, <1>7, <1>8, <1>9, <1>10, <1>11, <1>12 DEF AccountInv

(* Every step keeps it. *)
LEMMA AccountStep == AccountInv /\ [Au!Next]_(Au!auth) => AccountInv'
<1> SUFFICES ASSUME AccountInv, [Au!Next]_(Au!auth) PROVE AccountInv'
  OBVIOUS
<1>1. AccountTypes'
  BY AccountTypesStep DEF AccountInv
<1>2. RequestTurns' /\ OpeningInv'
  BY RequestTurnsStep, OpeningStep DEF AccountInv
<1>3. OvershootInv' /\ PromotionInv'
  BY <1>1, OvershootStep, PromotionStep DEF AccountInv
<1>4. FailuresInv' /\ RotationInv' /\ HistoryInv'
  BY FailuresStep, RotationStep, HistoryStep DEF AccountInv
<1>5. LinkInv' /\ BarredInv'
  BY LinkStep, BarredStep DEF AccountInv
<1>6. TokensOutInv' /\ SessionsOutInv'
  BY TokensOutStep, SessionsOutStep DEF AccountInv
<1> QED
  BY <1>1, <1>2, <1>3, <1>4, <1>5, <1>6 DEF AccountInv

(* When no request is under way, nothing barred is left to be revoked. *)
LEMMA RevocationCompletes == AccountInv => Au!SerialRevocationComplete
<1> SUFFICES ASSUME AccountInv, ~overlap, faults = 0, \A h \in Requests : pc[h] \in {"idle", "done"}, Uniform,
                    NEW x \in barred
             PROVE  IF x[1] = "session" THEN ~Au!Live(x[2]) ELSE tokens[x[2]].revoked
  BY DEF Au!SerialRevocationComplete, Uniform, Au!Serial
<1>1. \A h \in Requests : ~RevokesTokens(h) /\ ~EndsSessions(h)
  BY DEF RevokesTokens, EndsSessions
<1>2. CASE \E s \in 1..Len(sessions) : x = <<"session", s>>
  BY <1>1, <1>2 DEF AccountInv, SessionsOutInv, Au!LiveSessions
<1>3. CASE \E t \in 1..Len(tokens) : x = <<"token", t>>
  BY <1>1, <1>3 DEF AccountInv, TokensOutInv
<1> QED
  BY <1>2, <1>3 DEF AccountInv, BarredInv

(* What the properties of the account say follows. *)
LEMMA AccountInvSound == AccountInv => Au!AuthSound
<1> SUFFICES ASSUME AccountInv PROVE Au!AuthSound
  OBVIOUS
<1>1. Au!TypeOK
  BY DEF AccountInv, AccountTypes
<1>2. Au!CapOvershoot
  BY OvershootBounded DEF AccountInv
<1>3. Au!SerialRevocationComplete
  BY RevocationCompletes
<1>4. Au!OneSessionPerPending /\ Au!SerialFailuresLock /\ Au!SerialOneTokenPerSession /\ Au!SerialNoReuse
  BY DEF AccountInv, PromotionInv, FailuresInv, RotationInv, HistoryInv
<1>5. Au!SerialLinkOnce
  BY DEF AccountInv, LinkInv, Au!SerialLinkOnce, Au!Serial
<1> QED
  BY <1>1, <1>2, <1>3, <1>4, <1>5 DEF Au!AuthSound

(* auth.go: for any number of requests, sessions, passwords and links, the  *)
(* cap is overshot by the logins under way at most, a pending second factor *)
(* gives one session, and without overlap revocation is complete, links,    *)
(* tokens and passwords are used once and, if no call fails, failures lock  *)
(* the account. *)
THEOREM AccountKept == AccessSpec => []AccountSound
<1>1. AccessInit => (part = "auth" => AccountInv)
  BY AccountInit DEF AccessInit
<1>2. (part = "auth" => AccountInv) /\ [AccessNext]_all => (part = "auth" => AccountInv)'
  <2> SUFFICES ASSUME part = "auth" => AccountInv, [AccessNext]_all, part' = "auth" PROVE AccountInv'
    OBVIOUS
  <2>1. part = "auth" /\ [Au!Next]_(Au!auth)
    BY DEF AccessNext, all, cache, authOnly, Au!auth, Au!account, Au!secret, Au!redisSessions, Au!redisKeys,
           Au!ghosts, Au!bounds
  <2> QED
    BY <2>1, AccountStep
<1>3. (part = "auth" => AccountInv) => AccountSound
  BY AccountInvSound DEF AccountSound
<1> QED
  BY <1>1, <1>2, <1>3, PTL DEF AccessSpec

(* auth.go: no rotation, however it is interleaved with a revocation, and no *)
(* other step brings a revoked refresh token back. *)
THEOREM TokensStayRevoked == AccessSpec => RevokedStaysRevoked
<1> DEFINE Kept == \A t \in 1..Len(tokens) : tokens[t].revoked => tokens'[t].revoked
<1>1. AccessInit => (part = "auth" => AccountTypes)
  BY AccountTypesInit DEF AccessInit
<1>2. part = "auth" /\ [AccessNext]_all => [Au!Next]_(Au!auth)
  BY DEF AccessNext, all, cache, authOnly, Au!auth, Au!account, Au!secret, Au!redisSessions, Au!redisKeys,
         Au!ghosts, Au!bounds
<1>3. (part = "auth" => AccountTypes) /\ [AccessNext]_all => (part = "auth" => AccountTypes)'
  <2>1. [AccessNext]_all => part' = part
    BY DEF AccessNext, all
  <2> QED
    BY <1>2, <2>1, AccountTypesStep
<1>4. (part = "auth" => AccountTypes) /\ [AccessNext]_all => [Kept]_(Au!auth)
  <2> SUFFICES ASSUME part = "auth" => AccountTypes, [AccessNext]_all PROVE Kept
    OBVIOUS
  <2>1. CASE UNCHANGED tokens
    BY <2>1
  <2>2. CASE part = "auth" /\ ~UNCHANGED tokens
    <3>1. PICK h \in Requests : ClientAct(h)
      BY <1>2, <2>2, WhoSteps, OutsideLeaves DEF Au!auth
    <3> QED
      BY <2>2, <3>1, TokensKept
  <2>3. part # "auth" => UNCHANGED tokens
    BY DEF AccessNext, all, authOnly
  <2> QED
    BY <2>1, <2>2, <2>3
<1> QED
  BY <1>1, <1>3, <1>4, PTL DEF AccessSpec, RevokedStaysRevoked, Au!RevokedStaysRevoked
=============================================================================
