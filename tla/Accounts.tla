-------------------------------- MODULE Accounts --------------------------------
(***************************************************************************)
(* How users come to be: AuthService.Register (services/core/auth.go), the  *)
(* Google sign-in (handlers/oauth.go, services/core/oauth.go) with its      *)
(* one-time state, and the device registry, by requests that may overlap.   *)
(* A database or Redis call is a step.  The unique indexes are those of the *)
(* models: (email, tenant), the user name, and the status of a tenant       *)
(* (models/tenant.go:13).  E-mails and audit rows are left out.             *)
(***************************************************************************)
EXTENDS Integers, Sequences, FiniteSets

CONSTANTS
    Handlers,     \* request goroutines
    Emails,       \* a Google account is its address
    Tenants,      \* tenants that registrations name
    States,       \* OAuth states handed out
    Devices,      \* fingerprints of one user's devices
    TrustAfter,   \* logins after which a device is trusted (5)
    MaxRequests,  \* bound on requests begun
    MaxFaults,    \* bound on failed lookups
    Overlaps,     \* whether requests may overlap: the answers to try
    None

VARIABLES
    overlap,
    users,     \* [email, tenant, name, google, deleted]
    signups,   \* tenants made for Google users, whose status is ""
    states,    \* oauth_state keys in Redis
    accepted,  \* per state, how many callbacks it let through
    devices,   \* device_registries: [device, count, trusted]
    logins,    \* per device, how often it was registered or updated
    pc, job, requests, faults

accounts == <<overlap, users, signups, states, accepted, devices, logins, pc, job, requests, faults>>

Names == {<<e, n>> : e \in Emails, n \in 0..MaxRequests + 1}
(* What the constants must be. *)
AccountsAssumption ==
    /\ IsFiniteSet(Handlers) /\ Overlaps \subseteq BOOLEAN
    /\ MaxRequests \in Nat /\ MaxFaults \in Nat /\ TrustAfter \in Nat

NoJob == [email |-> None, tenant |-> None, name |-> None, row |-> 0, copy |-> None]

Init ==
    /\ overlap \in Overlaps
    /\ users = <<>> /\ signups = 0
    /\ states = {} /\ accepted = [s \in States |-> 0]
    /\ devices = <<>> /\ logins = [d \in Devices |-> 0]
    /\ pc = [h \in Handlers |-> "idle"] /\ job = [h \in Handlers |-> NoJob]
    /\ requests = 0 /\ faults = 0

Start(h) ==
    /\ pc[h] = "idle" /\ (overlap \/ \A g \in Handlers : pc[g] = "idle")
    /\ requests < MaxRequests /\ requests' = requests + 1
Goto(h, step) == pc' = [pc EXCEPT ![h] = step]
Return(h) == Goto(h, "idle") /\ job' = [job EXCEPT ![h] = NoJob]
Continue(h, step, j) == Goto(h, step) /\ job' = [job EXCEPT ![h] = j]

(* A lookup that fails is taken for one that finds nothing. *)
NotFound(found) ==
    \/ ~found /\ UNCHANGED faults
    \/ faults < MaxFaults /\ faults' = faults + 1

WithEmail(e) == {n \in DOMAIN users : users[n].email = e}
Present(e) == {n \in WithEmail(e) : ~users[n].deleted}

(* What the unique indexes refuse. *)
Refused(u) == \E n \in DOMAIN users :
    users[n].name = u.name \/ (users[n].email = u.email /\ users[n].tenant = u.tenant)

NewUser(email, tenant, name, google) ==
    [email |-> email, tenant |-> tenant, name |-> name, google |-> google, deleted |-> FALSE]

-----------------------------------------------------------------------------
(* Register: an address known to any tenant is refused, deleted users'      *)
(* included; then the user and his first password are inserted in one       *)
(* transaction. *)
RegisterLookup(h, e, t, name) ==
    /\ Start(h) /\ NotFound(WithEmail(e) # {})
    /\ Continue(h, "register", [NoJob EXCEPT !.email = e, !.tenant = t, !.name = name])
    /\ UNCHANGED <<overlap, users, signups, states, accepted, devices, logins>>

RegisterInsert(h) ==
    LET u == NewUser(job[h].email, job[h].tenant, job[h].name, FALSE)
    IN /\ pc[h] = "register"
       /\ users' = IF Refused(u) THEN users ELSE Append(users, u)
       /\ Return(h)
       /\ UNCHANGED <<overlap, signups, states, accepted, devices, logins, requests, faults>>

(* UserHandler.Delete marks the row. *)
DeleteUser(h, n) ==
    /\ Start(h) /\ ~users[n].deleted
    /\ users' = [users EXCEPT ![n].deleted = TRUE]
    /\ UNCHANGED <<overlap, signups, states, accepted, devices, logins, pc, job, faults>>

-----------------------------------------------------------------------------
(* GoogleLogin hands out a state, which the callback looks up ... *)
GoogleLogin(h, s) ==
    /\ Start(h) /\ s \notin states /\ accepted[s] = 0
    /\ states' = states \cup {s}
    /\ UNCHANGED <<overlap, users, signups, accepted, devices, logins, pc, job, faults>>

Callback(h, s, e) ==
    /\ Start(h) /\ s \in states
    /\ accepted' = [accepted EXCEPT ![s] = @ + 1]
    /\ Continue(h, "delete", [NoJob EXCEPT !.email = e, !.copy = s])
    /\ UNCHANGED <<overlap, users, signups, states, devices, logins, faults>>

(* Mutant: the state stays until it expires. *)
DeleteState_Kept(h) ==
    /\ pc[h] = "delete"
    /\ Continue(h, "byGoogle", job[h])
    /\ UNCHANGED <<overlap, users, signups, states, accepted, devices, logins, requests, faults>>

(* ... and deletes. *)
DeleteState(h) ==
    /\ pc[h] = "delete"
    /\ states' = states \ {job[h].copy}
    /\ Continue(h, "byGoogle", job[h])
    /\ UNCHANGED <<overlap, users, signups, accepted, devices, logins, requests, faults>>

(* findOrCreateGoogleUser: by the Google id, by the address, a new one. *)
ByGoogleId(h) ==
    LET linked == \E n \in Present(job[h].email) : users[n].google
    IN /\ pc[h] = "byGoogle"
       /\ \/ linked /\ Return(h) /\ UNCHANGED faults
          \/ NotFound(linked) /\ Continue(h, "byEmail", job[h])
       /\ UNCHANGED <<overlap, users, signups, states, accepted, devices, logins, requests>>

ByEmail(h) ==
    /\ pc[h] = "byEmail"
    /\ \/ /\ \E n \in Present(job[h].email) : Continue(h, "link", [job[h] EXCEPT !.row = n])
          /\ UNCHANGED faults
       \/ NotFound(Present(job[h].email) # {}) /\ Continue(h, "tenant", job[h])
    /\ UNCHANGED <<overlap, users, signups, states, accepted, devices, logins, requests>>

Link(h) ==
    /\ pc[h] = "link"
    /\ users' = [users EXCEPT ![job[h].row].google = TRUE]
    /\ Return(h)
    /\ UNCHANGED <<overlap, signups, states, accepted, devices, logins, requests, faults>>

(* The new user gets a tenant with no status: the index on the status       *)
(* allows one such tenant in the whole database. *)
CreateTenant(h) ==
    /\ pc[h] = "tenant"
    /\ IF signups > 0 THEN Return(h) /\ UNCHANGED signups
       ELSE signups' = signups + 1 /\ Continue(h, "name", job[h])
    /\ UNCHANGED <<overlap, users, states, accepted, devices, logins, requests, faults>>

(* generateUsername: the part before the @, numbered if it is in use. *)
GenerateUsername(h) ==
    LET e == job[h].email
        taken == Cardinality({n \in DOMAIN users : users[n].name[1] = e})
    IN /\ pc[h] = "name"
       /\ Continue(h, "create", [job[h] EXCEPT !.name = <<e, IF taken = 0 THEN 0 ELSE taken + 1>>])
       /\ UNCHANGED <<overlap, users, signups, states, accepted, devices, logins, requests, faults>>

(* A refused user leaves the tenant behind. *)
CreateGoogleUser(h) ==
    LET u == NewUser(job[h].email, "signup", job[h].name, TRUE)
    IN /\ pc[h] = "create"
       /\ users' = IF Refused(u) THEN users ELSE Append(users, u)
       /\ Return(h)
       /\ UNCHANGED <<overlap, signups, states, accepted, devices, logins, requests, faults>>

-----------------------------------------------------------------------------
(* RegisterOrUpdateDevice: the row of the fingerprint is saved from a copy. *)
DeviceLookup(h, d) ==
    LET rows == {n \in DOMAIN devices : devices[n].device = d}
    IN /\ Start(h)
       /\ \/ /\ NotFound(rows # {})
             /\ Continue(h, "device", [NoJob EXCEPT !.copy = [device |-> d, count |-> 0, trusted |-> FALSE]])
          \/ /\ \E n \in rows : Continue(h, "device", [NoJob EXCEPT !.row = n, !.copy = devices[n]])
             /\ UNCHANGED faults
       /\ UNCHANGED <<overlap, users, signups, states, accepted, devices, logins>>

Updated(d) == [d EXCEPT !.count = @ + 1, !.trusted = @ \/ d.count >= TrustAfter]

DeviceSave(h) ==
    /\ pc[h] = "device"
    /\ devices' = IF job[h].row = 0 THEN Append(devices, job[h].copy)
                  ELSE [devices EXCEPT ![job[h].row] = Updated(job[h].copy)]
    /\ logins' = [logins EXCEPT ![job[h].copy.device] = @ + 1]
    /\ Return(h)
    /\ UNCHANGED <<overlap, users, signups, states, accepted, requests, faults>>

Next ==
    \E h \in Handlers :
      \/ \E e \in Emails, t \in Tenants, name \in {<<f, n>> : f \in Emails, n \in {0, 2}} : RegisterLookup(h, e, t, name)
      \/ \E n \in DOMAIN users : DeleteUser(h, n)
      \/ \E s \in States : GoogleLogin(h, s) \/ \E e \in Emails : Callback(h, s, e)
      \/ RegisterInsert(h) \/ DeleteState(h) \/ ByGoogleId(h) \/ ByEmail(h) \/ Link(h)
      \/ CreateTenant(h) \/ GenerateUsername(h) \/ CreateGoogleUser(h)
      \/ \E d \in Devices : DeviceLookup(h, d)
      \/ DeviceSave(h)

Spec == Init /\ [][Next]_accounts

-----------------------------------------------------------------------------
(* Types. *)
TypeOK ==
    /\ \A n \in DOMAIN users :
         users[n] \in [email : Emails, tenant : Tenants \cup {"signup"}, name : Names, google : BOOLEAN, deleted : BOOLEAN]
    /\ signups \in 0..1 /\ states \subseteq States
    /\ \A n \in DOMAIN devices : devices[n].device \in Devices /\ devices[n].count \in Nat
    /\ requests \in 0..MaxRequests /\ faults \in 0..MaxFaults

(* Login looks a user up by address, whatever the tenant: without overlap   *)
(* at most one user who is not deleted has it; requests that overlap can    *)
(* add one each, and so can a failed lookup, but never a second in a        *)
(* tenant. *)
AddressesWithinHandlers ==
    \A e \in Emails :
        /\ Cardinality(Present(e)) <= faults + IF overlap THEN Cardinality(Handlers) ELSE 1
        /\ \A m, n \in WithEmail(e) : m # n => users[m].tenant # users[n].tenant

(* The OAuth state is read and then deleted: one callback passes with it,   *)
(* or as many as stand between the two steps. *)
StatesWithinHandlers ==
    \A s \in States : accepted[s] <= IF overlap THEN Cardinality(Handlers) ELSE 1

(* However logins from one device overlap, it is not trusted before it has  *)
(* been seen TrustAfter + 2 times: lost updates only delay the trust. *)
TrustEarned ==
    \A n \in DOMAIN devices :
        /\ devices[n].trusted => logins[devices[n].device] >= TrustAfter + 2
        /\ devices[n].count < logins[devices[n].device]

AccountsSound == TypeOK /\ AddressesWithinHandlers /\ StatesWithinHandlers /\ TrustEarned
=============================================================================
