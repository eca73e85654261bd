------------------------------- MODULE AccessRules -------------------------------
(***************************************************************************)
(* Who may do what: the policy engine, the inheritance of roles and the     *)
(* checks on roles and policies (services/core/rbac.go), the predicates of  *)
(* a session (DTO/Redis_auth.go) and the middleware chain in front of a     *)
(* handler (middleware/auth.go, tenant.go, rbac.go, timeout.go).  All of it *)
(* is computed from one question; a behaviour answers one.  Logging, tokens *)
(* and identifiers are left out.                                            *)
(***************************************************************************)
EXTENDS Integers, Sequences, FiniteSets, FiniteSetsExt, Folds, SequencesExt

CONSTANTS
    RoleIds,              \* roles with parents
    MaxInheritanceDepth,  \* maxInheritanceDepth, 5
    Rules,                \* permissions: [resource, action, effect, given]
    Accesses,             \* requests to the engine: [resource, action, given]
    Restaurants,
    Grants,               \* permissions that sessions hold, "resource.action"
    Routes,               \* configured prefixes and paths, sequences of segments
    None

VARIABLES question, answer

access == <<question, answer>>

-----------------------------------------------------------------------------
(* The policy engine. *)

Wild == "*"
Matches(rule, req) ==
    /\ rule.resource \in {Wild, req.resource} /\ rule.action \in {Wild, req.action}
    /\ rule.given \subseteq req.given

(* Mutant: the first rule that matches decides. *)
Step_FirstWins(req, rule, verdict) ==
    IF verdict # "none" \/ ~Matches(rule, req) THEN verdict ELSE rule.effect

(* Evaluate walks the rules in their order; a deny is final. *)
Step(req, rule, verdict) ==
    IF verdict = "deny" \/ ~Matches(rule, req) THEN verdict ELSE rule.effect

Evaluate(req, rules) == FoldLeft(LAMBDA verdict, rule : Step(req, rule, verdict), "none", rules) = "allow"

(* checkPrivilegeEscalation looks at allow rules only, whatever they are    *)
(* conditional on. *)
Assignable(actor, target) ==
    LET allowed == {<<p.resource, p.action>> : p \in {q \in ToSet(actor) : q.effect = "allow"}}
    IN \A p \in ToSet(target) : p.effect = "allow" =>
         {<<p.resource, p.action>>, <<p.resource, Wild>>, <<Wild, Wild>>} \cap allowed # {}

(* resolveRecursive: one map of visited roles is shared by all branches. *)
Seen(walk, visited) == visited

(* Depth first over the walks that are left; None is an error. *)
Resolve(roles, parents, present) ==
    LET visit[todo \in Seq(Seq(RoleIds)), visited \in SUBSET RoleIds] ==
            IF todo = <<>> THEN visited
            ELSE LET walk == Head(todo)
                     role == Last(walk)
                 IN IF \/ Len(walk) > MaxInheritanceDepth + 1
                       \/ role \in Seen(walk, visited)
                       \/ role \notin present
                    THEN None
                    ELSE visit[[i \in 1..Len(parents[role]) |-> Append(walk, parents[role][i])] \o Tail(todo),
                               visited \cup {role}]
    IN visit[[i \in 1..Len(roles) |-> <<roles[i]>>], {}]

-----------------------------------------------------------------------------
(* The predicates of a session. *)

Admins == {"super_admin", "admin"}
Management == Admins \cup {"owner", "manager", "assistant_manager"}
SessionRoles == Management \cup {"inventory_manager", "waiter", "viewer"}

HasPermission(s, p) == s.role = "super_admin" \/ p \in s.permissions
HasAnyPermission(s, ps) == \E p \in ps : HasPermission(s, p)

(* A rule: the permissions of which one is enough, the roles that need      *)
(* none, and those that need none for their own restaurant (branch, tenant). *)
Rule(permissions, always, own) == [permissions |-> permissions, always |-> always, own |-> own]

Owners == {"owner", "manager"}
TenantRules ==
    [manageTenant |-> Rule({"tenant.manage"}, Admins, {}),
     viewTenant |-> Rule({}, {"super_admin"}, SessionRoles),
     createOrganization |-> Rule({"organization.create"}, Admins, {}),
     updateOrganization |-> Rule({"organization.update"}, Admins, {}),
     createBranch |-> Rule({"branch.create"}, Admins, {}),
     updateBranch |-> Rule({"branch.update"}, Admins, Management)]

RestaurantRules ==
    [createRestaurant |-> Rule({"restaurant.create"}, Admins, {}),
     updateRestaurant |-> Rule({"restaurant.update"}, Admins, Owners),
     deleteRestaurant |-> Rule({"restaurant.delete"}, {"super_admin"}, {}),
     viewRestaurant |-> Rule({"restaurant.read"}, Admins, SessionRoles),
     createTable |-> Rule({"table.create"}, Admins, Owners \cup {"assistant_manager"}),
     updateTable |-> Rule({"table.update"}, Admins, Management),
     updateTableStatus |-> Rule({}, Admins, Owners \cup {"assistant_manager", "waiter"}),
     deleteTable |-> Rule({"table.delete"}, Admins, Owners)]

OrderRules ==
    [createOrder |-> Rule({"order.create"}, Admins, SessionRoles),
     updateOrder |-> Rule({"order.update"}, Admins, SessionRoles),
     deleteOrder |-> Rule({"order.delete"}, Admins, Management),
     viewOrder |-> Rule({"order.read"}, Admins, SessionRoles)]

ChangesOf(resource) == {resource \o ".create", resource \o ".update", resource \o ".delete"}
MenuRules ==
    [manageMenu |-> Rule(ChangesOf("menu"), Admins, Owners),
     viewMenu |-> Rule({"menu.read"}, Admins, SessionRoles),
     manageInventory |-> Rule(ChangesOf("inventory"), Admins, Owners \cup {"inventory_manager"})]

UserRules ==
    [manageUsers |-> Rule(ChangesOf("user"), Admins, {}),
     manageRoles |-> Rule(ChangesOf("role"), Admins, {}),
     assignRoles |-> Rule({"role.assign"}, Admins, {}),
     viewReports |-> Rule({"reports.read"}, {}, Management)]

RuleOf == TenantRules @@ RestaurantRules @@ OrderRules @@ MenuRules @@ UserRules

Can(do, s, restaurant) ==
    \/ HasAnyPermission(s, RuleOf[do].permissions)
    \/ s.role \in RuleOf[do].always
    \/ s.restaurant = restaurant /\ s.role \in RuleOf[do].own

(* ReportsAccessCheck. *)
ReportsAccess(s) ==
    \/ HasPermission(s, "reports.read")
    \/ s.role \in Management /\ s.restaurant # None /\ Can("viewReports", s, s.restaurant)

(* RequireAny and RequireAll of composable checks; RequireRole and           *)
(* RequirePermission are RequireAny of one. *)
Check(check, s) ==
    CASE check = "admin" -> s.role \in Admins
      [] check = "management" -> s.role \in Management
      [] check = "reports" -> ReportsAccess(s)
      [] OTHER -> HasPermission(s, check)

RequireAny(checks, s) == \E check \in checks : Check(check, s)
RequireAll(checks, s) == \A check \in checks : Check(check, s)

-----------------------------------------------------------------------------
(* The chain in front of a handler. *)

(* RequireReportsAccess, RequireInventoryAccess and RequireMenuAccess: a    *)
(* request that names no restaurant needs a permission. *)
RequireAccess(do, s, named) ==
    CASE named = None -> IF HasAnyPermission(s, RuleOf[do].permissions) THEN "next" ELSE "forbidden"
      [] named = "malformed" -> "badRequest"
      [] OTHER -> IF Can(do, s, named) THEN "next" ELSE "forbidden"

(* TenantIsolation, with the default configuration: no header is checked. *)
Isolate(s, tenant) ==
    IF tenant = "missing" \/ (tenant = "inactive" /\ s.role # "super_admin") THEN "forbidden" ELSE "next"

(* resolveSession; without Redis there are only the claims of the token,    *)
(* which name a role but no permission and no restaurant. *)
ResolveSession(redis, s) ==
    CASE redis = "none" -> [s EXCEPT !.permissions = {}, !.restaurant = None]
      [] redis \in {"absent", "error", "revoked", "expired"} -> None
      [] OTHER -> s

Serve(q) ==
    LET s == ResolveSession(q.redis, q.session)
    IN IF q.token # "valid" \/ s = None THEN "unauthorized"
       ELSE IF Isolate(s, q.tenant) # "next" THEN "forbidden"
       ELSE RequireAccess(q.do, s, q.named)

(* The most specific configured prefix of a path (resolveTimeout,           *)
(* resolveCacheTTL, resolveRateLimitParams); a map is walked in any order. *)
MostSpecific(prefixes, path) ==
    FoldLeft(LAMBDA best, p : IF IsPrefix(p, path) /\ Len(p) > Len(best) THEN p ELSE best, <<>>, prefixes)

-----------------------------------------------------------------------------
Sessions == [role : SessionRoles, permissions : SUBSET Grants, restaurant : Restaurants \cup {None}]

Evaluations == [ask : {"evaluate"}, req : Accesses, rules : BoundedSeq(Rules, 3)]
Assignments == [ask : {"assign"}, actor : BoundedSeq(Rules, 2), target : BoundedSeq(Rules, 1)]
Hierarchies == [ask : {"resolve"}, roles : {SetToSeq(R) : R \in SUBSET RoleIds},
                parents : [RoleIds -> {SetToSeq(R) : R \in SUBSET RoleIds}], present : SUBSET RoleIds]
Arrivals == [ask : {"serve"}, token : {"valid", "invalid"},
             redis : {"none", "absent", "error", "revoked", "expired", "found"}, session : Sessions,
             tenant : {"active", "inactive", "missing"},
             do : {"viewReports", "manageInventory", "manageMenu"}, named : Restaurants \cup {None, "malformed"}]
Capabilities == [ask : {"can"}, session : Sessions]
Gates == [ask : {"gate"}, session : Sessions, checks : SUBSET ({"admin", "management", "reports"} \cup Grants)]
Lookups == [ask : {"route"}, path : Routes, prefixes : {p \in BoundedSeq(Routes, 3) : IsInjective(p)}]

Init ==
    /\ answer = <<>>
    /\ \/ question \in Evaluations \/ question \in Assignments \/ question \in Hierarchies
       \/ question \in Arrivals \/ question \in Capabilities \/ question \in Gates \/ question \in Lookups

Answer(q) ==
    CASE q.ask = "evaluate" -> Evaluate(q.req, q.rules)
      [] q.ask = "assign"   -> Assignable(q.actor, q.target)
      [] q.ask = "resolve"  -> Resolve(q.roles, q.parents, q.present)
      [] q.ask = "serve"    -> Serve(q)
      [] q.ask = "can"      -> {may \in (DOMAIN RuleOf) \X Restaurants : Can(may[1], q.session, may[2])}
      [] q.ask = "gate"     -> [any |-> RequireAny(q.checks, q.session), all |-> RequireAll(q.checks, q.session)]
      [] q.ask = "route"    -> MostSpecific(q.prefixes, q.path)

Next == /\ answer = <<>>
        /\ answer' = <<Answer(question)>> /\ UNCHANGED question

Spec == Init /\ [][Next]_access

-----------------------------------------------------------------------------
Asked(kind) == answer # <<>> /\ question.ask = kind

(* Whatever the order of the rules, access is granted exactly when some     *)
(* rule that matches allows it and none denies it; and a role that can be   *)
(* assigned allows nothing that no allow rule of the actor covers (his own  *)
(* denies and conditions are not compared). *)
DenyOverrides ==
    /\ Asked("evaluate") =>
         LET hit == {p \in ToSet(question.rules) : Matches(p, question.req)}
         IN answer[1] <=> (\E p \in hit : p.effect = "allow") /\ (\A p \in hit : p.effect # "deny")
    /\ Asked("assign") /\ answer[1] =>
         \A p \in ToSet(question.target), req \in Accesses :
            p.effect = "allow" /\ Matches(p, req) =>
              \E q \in ToSet(question.actor) : q.effect = "allow" /\ Matches([q EXCEPT !.given = {}], req)

(* A hierarchy of roles resolves exactly when every role in it exists, is   *)
(* reached in one way and within the depth: a role inherited along two      *)
(* branches is refused like a circle.  Then every ancestor is collected. *)
InheritanceExact ==
    Asked("resolve") =>
      LET walks[n \in 1..MaxInheritanceDepth + 2] ==
            IF n = 1 THEN {<<r>> : r \in ToSet(question.roles)}
            ELSE UNION {{Append(w, r) : r \in ToSet(question.parents[Last(w)])} : w \in walks[n - 1]}
          all == UNION {walks[n] : n \in 1..MaxInheritanceDepth + 2}
          reached == {Last(w) : w \in all}
          plain == /\ walks[MaxInheritanceDepth + 2] = {} /\ reached \subseteq question.present
                   /\ \A v, w \in all : Last(v) = Last(w) => v = w
      IN answer[1] = IF plain THEN reached ELSE None

(* Without permissions a role's rights nest: who may delete may update, who *)
(* may update may change the status or view; and only admins act on a       *)
(* restaurant that is not theirs. *)
RightsNest ==
    Asked("can") /\ question.session.permissions = {} =>
      LET s == question.session
          nested == {<<"deleteTable", "updateTable">>, <<"createTable", "updateTable">>,
                     <<"updateTable", "updateTableStatus">>, <<"deleteRestaurant", "updateRestaurant">>,
                     <<"updateRestaurant", "viewRestaurant">>, <<"deleteOrder", "updateOrder">>,
                     <<"updateOrder", "viewOrder">>, <<"manageMenu", "viewMenu">>,
                     <<"manageRoles", "assignRoles">>, <<"manageTenant", "createRestaurant">>}
      IN \A r \in Restaurants :
           /\ \A n \in nested : <<n[1], r>> \in answer[1] => <<n[2], r>> \in answer[1]
           /\ \A do \in DOMAIN RuleOf : <<do, r>> \in answer[1] => s.role \in Admins \/ s.restaurant = r

(* A request that reaches a handler has a valid token and a session, its    *)
(* tenant is active unless its user is a super admin, and a user for whom   *)
(* it passes without naming a restaurant passes for each.  The composable   *)
(* reports check agrees with the middleware on one's own restaurant, and no *)
(* check that a session passes is lost by a further permission. *)
ChainSound ==
    /\ Asked("serve") /\ answer[1] = "next" =>
         LET s == ResolveSession(question.redis, question.session)
         IN /\ question.token = "valid" /\ s # None
            /\ question.tenant = "active" \/ (question.tenant = "inactive" /\ s.role = "super_admin")
            /\ question.named = None => \A r \in Restaurants : Serve([question EXCEPT !.named = r]) = "next"
            /\ question.do = "viewReports" /\ question.named \in {None, s.restaurant} => ReportsAccess(s)
    /\ Asked("gate") =>
         LET richer == [question.session EXCEPT !.permissions = Grants]
         IN /\ answer[1].any => RequireAny(question.checks, richer)
            /\ answer[1].all => RequireAll(question.checks, richer)

(* The walk over the map finds the longest prefix, in whatever order. *)
PrefixExact ==
    Asked("route") =>
      LET hits == {p \in ToSet(question.prefixes) : IsPrefix(p, question.path)}
      IN IF hits = {} THEN answer[1] = <<>>
         ELSE answer[1] \in hits /\ \A p \in hits : Len(p) <= Len(answer[1])

RulesSound == DenyOverrides /\ InheritanceExact /\ RightsNest /\ ChainSound /\ PrefixExact
=============================================================================
