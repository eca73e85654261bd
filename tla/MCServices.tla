------------------------------ MODULE MCServices ------------------------------
(***************************************************************************)
(* A small instance of Services.                                            *)
(***************************************************************************)
EXTENDS Services, TLC

CONSTANTS h1, h2, v1, v2

Symmetry == Permutations({h1, h2}) \cup Permutations({v1, v2})

(* Requests for the menu: three that overlap around one item's bands, and   *)
(* two of any kind that take turns. *)
KindsTried ==
    TRUE :> {"createPricing", "deleteItem"} @@
    FALSE :> {"get", "getFull", "createCategory", "updateCategory", "deleteCategory", "reorder", "createItem",
              "updateItem", "availability", "deleteItem", "createPricing", "createModifier", "updateModifier"}
WritesTried == TRUE :> 3 @@ FALSE :> 2

(* Prices and rates that do not divide, a line with modifiers, and flags    *)
(* that send a line to each of the rates. *)
ProfilesTried == {[service |-> 10, inclusive |-> FALSE, standard |-> 13, alcohol |-> 20],
                  [service |-> 0, inclusive |-> TRUE, standard |-> 7, alcohol |-> 20]}
ValuesTried == [setting \in {"tax_enabled", "takeaway_tax_rate", "service_charge_before_tax"} |->
                  IF setting = "takeaway_tax_rate" THEN {5} ELSE {FALSE}]
BillsTried ==
    {[kind |-> "takeaway",
      items |-> <<[price |-> 333, extra |-> 50, quantity |-> 2, flags |-> {"takeaway_eligible"}],
                  [price |-> 101, extra |-> 0, quantity |-> 1, flags |-> {"alcohol", "tax_exempt"}]>>],
     [kind |-> "dine-in",
      items |-> <<[price |-> 777, extra |-> 0, quantity |-> 3, flags |-> {"tax_exempt"}],
                  [price |-> 49, extra |-> 1, quantity |-> 3, flags |-> {"takeaway_eligible"}]>>]}

(* All reports; figures that do and do not divide; entries of every risk.    *)
ReportsTried == {"overview", "trend", "category", "volume", "status", "peak", "top", "turnover", "wastage",
                 "demand", "revenue", "reorder"}
AmountsTried == {0, 1, 2, 3, 7, 40}
LevelsTried == {-13, 0, 4, 25}

Recorded(kind, entity, risk, severity, anomalous, user, given, direct) ==
    [event |-> kind, entity |-> entity, risk |-> risk, severity |-> severity, anomalous |-> anomalous, user |-> user,
     given |-> given, direct |-> direct]
EventsTried == {Recorded("data_export", "User", "medium", "info", FALSE, "u", {"review"}, FALSE),
                Recorded("security_event", "User", "critical", "critical", TRUE, "u", {}, FALSE),
                Recorded("update", "User", "high", "info", FALSE, "v", {}, FALSE),
                Recorded("payment_processed", "Payment", "low", "info", FALSE, "u", {"pci"}, TRUE)}

(* The windows of the user and of his tenant.                               *)
LimitsTried == [window \in {"user", "tenant"} |-> IF window = "user" THEN 2 ELSE 1]

(* Policies with wildcards and conditions, and chains of handlers.          *)
RulesTried == [resource : {"order", "*"}, action : {"read", "*"}, effect : {"allow", "deny"}, given : {{}, {"branch"}}]
AccessesTried == [resource : {"order", "menu"}, action : {"read", "update"}, given : {{}, {"branch"}}]
RoutesTried == {<<>>, <<"a">>, <<"a", "b">>, <<"a", "b", "c">>, <<"c">>}

RolesTried == <<"superadmin", "cashier", "waiter">>
=============================================================================
