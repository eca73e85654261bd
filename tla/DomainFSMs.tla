------------------------------ MODULE DomainFSMs ------------------------------
(***************************************************************************)
(* The domain machines of backend/utils/FSM.go, each as a record of its    *)
(* declared states, transition index and terminal states.  Every effect of *)
(* these definitions sets the entity's status to the target state and      *)
(* returns nil, so a Send that passes its guards always commits.           *)
(***************************************************************************)
EXTENDS FSMDefinition, Integers

(* A definition: its State() calls, the initial and terminal ones among     *)
(* them, its Transition() calls, and the transitions that carry a Guard.   *)
Definition(initial, states, terminal, trans, guarded) ==
    [initial |-> initial, states |-> states, terminal |-> terminal,
     trans |-> trans, guarded |-> guarded]

(* One event from each of a set of states to the same target. *)
FromEach(froms, e, to) == {<<s, e, to>> : s \in froms}

OrderFSM ==
    Definition("pending",
        {"pending", "confirmed", "preparing", "ready", "served",
         "cancelled", "refunded"},
        {"cancelled", "refunded"},
        {<<"pending", "confirm", "confirmed">>, <<"confirmed", "prepare", "preparing">>,
         <<"preparing", "ready", "ready">>, <<"ready", "serve", "served">>,
         <<"served", "refund", "refunded">>}
        \cup FromEach({"pending", "confirmed", "preparing", "ready"}, "cancel", "cancelled"),
        {<<"pending", "confirm", "confirmed">>})

KOTFSM ==
    Definition("sent",
        {"sent", "in_progress", "completed", "cancelled"},
        {"completed", "cancelled"},
        {<<"sent", "start", "in_progress">>, <<"in_progress", "complete", "completed">>}
        \cup FromEach({"sent", "in_progress"}, "cancel", "cancelled"),
        {<<"in_progress", "cancel", "cancelled">>})

TableFSM ==
    Definition("available",
        {"available", "occupied", "reserved", "cleaning", "out_of_service"},
        {"out_of_service"},
        {<<"available", "seat", "occupied">>, <<"available", "reserve", "reserved">>,
         <<"reserved", "arrive", "occupied">>, <<"occupied", "release", "cleaning">>,
         <<"cleaning", "clean", "available">>}
        \cup FromEach({"available", "occupied", "reserved", "cleaning"}, "disable", "out_of_service"),
        {})

SubscriptionFSM ==
    Definition("trialing",
        {"trialing", "active", "past_due", "suspended", "cancelled",
         "expired"},
        {"cancelled", "expired"},
        {<<"trialing", "activate", "active">>, <<"active", "pay_fail", "past_due">>,
         <<"past_due", "pay_ok", "active">>, <<"past_due", "suspend", "suspended">>,
         <<"suspended", "reactivate", "active">>, <<"active", "expire", "expired">>}
        \cup FromEach({"trialing", "active", "past_due", "suspended"}, "cancel", "cancelled"),
        {<<"active", "expire", "expired">>})

UserAccountFSM ==
    Definition("pending_verification",
        {"pending_verification", "active", "locked", "must_change_password", "suspended",
         "deactivated"},
        {"deactivated"},
        {<<"pending_verification", "verify_email", "active">>, <<"active", "lock", "locked">>,
         <<"locked", "unlock", "active">>, <<"active", "force_pw_change", "must_change_password">>,
         <<"must_change_password", "password_changed", "active">>, <<"active", "suspend", "suspended">>,
         <<"suspended", "reactivate", "active">>}
        \cup FromEach({"active", "locked", "suspended"}, "deactivate", "deactivated"),
        {})

PurchaseOrderFSM ==
    Definition("draft",
        {"draft", "submitted", "approved", "partially_received", "received",
         "cancelled"},
        {"received", "cancelled"},
        {<<"draft", "submit", "submitted">>, <<"submitted", "approve", "approved">>,
         <<"approved", "receive_partial", "partially_received">>}
        \cup FromEach({"approved", "partially_received"}, "receive_full", "received")
        \cup FromEach({"draft", "submitted"}, "cancel", "cancelled"),
        {<<"draft", "submit", "submitted">>})

PaymentFSM ==
    Definition("pending_qr",
        {"pending_qr", "awaiting_confirm", "confirmed", "failed", "refunded"},
        {"failed", "refunded"},
        {<<"pending_qr", "qr_scanned", "awaiting_confirm">>, <<"awaiting_confirm", "payment_received", "confirmed">>,
         <<"pending_qr", "expire", "failed">>, <<"confirmed", "refund", "refunded">>}
        \cup FromEach({"pending_qr", "awaiting_confirm"}, "fail", "failed"),
        {<<"confirmed", "refund", "refunded">>})

InventoryItemFSM ==
    Definition("active",
        {"active", "low_stock", "out_of_stock", "discontinued"},
        {"discontinued"},
        {<<"active", "stock_low", "low_stock">>, <<"out_of_stock", "stock_low", "low_stock">>}
        \cup FromEach({"active", "low_stock"}, "stock_depleted", "out_of_stock")
        \cup FromEach({"low_stock", "out_of_stock"}, "stock_replenished", "active")
        \cup FromEach({"active", "low_stock", "out_of_stock"}, "discontinue", "discontinued"),
        {<<"active", "stock_low", "low_stock">>, <<"out_of_stock", "stock_low", "low_stock">>,
         <<"active", "stock_depleted", "out_of_stock">>, <<"low_stock", "stock_depleted", "out_of_stock">>,
         <<"low_stock", "stock_replenished", "active">>, <<"out_of_stock", "stock_replenished", "active">>})

AnalyticsPipelineFSM ==
    Definition("idle",
        {"idle", "collecting", "aggregating", "enriching", "delivering",
         "completed", "failed"},
        {"completed", "failed"},
        {<<"idle", "start_collect", "collecting">>, <<"collecting", "collected", "aggregating">>,
         <<"aggregating", "aggregated", "enriching">>, <<"enriching", "enriched", "delivering">>,
         <<"delivering", "delivered", "completed">>}
        \cup FromEach({"collecting", "aggregating", "enriching", "delivering"}, "fail", "failed"),
        {<<"collecting", "collected", "aggregating">>})

ForecastPipelineFSM ==
    Definition("idle",
        {"idle", "ingesting", "feature_engineering", "model_training", "scoring",
         "post_processing", "publishing", "completed", "failed"},
        {"completed", "failed"},
        {<<"idle", "start_ingest", "ingesting">>, <<"ingesting", "ingested", "feature_engineering">>,
         <<"feature_engineering", "features_ready", "model_training">>, <<"model_training", "model_trained", "scoring">>,
         <<"scoring", "scored", "post_processing">>, <<"post_processing", "post_processed", "publishing">>,
         <<"publishing", "published", "completed">>}
        \cup FromEach({"ingesting", "feature_engineering", "model_training", "scoring",
                       "post_processing", "publishing"}, "fail", "failed"),
        {<<"ingesting", "ingested", "feature_engineering">>, <<"model_training", "model_trained", "scoring">>})

Machines ==
    [order |-> OrderFSM, kot |-> KOTFSM, table |-> TableFSM,
     subscription |-> SubscriptionFSM, user |-> UserAccountFSM,
     purchase_order |-> PurchaseOrderFSM, payment |-> PaymentFSM,
     inventory |-> InventoryItemFSM, analytics |-> AnalyticsPipelineFSM,
     forecast |-> ForecastPipelineFSM]

(* Restore(obj, s) followed by Send(e), guards aside: whether an event is   *)
(* accepted in state s, and the status the entity then carries.            *)
Can(fsm, s, e) == s \notin fsm.terminal /\ CanTransition(fsm.trans, s, e)

(* Mutant: the entity is given the event's name instead of the target. *)
Target_Event(fsm, s, e) == Lookup(fsm.trans, s, e)[2]

Target(fsm, s, e) == Lookup(fsm.trans, s, e)[3]
=============================================================================
