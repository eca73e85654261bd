--------------------------------- MODULE Taxes ---------------------------------
(***************************************************************************)
(* The pricing of an order (services/business/Taxes.go) from the            *)
(* configuration of its restaurant, read through Redis                      *)
(* (services/business/settings.go).  Every read of the configuration is a   *)
(* step, and a miss is a read of the database followed by a write of the    *)
(* cache.  Owners change the configuration meanwhile.  Amounts are whole    *)
(* cents and rates whole percents; the rounding noise of floating point and *)
(* the label of the tax are left out.                                       *)
(***************************************************************************)
EXTENDS Integers, Sequences, Functions

CONSTANTS
    Orders,
    Bills,           \* bills to price: [kind, items], items [price, extra, quantity, flags]
    Profiles,        \* restaurant profiles: [service, inclusive, standard, alcohol]
    Values,          \* per key, the values a setting is given
    ProfileTTL, SettingTTL,
    MaxTime, MaxWrites, MaxFaults,   \* bounds on the clock, on changes and on failed calls
    None

Keys == {"tax_enabled", "takeaway_tax_rate", "service_charge_before_tax"}
Cached == Keys \cup {"profile"}
TTL(k) == IF k = "profile" THEN ProfileTTL ELSE SettingTTL

VARIABLES
    inForce,    \* per key, what the database says: the profile, a value or None
    cache,      \* per key, None or [value, until]
    changed,    \* per key, when it last changed
    time, writes, faults,
    order,      \* per order: [pc, key, read, first, conf, bill, apart, last]
    priced      \* per order, None or its breakdown

taxes == <<inForce, cache, changed, time, writes, faults, order, priced>>

-----------------------------------------------------------------------------
(* The computation. *)

(* DetermineTaxCategory. *)
Category(flags) ==
    IF "alcohol" \in flags THEN "alcohol"
    ELSE IF "tax_exempt" \in flags THEN "exempt"
    ELSE IF "takeaway_eligible" \in flags THEN "takeaway" ELSE "standard"

(* Mutant: the charge for modifiers is added once, not per portion. *)
Line_ModifiersOnce(item) == item.price * item.quantity + item.extra

Line(item) == (item.price + item.extra) * item.quantity

Total(F(_), items) == SumFunction([i \in DOMAIN items |-> F(items[i])])
Subtotal(items) == Total(Line, items)

(* The rates on top of a price, and those within it. *)
RateOf(conf, kind, category) ==
    CASE category = "alcohol" -> conf.alcohol
      [] category = "exempt" -> 0
      [] category = "takeaway" /\ kind \in {"takeaway", "delivery"} -> conf.takeaway
      [] OTHER -> conf.standard

RateWithin(conf, category) ==
    CASE category = "alcohol" -> conf.alcohol [] category = "exempt" -> 0 [] OTHER -> conf.standard

(* Half a cent is rounded up. *)
Rounded(n, d) == (2 * n + d) \div (2 * d)

OfAlcohol(items) == SelectSeq(items, LAMBDA i : Category(i.flags) = "alcohol")
OfOthers(items) == SelectSeq(items, LAMBDA i : Category(i.flags) # "alcohol")

Breakdown(subtotal, service, taxable, standard, alcohol, tax, grand) ==
    [subtotal |-> subtotal, service |-> service, taxable |-> taxable, standard |-> standard,
     alcohol |-> alcohol, tax |-> tax, grand |-> grand]

(* extractIncludedTax: a price is its base and the tax on it. *)
ExtractIncludedTax(conf, items) ==
    LET d == (100 + conf.standard) * (100 + conf.alcohol)
        Within(i) == LET r == RateWithin(conf, Category(i.flags)) IN Line(i) * r * (d \div (100 + r))
        tax == Rounded(Total(Within, items), d)
    IN Breakdown(Subtotal(items), 0, Subtotal(items) - tax, Rounded(Total(Within, OfOthers(items)), d),
                 Rounded(Total(Within, OfAlcohol(items)), d), tax, Subtotal(items))

(* CalculateTax from step 4 on, in hundredths of a hundredth of a cent. *)
TaxOnTop(conf, kind, items, service) ==
    LET On(i) == Line(i) * RateOf(conf, kind, Category(i.flags)) * 100
        charge == Subtotal(items) * service
        onCharge == IF conf.before THEN charge * conf.standard ELSE 0
        tax == Rounded(Total(On, items) + onCharge, 10000)
    IN Breakdown(Subtotal(items), Rounded(charge, 100),
                 IF conf.before THEN Subtotal(items) + Rounded(charge, 100) ELSE Subtotal(items),
                 Rounded(Total(On, OfOthers(items)) + onCharge, 10000),
                 Rounded(Total(On, OfAlcohol(items)), 10000), tax,
                 Rounded((Subtotal(items) + tax) * 100 + (IF conf.before THEN 0 ELSE charge), 100))

CalculateTax(conf, bill, service) ==
    IF conf.inclusive THEN ExtractIncludedTax(conf, bill.items)
    ELSE IF ~conf.enabled THEN Breakdown(Subtotal(bill.items), 0, Subtotal(bill.items), 0, 0, 0, Subtotal(bill.items))
    ELSE TaxOnTop(conf, bill.kind, bill.items, service)

-----------------------------------------------------------------------------
(* The configuration. *)

Idle == [pc |-> "idle", key |-> None, read |-> None, first |-> None, conf |-> None,
         bill |-> None, apart |-> TRUE, last |-> None]

Init ==
    /\ inForce \in {[k \in Cached |-> IF k = "profile" THEN p ELSE None] : p \in Profiles}
    /\ cache = [k \in Cached |-> None] /\ changed = [k \in Cached |-> 0]
    /\ time = 0 /\ writes = 0 /\ faults = 0
    /\ order = [o \in Orders |-> Idle] /\ priced = [o \in Orders |-> None]

Live(k) == cache[k] # None /\ time <= cache[k].until

(* What happens outside an order spoils the serial reading of those that    *)
(* are under way. *)
Disturbed == [o \in Orders |-> [order[o] EXCEPT !.apart = FALSE]]

(* The order goes on with value v for the key it asked for; GetBool and     *)
(* GetFloat turn a missing setting into an error, and the caller an error   *)
(* into a default. *)
Took(o, v) ==
    LET r == order[o]
        Next(pc, key, conf) == [r EXCEPT !.pc = pc, !.key = key, !.conf = conf, !.read = None,
                                        !.last = [key |-> r.key, value |-> v, at |-> time]]
        Default(d) == IF v = None THEN d ELSE v
    IN CASE r.pc = "load" -> [Next("profile", "profile", None) EXCEPT !.first = v]
         [] r.pc = "profile" ->
              Next("enabled", "tax_enabled", [inclusive |-> v.inclusive, standard |-> v.standard, alcohol |-> v.alcohol,
                                              takeaway |-> v.standard, enabled |-> TRUE, before |-> TRUE])
         [] r.pc = "enabled" -> Next("takeaway", "takeaway_tax_rate", [r.conf EXCEPT !.enabled = Default(TRUE)])
         [] r.pc = "takeaway" ->
              Next("before", "service_charge_before_tax", [r.conf EXCEPT !.takeaway = Default(r.conf.standard)])
         [] r.pc = "before" -> Next("price", None, [r.conf EXCEPT !.before = Default(TRUE)])

Begin(o) ==
    /\ order[o].pc = "idle"
    /\ order' = [order EXCEPT ![o] = [Idle EXCEPT !.pc = "load", !.key = "profile"]]
    /\ UNCHANGED <<inForce, cache, changed, time, writes, faults, priced>>

(* GetRestaurantProfile and GetSetting: the cache, or else the database; a  *)
(* failing Redis is a miss. *)
Get(o) ==
    LET k == order[o].key
    IN /\ k # None /\ order[o].read = None
       /\ IF Live(k) THEN order' = [order EXCEPT ![o] = Took(o, cache[k].value)]
          ELSE order' = [order EXCEPT ![o].read = [value |-> inForce[k]]]
       /\ UNCHANGED <<inForce, cache, changed, time, writes, faults, priced>>

(* The write of the cache may fail unnoticed; a setting that is not found   *)
(* is not written. *)
Fill(o) ==
    LET k == order[o].key IN LET v == order[o].read.value
    IN /\ order[o].read # None
       /\ order' = [Disturbed EXCEPT ![o] = Took(o, v)]
       /\ \/ /\ cache' = IF v = None THEN cache ELSE [cache EXCEPT ![k] = [value |-> v, until |-> time + TTL(k)]]
             /\ UNCHANGED faults
          \/ faults < MaxFaults /\ faults' = faults + 1 /\ UNCHANGED cache
       /\ UNCHANGED <<inForce, changed, time, writes, priced>>

(* A failing read of the profile fails the order; one of a setting is taken *)
(* for a setting that does not exist. *)
GetFails(o) ==
    LET k == order[o].key
    IN /\ k # None /\ order[o].read = None /\ ~Live(k) /\ faults < MaxFaults
       /\ faults' = faults + 1
       /\ IF k = "profile"
          THEN order' = [order EXCEPT ![o] = [Idle EXCEPT !.pc = "done"]]
          ELSE order' = [order EXCEPT ![o] = [Took(o, None) EXCEPT !.apart = FALSE]]
       /\ UNCHANGED <<inForce, cache, changed, time, writes, priced>>

(* What is ordered plays no part until now. *)
Price(o) ==
    /\ order[o].pc = "price"
    /\ \E b \in Bills :
         /\ priced' = [priced EXCEPT ![o] = CalculateTax(order[o].conf, b, order[o].first.service)]
         /\ order' = [order EXCEPT ![o].pc = "done", ![o].bill = b]
    /\ UNCHANGED <<inForce, cache, changed, time, writes, faults>>

(* The owner changes the profile or a setting (outside this code); nothing  *)
(* here takes the key out of the cache, and who changes a profile may call  *)
(* InvalidateProfileCache then, or not. *)
Change(k) ==
    /\ writes < MaxWrites /\ writes' = writes + 1
    /\ \E v \in (IF k = "profile" THEN Profiles ELSE Values[k]) \ {inForce[k]} : inForce' = [inForce EXCEPT ![k] = v]
    /\ changed' = [changed EXCEPT ![k] = time]
    /\ order' = Disturbed /\ UNCHANGED <<cache, time, faults, priced>>

InvalidateProfileCache ==
    /\ writes > 0 /\ cache["profile"] # None
    /\ cache' = [cache EXCEPT !["profile"] = None]
    /\ order' = Disturbed /\ UNCHANGED <<inForce, changed, time, writes, faults, priced>>

(* A unit of time is long against the filling of a cache. *)
Tick ==
    /\ time < MaxTime /\ \A o \in Orders : order[o].read = None
    /\ time' = time + 1
    /\ order' = Disturbed /\ UNCHANGED <<inForce, cache, changed, writes, faults, priced>>

Next ==
    \/ \E o \in Orders : Begin(o) \/ Get(o) \/ Fill(o) \/ GetFails(o) \/ Price(o)
    \/ \E k \in Cached : Change(k)
    \/ InvalidateProfileCache \/ Tick

Spec == Init /\ [][Next]_taxes

-----------------------------------------------------------------------------
Types ==
    /\ \A k \in Keys : inForce[k] \in Values[k] \cup {None}
    /\ inForce["profile"] \in Profiles
    /\ \A o \in Orders : order[o].pc \in {"idle", "load", "profile", "enabled", "takeaway", "before", "price", "done"}

(* The bill adds up, whatever the configuration: the guest is never charged *)
(* less than the lines, the taxes by category are the tax but for a cent,   *)
(* an inclusive price contains its tax, and only a charge that comes after  *)
(* the tax is part of the total. *)
BillAddsUp ==
    \A o \in Orders : priced[o] # None =>
      LET b == priced[o]
          conf == order[o].conf
          items == order[o].bill.items
          lines == SumFunction([i \in DOMAIN items |-> items[i].quantity * (items[i].price + items[i].extra)])
      IN /\ b.subtotal = lines /\ b.grand >= lines /\ b.tax >= 0
         /\ b.standard + b.alcohol - b.tax \in -1..1
         /\ conf.inclusive => b.grand = lines /\ b.taxable + b.tax = lines
         /\ ~conf.inclusive => b.grand = b.subtotal + b.tax + (IF conf.enabled /\ ~conf.before THEN b.service ELSE 0)
         /\ ~conf.inclusive /\ ~conf.enabled => b.tax = 0

(* A value other than the one in force is used only within the time to live *)
(* after the key's last change: caches are filled from the past, but never  *)
(* from before the last change for longer. *)
StaleWithinTTL ==
    \A o \in Orders : order[o].last # None =>
      LET l == order[o].last
      IN l.at = time /\ l.value # inForce[l.key] => faults > 0 \/ time <= changed[l.key] + TTL(l.key)

(* An order that nothing disturbed while it was priced uses one profile for *)
(* its charge and its rates; a change, an expiry or a failed call between   *)
(* the two reads can split them. *)
SerialOneProfile ==
    \A o \in Orders : order[o].apart /\ order[o].conf # None =>
      LET r == order[o]
      IN [r.conf EXCEPT !.takeaway = 0, !.enabled = TRUE, !.before = TRUE] =
           [inclusive |-> r.first.inclusive, standard |-> r.first.standard, alcohol |-> r.first.alcohol,
            takeaway |-> 0, enabled |-> TRUE, before |-> TRUE]

TaxesSound == Types /\ BillAddsUp /\ StaleWithinTTL /\ SerialOneProfile
=============================================================================
