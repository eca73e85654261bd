---------------------------------- MODULE Menu ----------------------------------
(***************************************************************************)
(* MenuService (services/business/Menu.go): categories, items, modifiers    *)
(* and price bands of one restaurant, with a Redis copy of each row, of the *)
(* active price and of the assembled menu, by requests that may overlap.    *)
(*                                                                         *)
(* A database or Redis call is a step.  A request is taken to have passed   *)
(* Require and to name rows of its own restaurant: one that does not ends   *)
(* before it changes anything.  Names, texts and audit rows are left out.   *)
(***************************************************************************)
EXTENDS Integers, Sequences, FiniteSets, Functions

CONSTANTS
    Handlers,   \* request goroutines
    Cats, Items,
    BasePrices,
    MaxTime,    \* bound on the clock that price bands refer to
    MaxWrites,  \* bound on changing requests begun, for each answer
    MaxFaults,  \* bound on failed calls
    Overlaps,   \* whether requests may overlap: the answers to try
    Kinds,      \* the kinds of request each answer is tried with
    None        \* no row, no entry, no end of a band

VARIABLES
    overlap, now,
    cats,    \* menu_categories: None or [active, order]
    items,   \* menu_items: None or [cat, on, base]
    mods,    \* the available modifiers of each item, as a version
    bands,   \* menu_item_pricings: sequence of [item, from, to]
    redis,   \* per key: None or [at, is]
    pc, job,
    writes, faults, clean

rows == <<cats, items, mods, bands>>
menu == <<overlap, now, rows, redis, pc, job, writes, faults, clean>>

Keys == ({"category"} \X Cats) \cup ({"item", "price"} \X Items) \cup {<<"full", None>>}
Full == <<"full", None>>

Times == 1..MaxTime
Bands == [item : Items, from : Times, to : Times \cup {None}]
CatRows == [active : BOOLEAN, order : 1..Cardinality(Cats)]
ItemRows == [cat : Cats, on : BOOLEAN, base : BasePrices]

-----------------------------------------------------------------------------
(* What the database would answer. *)

Covers(b, t) == b.from <= t /\ (b.to = None \/ b.to > t)

(* The price of an item: that of the covering band that began last (a band  *)
(* stands for its price), or the base price.  The bands are asked first: a  *)
(* deleted item has no base price, and the bands it left. *)
ActivePrice(base, i, bs, t) ==
    LET covering == {b \in Range(bs) : b.item = i /\ Covers(b, t)}
    IN IF covering = {} THEN base
       ELSE LET b == CHOOSE c \in covering : \A d \in covering : d.from <= c.from
            IN <<b.from, b.to>>

(* The menu: active categories with their available items. *)
Assemble(cs, is, ms, prices) ==
    {[cat |-> c, order |-> cs[c].order,
      items |-> {<<i, ms[i], prices[i]>> : i \in {j \in DOMAIN is : is[j].cat = c}}] : c \in DOMAIN cs}

ActiveCats == [c \in {d \in Cats : cats[d] # None /\ cats[d].active} |-> cats[c]]
AvailableItems == [i \in {j \in Items : items[j] # None /\ items[j].on} |-> items[i]]
BasePricesOf(is) == [i \in DOMAIN is |-> <<0, is[i].base>>]
PricesOf(is, t) == [i \in DOMAIN is |-> ActivePrice(<<0, is[i].base>>, i, bands, t)]
BasePrice(i) == IF items[i] = None THEN None ELSE <<0, items[i].base>>

Stored(key, t) ==
    CASE key[1] = "category" -> cats[key[2]]
      [] key[1] = "item"     -> items[key[2]]
      [] key[1] = "price"    -> ActivePrice(BasePrice(key[2]), key[2], bands, t)
      [] key[1] = "full"     -> Assemble(ActiveCats, AvailableItems, mods, PricesOf(AvailableItems, t))

(* The time matters to what holds a price. *)
Stamp(key) == IF key[1] \in {"price", "full"} THEN now ELSE 0

(* checkPriceOverlap: an open-ended band conflicts with any that ends after *)
(* it begins, another one with any that intersects it. *)
Conflicts(new, b) ==
    /\ b.item = new.item
    /\ b.to = None \/ b.to > new.from
    /\ new.to = None \/ b.from < new.to

-----------------------------------------------------------------------------
(* Requests: the keys each reads through the cache first, and the keys it   *)
(* deletes after its change. *)

Reads == [kind : {"get"}, key : Keys \ {Full}]
           \cup [kind : {"getFull"}]
Writes ==
    [kind : {"createCategory"}, cat : Cats]
      \cup [kind : {"updateCategory"}, cat : Cats, active : BOOLEAN]
      \cup [kind : {"deleteCategory"}, cat : Cats]
      \cup [kind : {"reorder"}, order : {f \in [Cats -> 1..Cardinality(Cats)] : \A c, d \in Cats : f[c] = f[d] => c = d}]
      \cup [kind : {"createItem"}, item : Items, cat : Cats, base : BasePrices]
      \cup [kind : {"updateItem"}, item : Items, cat : Cats \cup {None}, base : BasePrices, on : BOOLEAN]
      \cup [kind : {"availability"}, item : Items, on : BOOLEAN]
      \cup [kind : {"deleteItem"}, item : Items]
      \cup {[kind |-> "createPricing", item |-> b.item, band |-> b] : b \in {c \in Bands : c.to = None \/ c.to >= c.from}}
      \cup [kind : {"createModifier", "updateModifier"}, item : Items]

Requests == Reads \cup Writes

(* What the constants must be. *)
MenuAssumption ==
    /\ IsFiniteSet(Handlers) /\ IsFiniteSet(Cats) /\ Overlaps \subseteq BOOLEAN
    /\ MaxTime \in Nat \ {0} /\ None \notin Requests \cup CatRows \cup ItemRows

Needs(r) ==
    CASE r.kind = "get" -> <<r.key>>
      [] r.kind \in {"updateCategory", "deleteCategory", "createItem"} -> <<<<"category", r.cat>>>>
      [] r.kind = "updateItem" ->
           <<<<"item", r.item>>>> \o (IF r.cat = None THEN <<>> ELSE <<<<"category", r.cat>>>>)
      [] r.kind \in {"availability", "deleteItem", "createPricing", "createModifier"} -> <<<<"item", r.item>>>>
      [] OTHER -> <<>>

Forgets(r, cat) ==
    CASE r.kind \in {"createCategory", "updateCategory", "deleteCategory"} -> <<<<"category", r.cat>>, Full>>
      [] r.kind \in {"createItem", "availability"} -> <<<<"item", r.item>>, <<"category", cat>>, Full>>
      [] r.kind \in {"updateItem", "deleteItem"} ->
           <<<<"item", r.item>>, <<"price", r.item>>, <<"category", cat>>, Full>>
      [] r.kind = "createPricing" -> <<<<"price", r.item>>, Full>>
      [] r.kind \in {"createModifier", "updateModifier"} -> <<<<"item", r.item>>, Full>>
      [] OTHER -> <<>>

(* The category of the item as the request read it. *)
NoJob == [r |-> None, keys |-> <<>>, is |-> None, at |-> 0, cat |-> None]

Init ==
    /\ overlap \in Overlaps /\ now = 1
    /\ cats \in [Cats -> {None} \cup [active : {TRUE}, order : {1}]]
    /\ items \in [Items -> {None} \cup [cat : Cats, on : {TRUE}, base : BasePrices]]
    /\ mods = [i \in Items |-> 0]
    /\ bands = <<>>
    /\ redis = [k \in Keys |-> None]
    /\ pc = [h \in Handlers |-> "idle"] /\ job = [h \in Handlers |-> NoJob]
    /\ writes = 0 /\ faults = 0 /\ clean = TRUE

Goto(h, step) == pc' = [pc EXCEPT ![h] = step]
Return(h) == Goto(h, "idle") /\ job' = [job EXCEPT ![h] = NoJob]

(* The step after the last row has been read. *)
AfterReads(r) ==
    CASE r.kind = "get" -> "idle"
      [] r.kind = "getFull" -> "full"
      [] r.kind \in {"deleteCategory", "deleteItem", "createPricing"} -> "check"
      [] r.kind = "reorder" -> "reorder"
      [] OTHER -> "write"

-----------------------------------------------------------------------------
Begin(h, r) ==
    /\ pc[h] = "idle" /\ r.kind \in Kinds[overlap]
    /\ r.kind \in {"get", "getFull"} \/ writes < MaxWrites[overlap]
    /\ overlap \/ (clean /\ \A g \in Handlers : pc[g] = "idle")  \* an error ends the serial ones
    /\ writes' = IF r.kind \in {"get", "getFull"} THEN writes ELSE writes + 1
    /\ Goto(h, IF Needs(r) # <<>> THEN "read" ELSE AfterReads(r))
    /\ job' = [job EXCEPT ![h] = [NoJob EXCEPT !.r = r, !.keys = Needs(r)]]
    /\ UNCHANGED <<overlap, now, rows, redis, faults, clean>>

(* A row was read: the next one, or what the request is for. *)
Found(h, is) ==
    LET j == job[h]
        rest == Tail(j.keys)
        cat == IF Head(j.keys)[1] = "item" THEN is.cat ELSE j.cat
        step == IF rest # <<>> THEN "read" ELSE AfterReads(j.r)
    IN IF step = "idle" THEN Return(h)
       ELSE Goto(h, step) /\ job' = [job EXCEPT ![h] = [j EXCEPT !.keys = rest, !.cat = cat, !.is = None]]

(* GetCategory, GetItem, GetActivePrice: a hit returns ... *)
ReadRedis(h) ==
    /\ pc[h] = "read"
    /\ LET e == redis[Head(job[h].keys)]
       IN IF e # None THEN Found(h, e.is) ELSE Goto(h, "query") /\ UNCHANGED job
    /\ UNCHANGED <<overlap, now, rows, redis, writes, faults, clean>>

(* ... a miss queries the database ... *)
Query(h) ==
    /\ pc[h] = "query"
    /\ LET is == Stored(Head(job[h].keys), now)
       IN IF is = None THEN Return(h)
          ELSE Goto(h, "fill") /\ job' = [job EXCEPT ![h].is = is, ![h].at = Stamp(Head(job[h].keys))]
    /\ UNCHANGED <<overlap, now, rows, redis, writes, faults, clean>>

(* ... and stores what it found. *)
Fill(h) ==
    /\ pc[h] = "fill"
    /\ redis' = [redis EXCEPT ![Head(job[h].keys)] = [at |-> job[h].at, is |-> job[h].is]]
    /\ Found(h, job[h].is)
    /\ UNCHANGED <<overlap, now, rows, writes, faults, clean>>

(* GetFullMenu: a hit returns, a miss assembles from four queries. *)
ReadFull(h) ==
    /\ pc[h] = "full"
    /\ IF redis[Full] # None THEN Return(h)
       ELSE Goto(h, "items") /\ job' = [job EXCEPT ![h].is = <<ActiveCats>>]
    /\ UNCHANGED <<overlap, now, rows, redis, writes, faults, clean>>

LoadItems(h) ==
    /\ pc[h] = "items"
    /\ Goto(h, "mods")
    /\ job' = [job EXCEPT ![h].is = Append(@, AvailableItems)]
    /\ UNCHANGED <<overlap, now, rows, redis, writes, faults, clean>>

LoadModifiers(h) ==
    /\ pc[h] = "mods"
    /\ Goto(h, "prices")
    /\ job' = [job EXCEPT ![h].is = Append(@, mods)]
    /\ UNCHANGED <<overlap, now, rows, redis, writes, faults, clean>>

(* If the last one fails the menu is stored with the base prices. *)
LoadPrices(h) ==
    /\ pc[h] = "prices"
    /\ \E fails \in BOOLEAN :
         LET got == job[h].is
             prices == IF fails THEN BasePricesOf(got[2]) ELSE PricesOf(got[2], now)
         IN /\ fails => faults < MaxFaults
            /\ faults' = faults + (IF fails THEN 1 ELSE 0)
            /\ clean' = (clean /\ ~fails)
            /\ job' = [job EXCEPT ![h].is = Assemble(got[1], got[2], got[3], prices), ![h].at = now]
    /\ Goto(h, "fillFull")
    /\ UNCHANGED <<overlap, now, rows, redis, writes>>

FillFull(h) ==
    /\ pc[h] = "fillFull"
    /\ redis' = [redis EXCEPT ![Full] = [at |-> job[h].at, is |-> job[h].is]]
    /\ Return(h)
    /\ UNCHANGED <<overlap, now, rows, writes, faults, clean>>

-----------------------------------------------------------------------------
(* Mutant: a band without an end is not compared with those after it. *)
Blocked_Later(r) ==
    CASE r.kind = "deleteCategory" -> \E i \in DOMAIN AvailableItems : items[i].cat = r.cat
      [] r.kind = "createPricing"  -> \E b \in Range(bands) : b.to # None /\ Conflicts(r.band, b)
      [] OTHER -> FALSE

(* What the guards count; the open orders with an item are another service's. *)
Blocked(r) ==
    CASE r.kind = "deleteCategory" -> \E i \in DOMAIN AvailableItems : items[i].cat = r.cat
      [] r.kind = "createPricing"  -> \E b \in Range(bands) : Conflicts(r.band, b)
      [] OTHER -> FALSE

Check(h) ==
    /\ pc[h] = "check"
    /\ \/ IF Blocked(job[h].r) THEN Return(h) ELSE Goto(h, "write") /\ UNCHANGED job
       \/ job[h].r.kind = "deleteItem" /\ Return(h)  \* it is in an open order
    /\ UNCHANGED <<overlap, now, rows, redis, writes, faults, clean>>

(* The change; an update of a row that is gone changes nothing. *)
ChangeOf(r) ==
    LET cat(is)  == cats' = [cats EXCEPT ![r.cat] = is]
        item(is) == items' = [items EXCEPT ![r.item] = is]
        was      == items[r.item]
    IN CASE r.kind = "createCategory" ->
              cat([active |-> TRUE, order |-> 1]) /\ UNCHANGED <<items, mods, bands>>
         [] r.kind = "updateCategory" ->
              cat(IF cats[r.cat] = None THEN None ELSE [cats[r.cat] EXCEPT !.active = r.active])
              /\ UNCHANGED <<items, mods, bands>>
         [] r.kind = "deleteCategory" -> cat(None) /\ UNCHANGED <<items, mods, bands>>
         [] r.kind = "createItem" ->
              item([cat |-> r.cat, on |-> TRUE, base |-> r.base]) /\ UNCHANGED <<cats, mods, bands>>
         [] r.kind = "updateItem" ->
              item(IF was = None THEN None
                   ELSE [cat |-> IF r.cat = None THEN was.cat ELSE r.cat, on |-> r.on, base |-> r.base])
              /\ UNCHANGED <<cats, mods, bands>>
         [] r.kind = "availability" ->
              item(IF was = None THEN None ELSE [was EXCEPT !.on = r.on]) /\ UNCHANGED <<cats, mods, bands>>
         [] r.kind = "deleteItem" -> item(None) /\ UNCHANGED <<cats, mods, bands>>
         [] r.kind = "createPricing" -> bands' = Append(bands, r.band) /\ UNCHANGED <<cats, items, mods>>
         [] r.kind \in {"createModifier", "updateModifier"} ->
              mods' = [mods EXCEPT ![r.item] = 1 - @] /\ UNCHANGED <<cats, items, bands>>

(* A row that is created is a new one. *)
Allowed(r) ==
    /\ r.kind = "createCategory" => cats[r.cat] = None
    /\ r.kind = "createItem" => items[r.item] = None
    /\ r.kind = "updateModifier" => items[r.item] # None

Write(h) ==
    LET r == job[h].r
        cat == IF r.kind = "createItem" \/ (r.kind = "updateItem" /\ r.cat # None) THEN r.cat ELSE job[h].cat
    IN /\ pc[h] = "write"
       /\ IF Allowed(r)
          THEN ChangeOf(r) /\ Goto(h, "forget") /\ job' = [job EXCEPT ![h].keys = Forgets(r, cat)]
          ELSE Return(h) /\ UNCHANGED rows
       /\ UNCHANGED <<overlap, now, redis, writes, faults, clean>>

(* An invalidation; its error is ignored. *)
Forget(h) ==
    /\ pc[h] = "forget"
    /\ \/ redis' = [redis EXCEPT ![Head(job[h].keys)] = None] /\ UNCHANGED <<faults, clean>>
       \/ faults < MaxFaults /\ faults' = faults + 1 /\ clean' = FALSE /\ UNCHANGED redis
    /\ IF Len(job[h].keys) = 1 THEN Return(h)
       ELSE job' = [job EXCEPT ![h].keys = Tail(@)] /\ UNCHANGED pc
    /\ UNCHANGED <<overlap, now, rows, writes>>

(* ReorderCategories: a category that is not there undoes the transaction;  *)
(* the menu is forgotten inside it, before it commits. *)
ReorderForget(h) ==
    /\ pc[h] = "reorder"
    /\ IF \A c \in Cats : cats[c] # None
       THEN redis' = [redis EXCEPT ![Full] = None] /\ Goto(h, "commit") /\ UNCHANGED job
       ELSE Return(h) /\ UNCHANGED redis
    /\ UNCHANGED <<overlap, now, rows, writes, faults, clean>>

ReorderCommit(h) ==
    /\ pc[h] = "commit"
    /\ cats' = [c \in Cats |-> IF cats[c] = None THEN None ELSE [cats[c] EXCEPT !.order = job[h].r.order[c]]]
    /\ Return(h)
    /\ UNCHANGED <<overlap, now, items, mods, bands, redis, writes, faults, clean>>

-----------------------------------------------------------------------------
(* An entry expires; time passes. *)
Expire(k) ==
    /\ redis[k] # None
    /\ redis' = [redis EXCEPT ![k] = None]
    /\ UNCHANGED <<overlap, now, rows, pc, job, writes, faults, clean>>

Tick ==
    /\ now < MaxTime
    /\ now' = now + 1
    /\ UNCHANGED <<overlap, rows, redis, pc, job, writes, faults, clean>>

Next ==
    \/ \E h \in Handlers :
         \/ \E r \in Requests : Begin(h, r)
         \/ ReadRedis(h) \/ Query(h) \/ Fill(h) \/ ReadFull(h) \/ LoadItems(h) \/ LoadModifiers(h)
         \/ LoadPrices(h) \/ FillFull(h) \/ Check(h) \/ Write(h) \/ Forget(h)
         \/ ReorderForget(h) \/ ReorderCommit(h)
    \/ \E k \in Keys : Expire(k)
    \/ Tick

Spec == Init /\ [][Next]_menu

-----------------------------------------------------------------------------
(* Types. *)
TypeOK ==
    /\ overlap \in BOOLEAN /\ clean \in BOOLEAN /\ now \in Times
    /\ cats \in [Cats -> {None} \cup CatRows]
    /\ items \in [Items -> {None} \cup ItemRows]
    /\ Range(bands) \subseteq Bands
    /\ \A k \in Keys : redis[k] # None => redis[k].at \in 0..now
    /\ \A h \in Handlers : pc[h] = "idle" <=> job[h] = NoJob

(* The overlap of a new price band is checked before it is inserted: at any *)
(* time an item has one price band, or as many as there are requests that   *)
(* can be between the two steps. *)
BandsWithinHandlers ==
    \A i \in Items, t \in Times :
        Cardinality({n \in DOMAIN bands : bands[n].item = i /\ Covers(bands[n], t)})
            <= IF overlap THEN Cardinality(Handlers) ELSE 1

(* "The next read is always consistent" (Menu.go:30): without overlap or    *)
(* error every copy in Redis is what the database would have given when it  *)
(* was stored, whatever has changed since -- except for the display order   *)
(* in the copy of a category, which ReorderCategories leaves behind. *)
SerialNextReadConsistent ==
    ~overlap /\ clean /\ (\A h \in Handlers : pc[h] = "idle") =>
        \A k \in Keys : redis[k] # None =>
            IF k[1] = "category"
            THEN cats[k[2]] # None /\ redis[k].is.active = cats[k[2]].active
            ELSE redis[k].is = Stored(k, redis[k].at)

MenuSound == TypeOK /\ BandsWithinHandlers /\ SerialNextReadConsistent
=============================================================================
