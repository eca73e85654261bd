------------------------------- MODULE Services -------------------------------
(***************************************************************************)
(* The services and pure parts of the backend that share no state: each     *)
(* behaviour is one of one component, chosen in the initial state, and the  *)
(* properties are the components' own.  Constants of one name are shared.   *)
(***************************************************************************)
EXTENDS Integers, Sequences, FiniteSets

CONSTANTS
    None, Everybody, Handlers, Overlaps, MaxRequests, MaxTime, MaxFaults,
    Cats, Items, BasePrices, MenuWrites, Kinds,                      \* Menu
    Customers, Employees, Contacts, StaffRoles, Points,              \* People
    Users, Hooks, BadgeTtl,                                          \* Notifications
    Bills, Profiles, Values, ProfileTTL, SettingTTL, TaxWrites,      \* Taxes
    Callers, Days, Reports, Enough, ReportTTL, ReportWrites, MaxCalls,   \* Pipelines
    Amounts, Periods, Levels, Spreads,                               \* Figures
    Events, Reviewers, PageSize, MaxEntries, MaxReviews,             \* Audit
    MachineNames, Size,                                              \* Fleet
    Calls, OrderKeys, Tables, SubmitFaults,                          \* OrderSubmit
    Limit, LoginLimit, Window, AbuseThreshold, RateRequests, Seconds,   \* RateLimit
    Resources, ResponseTTL,                                          \* ResponseCache
    Emails, Tenants, States, Devices, TrustAfter, AccountRequests,   \* Accounts
    SystemRoles, MaxCrashes,                                         \* Startup
    RoleIds, MaxInheritanceDepth, Rules, Accesses, Restaurants, Grants, Routes   \* AccessRules

VARIABLES
    part,   \* the component of this behaviour; what others keep is None
    overlap, now, cats, items, mods, bands, redis, pc, job, writes, faults, clean, customers,
    employees, held, requests, ledger, recorded, adopted, notes, badge, hooks, inForce, cache,
    changed, time, order, priced, orders, call, wrote, calls, question, answer, trail, reader, walk,
    reviews, name, states, event, results, tableOf, key, seen, tableStatus, caching, zset, logins,
    abuse, arrived, passed, accepted, rejected, alerts, version, ctx, loose, late, hit, users,
    signups, devices, rows, seeding, crashes

all == <<part, overlap, now, cats, items, mods, bands, redis, pc, job, writes, faults, clean, customers,
         employees, held, requests, ledger, recorded, adopted, notes, badge, hooks, inForce, cache,
         changed, time, order, priced, orders, call, wrote, calls, question, answer, trail, reader,
         walk, reviews, name, states, event, results, tableOf, key, seen, tableStatus, caching,
         zset, logins, abuse, arrived, passed, accepted, rejected, alerts, version, ctx, loose,
         late, hit, users, signups, devices, rows, seeding, crashes>>

Me == INSTANCE Menu WITH MaxWrites <- MenuWrites
Pe == INSTANCE People WITH Roles <- StaffRoles
No == INSTANCE Notifications WITH Ttl <- BadgeTtl
Ta == INSTANCE Taxes WITH Orders <- Handlers, MaxWrites <- TaxWrites
Pi == INSTANCE Pipelines WITH TTL <- ReportTTL, MaxWrites <- ReportWrites
Fi == INSTANCE Figures
Au == INSTANCE Audit
Fl == INSTANCE Fleet WITH Names <- MachineNames
Su == INSTANCE OrderSubmit WITH
    Keys <- OrderKeys, NoKey <- None, NoTable <- None, NoCall <- None, MaxFaults <- SubmitFaults
Ra == INSTANCE RateLimit WITH MaxRequests <- RateRequests, MaxTime <- Seconds
Re == INSTANCE ResponseCache WITH Contexts <- Handlers, TTL <- ResponseTTL
Ac == INSTANCE Accounts WITH MaxRequests <- AccountRequests
St == INSTANCE Startup WITH Pods <- Handlers
Ru == INSTANCE AccessRules

(* What the constants must be. *)
ASSUME ServicesAssumption ==
    /\ Fl!FleetAssumption /\ Su!SubmitAssumption /\ Ra!RateLimitAssumption
    /\ Re!ResponseCacheAssumption /\ Ac!AccountsAssumption /\ St!StartupAssumption
    /\ Pe!PeopleAssumption /\ No!NotificationsAssumption /\ Pi!PipelinesAssumption
    /\ Me!MenuAssumption

-----------------------------------------------------------------------------
Init ==
    \/ /\ part = "menu" /\ Me!Init
       /\ customers = None /\ employees = None /\ held = None /\ requests = None /\ ledger = None
       /\ recorded = None /\ adopted = None /\ notes = None /\ badge = None /\ hooks = None /\ inForce = None
       /\ cache = None /\ changed = None /\ time = None /\ order = None /\ priced = None /\ orders = None
       /\ call = None /\ wrote = None /\ calls = None /\ question = None /\ answer = None /\ trail = None
       /\ reader = None /\ walk = None /\ reviews = None /\ name = None /\ states = None /\ event = None
       /\ results = None /\ tableOf = None /\ key = None /\ seen = None /\ tableStatus = None
       /\ caching = None /\ zset = None /\ logins = None /\ abuse = None /\ arrived = None /\ passed = None
       /\ accepted = None /\ rejected = None /\ alerts = None /\ version = None /\ ctx = None /\ loose = None
       /\ late = None /\ hit = None /\ users = None /\ signups = None /\ devices = None /\ rows = None
       /\ seeding = None /\ crashes = None
    \/ /\ part = "people" /\ Pe!Init
       /\ now = None /\ cats = None /\ items = None /\ mods = None /\ bands = None /\ redis = None
       /\ writes = None /\ notes = None /\ badge = None /\ hooks = None /\ inForce = None /\ cache = None
       /\ changed = None /\ time = None /\ order = None /\ priced = None /\ orders = None /\ call = None
       /\ wrote = None /\ calls = None /\ question = None /\ answer = None /\ trail = None /\ reader = None
       /\ walk = None /\ reviews = None /\ name = None /\ states = None /\ event = None /\ results = None
       /\ tableOf = None /\ key = None /\ seen = None /\ tableStatus = None /\ caching = None /\ zset = None
       /\ logins = None /\ abuse = None /\ arrived = None /\ passed = None /\ accepted = None
       /\ rejected = None /\ alerts = None /\ version = None /\ ctx = None /\ loose = None /\ late = None
       /\ hit = None /\ users = None /\ signups = None /\ devices = None /\ rows = None /\ seeding = None
       /\ crashes = None
    \/ /\ part = "notifications" /\ No!Init
       /\ cats = None /\ items = None /\ mods = None /\ bands = None /\ redis = None /\ writes = None
       /\ customers = None /\ employees = None /\ held = None /\ ledger = None /\ recorded = None
       /\ adopted = None /\ inForce = None /\ cache = None /\ changed = None /\ time = None /\ order = None
       /\ priced = None /\ orders = None /\ call = None /\ wrote = None /\ calls = None /\ question = None
       /\ answer = None /\ trail = None /\ reader = None /\ walk = None /\ reviews = None /\ name = None
       /\ states = None /\ event = None /\ results = None /\ tableOf = None /\ key = None /\ seen = None
       /\ tableStatus = None /\ caching = None /\ zset = None /\ logins = None /\ abuse = None
       /\ arrived = None /\ passed = None /\ accepted = None /\ rejected = None /\ alerts = None
       /\ version = None /\ ctx = None /\ loose = None /\ late = None /\ hit = None /\ users = None
       /\ signups = None /\ devices = None /\ rows = None /\ seeding = None /\ crashes = None
    \/ /\ part = "taxes" /\ Ta!Init
       /\ overlap = None /\ now = None /\ cats = None /\ items = None /\ mods = None /\ bands = None
       /\ redis = None /\ pc = None /\ job = None /\ clean = None /\ customers = None /\ employees = None
       /\ held = None /\ requests = None /\ ledger = None /\ recorded = None /\ adopted = None
       /\ notes = None /\ badge = None /\ hooks = None /\ orders = None /\ call = None /\ wrote = None
       /\ calls = None /\ question = None /\ answer = None /\ trail = None /\ reader = None /\ walk = None
       /\ reviews = None /\ name = None /\ states = None /\ event = None /\ results = None /\ tableOf = None
       /\ key = None /\ seen = None /\ tableStatus = None /\ caching = None /\ zset = None /\ logins = None
       /\ abuse = None /\ arrived = None /\ passed = None /\ accepted = None /\ rejected = None
       /\ alerts = None /\ version = None /\ ctx = None /\ loose = None /\ late = None /\ hit = None
       /\ users = None /\ signups = None /\ devices = None /\ rows = None /\ seeding = None /\ crashes = None
    \/ /\ part = "pipelines" /\ Pi!Init
       /\ overlap = None /\ now = None /\ cats = None /\ items = None /\ mods = None /\ bands = None
       /\ redis = None /\ pc = None /\ job = None /\ clean = None /\ customers = None /\ employees = None
       /\ held = None /\ requests = None /\ ledger = None /\ recorded = None /\ adopted = None
       /\ notes = None /\ badge = None /\ hooks = None /\ inForce = None /\ changed = None /\ order = None
       /\ priced = None /\ question = None /\ answer = None /\ trail = None /\ reader = None /\ walk = None
       /\ reviews = None /\ name = None /\ states = None /\ event = None /\ results = None /\ tableOf = None
       /\ key = None /\ seen = None /\ tableStatus = None /\ caching = None /\ zset = None /\ logins = None
       /\ abuse = None /\ arrived = None /\ passed = None /\ accepted = None /\ rejected = None
       /\ alerts = None /\ version = None /\ ctx = None /\ loose = None /\ late = None /\ hit = None
       /\ users = None /\ signups = None /\ devices = None /\ rows = None /\ seeding = None /\ crashes = None
    \/ /\ part = "figures" /\ Fi!Init
       /\ overlap = None /\ now = None /\ cats = None /\ items = None /\ mods = None /\ bands = None
       /\ redis = None /\ pc = None /\ job = None /\ writes = None /\ faults = None /\ clean = None
       /\ customers = None /\ employees = None /\ held = None /\ requests = None /\ ledger = None
       /\ recorded = None /\ adopted = None /\ notes = None /\ badge = None /\ hooks = None /\ inForce = None
       /\ cache = None /\ changed = None /\ time = None /\ order = None /\ priced = None /\ orders = None
       /\ call = None /\ wrote = None /\ calls = None /\ trail = None /\ reader = None /\ walk = None
       /\ reviews = None /\ name = None /\ states = None /\ event = None /\ results = None /\ tableOf = None
       /\ key = None /\ seen = None /\ tableStatus = None /\ caching = None /\ zset = None /\ logins = None
       /\ abuse = None /\ arrived = None /\ passed = None /\ accepted = None /\ rejected = None
       /\ alerts = None /\ version = None /\ ctx = None /\ loose = None /\ late = None /\ hit = None
       /\ users = None /\ signups = None /\ devices = None /\ rows = None /\ seeding = None /\ crashes = None
    \/ /\ part = "audit" /\ Au!Init
       /\ overlap = None /\ now = None /\ cats = None /\ items = None /\ mods = None /\ bands = None
       /\ redis = None /\ pc = None /\ job = None /\ writes = None /\ clean = None /\ customers = None
       /\ employees = None /\ held = None /\ requests = None /\ ledger = None /\ recorded = None
       /\ adopted = None /\ notes = None /\ badge = None /\ hooks = None /\ inForce = None /\ cache = None
       /\ changed = None /\ time = None /\ order = None /\ priced = None /\ orders = None /\ call = None
       /\ wrote = None /\ calls = None /\ question = None /\ answer = None /\ name = None /\ states = None
       /\ event = None /\ results = None /\ tableOf = None /\ key = None /\ seen = None /\ tableStatus = None
       /\ caching = None /\ zset = None /\ logins = None /\ abuse = None /\ arrived = None /\ passed = None
       /\ accepted = None /\ rejected = None /\ alerts = None /\ version = None /\ ctx = None /\ loose = None
       /\ late = None /\ hit = None /\ users = None /\ signups = None /\ devices = None /\ rows = None
       /\ seeding = None /\ crashes = None
    \/ /\ part = "fleet" /\ Fl!Init
       /\ overlap = None /\ now = None /\ cats = None /\ items = None /\ mods = None /\ bands = None
       /\ redis = None /\ pc = None /\ job = None /\ writes = None /\ faults = None /\ clean = None
       /\ customers = None /\ employees = None /\ held = None /\ requests = None /\ ledger = None
       /\ recorded = None /\ adopted = None /\ notes = None /\ badge = None /\ hooks = None /\ inForce = None
       /\ cache = None /\ changed = None /\ time = None /\ order = None /\ priced = None /\ orders = None
       /\ call = None /\ wrote = None /\ calls = None /\ question = None /\ answer = None /\ trail = None
       /\ reader = None /\ walk = None /\ reviews = None /\ tableOf = None /\ key = None /\ seen = None
       /\ tableStatus = None /\ caching = None /\ zset = None /\ logins = None /\ abuse = None
       /\ arrived = None /\ passed = None /\ accepted = None /\ rejected = None /\ alerts = None
       /\ version = None /\ ctx = None /\ loose = None /\ late = None /\ hit = None /\ users = None
       /\ signups = None /\ devices = None /\ rows = None /\ seeding = None /\ crashes = None
    \/ /\ part = "submit" /\ Su!Init
       /\ now = None /\ cats = None /\ items = None /\ mods = None /\ bands = None /\ redis = None
       /\ job = None /\ writes = None /\ clean = None /\ customers = None /\ employees = None /\ held = None
       /\ requests = None /\ ledger = None /\ recorded = None /\ adopted = None /\ notes = None
       /\ badge = None /\ hooks = None /\ inForce = None /\ changed = None /\ time = None /\ order = None
       /\ priced = None /\ call = None /\ wrote = None /\ calls = None /\ question = None /\ trail = None
       /\ reader = None /\ walk = None /\ reviews = None /\ name = None /\ states = None /\ event = None
       /\ results = None /\ zset = None /\ logins = None /\ abuse = None /\ arrived = None /\ passed = None
       /\ accepted = None /\ rejected = None /\ alerts = None /\ version = None /\ ctx = None /\ loose = None
       /\ late = None /\ hit = None /\ users = None /\ signups = None /\ devices = None /\ rows = None
       /\ seeding = None /\ crashes = None
    \/ /\ part = "rateLimit" /\ Ra!Init
       /\ overlap = None /\ cats = None /\ items = None /\ mods = None /\ bands = None /\ redis = None
       /\ writes = None /\ clean = None /\ customers = None /\ employees = None /\ held = None
       /\ requests = None /\ ledger = None /\ recorded = None /\ adopted = None /\ notes = None
       /\ badge = None /\ hooks = None /\ inForce = None /\ cache = None /\ changed = None /\ time = None
       /\ order = None /\ priced = None /\ orders = None /\ call = None /\ wrote = None /\ calls = None
       /\ question = None /\ answer = None /\ trail = None /\ reader = None /\ walk = None /\ reviews = None
       /\ name = None /\ states = None /\ event = None /\ results = None /\ tableOf = None /\ key = None
       /\ seen = None /\ tableStatus = None /\ caching = None /\ version = None /\ ctx = None /\ loose = None
       /\ late = None /\ hit = None /\ users = None /\ signups = None /\ devices = None /\ rows = None
       /\ seeding = None /\ crashes = None
    \/ /\ part = "responses" /\ Re!Init
       /\ now = None /\ cats = None /\ items = None /\ mods = None /\ bands = None /\ pc = None /\ job = None
       /\ writes = None /\ clean = None /\ customers = None /\ employees = None /\ held = None
       /\ ledger = None /\ recorded = None /\ adopted = None /\ notes = None /\ badge = None /\ hooks = None
       /\ inForce = None /\ cache = None /\ order = None /\ priced = None /\ orders = None /\ call = None
       /\ wrote = None /\ calls = None /\ question = None /\ answer = None /\ trail = None /\ reader = None
       /\ walk = None /\ reviews = None /\ name = None /\ states = None /\ event = None /\ results = None
       /\ tableOf = None /\ key = None /\ seen = None /\ tableStatus = None /\ caching = None /\ zset = None
       /\ logins = None /\ abuse = None /\ arrived = None /\ passed = None /\ accepted = None
       /\ rejected = None /\ alerts = None /\ users = None /\ signups = None /\ devices = None /\ rows = None
       /\ seeding = None /\ crashes = None
    \/ /\ part = "accounts" /\ Ac!Init
       /\ now = None /\ cats = None /\ items = None /\ mods = None /\ bands = None /\ redis = None
       /\ writes = None /\ clean = None /\ customers = None /\ employees = None /\ held = None
       /\ ledger = None /\ recorded = None /\ adopted = None /\ notes = None /\ badge = None /\ hooks = None
       /\ inForce = None /\ cache = None /\ changed = None /\ time = None /\ order = None /\ priced = None
       /\ orders = None /\ call = None /\ wrote = None /\ calls = None /\ question = None /\ answer = None
       /\ trail = None /\ reader = None /\ walk = None /\ reviews = None /\ name = None /\ event = None
       /\ results = None /\ tableOf = None /\ key = None /\ seen = None /\ tableStatus = None
       /\ caching = None /\ zset = None /\ abuse = None /\ arrived = None /\ passed = None /\ rejected = None
       /\ alerts = None /\ version = None /\ ctx = None /\ loose = None /\ late = None /\ hit = None
       /\ rows = None /\ seeding = None /\ crashes = None
    \/ /\ part = "startup" /\ St!Init
       /\ overlap = None /\ now = None /\ cats = None /\ items = None /\ mods = None /\ bands = None
       /\ redis = None /\ job = None /\ writes = None /\ clean = None /\ customers = None /\ employees = None
       /\ held = None /\ requests = None /\ ledger = None /\ recorded = None /\ adopted = None
       /\ notes = None /\ badge = None /\ hooks = None /\ inForce = None /\ cache = None /\ changed = None
       /\ time = None /\ order = None /\ priced = None /\ orders = None /\ call = None /\ wrote = None
       /\ calls = None /\ question = None /\ answer = None /\ trail = None /\ reader = None /\ walk = None
       /\ reviews = None /\ name = None /\ states = None /\ event = None /\ results = None /\ tableOf = None
       /\ key = None /\ seen = None /\ tableStatus = None /\ caching = None /\ zset = None /\ logins = None
       /\ abuse = None /\ arrived = None /\ passed = None /\ accepted = None /\ rejected = None
       /\ alerts = None /\ version = None /\ ctx = None /\ loose = None /\ late = None /\ hit = None
       /\ users = None /\ signups = None /\ devices = None
    \/ /\ part = "rules" /\ Ru!Init
       /\ overlap = None /\ now = None /\ cats = None /\ items = None /\ mods = None /\ bands = None
       /\ redis = None /\ pc = None /\ job = None /\ writes = None /\ faults = None /\ clean = None
       /\ customers = None /\ employees = None /\ held = None /\ requests = None /\ ledger = None
       /\ recorded = None /\ adopted = None /\ notes = None /\ badge = None /\ hooks = None /\ inForce = None
       /\ cache = None /\ changed = None /\ time = None /\ order = None /\ priced = None /\ orders = None
       /\ call = None /\ wrote = None /\ calls = None /\ trail = None /\ reader = None /\ walk = None
       /\ reviews = None /\ name = None /\ states = None /\ event = None /\ results = None /\ tableOf = None
       /\ key = None /\ seen = None /\ tableStatus = None /\ caching = None /\ zset = None /\ logins = None
       /\ abuse = None /\ arrived = None /\ passed = None /\ accepted = None /\ rejected = None
       /\ alerts = None /\ version = None /\ ctx = None /\ loose = None /\ late = None /\ hit = None
       /\ users = None /\ signups = None /\ devices = None /\ rows = None /\ seeding = None /\ crashes = None

Next ==
    \/ /\ part = "menu" /\ Me!Next
       /\ UNCHANGED <<part, customers, employees, held, requests, ledger, recorded, adopted, notes,
                       badge, hooks, inForce, cache, changed, time, order, priced, orders, call,
                       wrote, calls, question, answer, trail, reader, walk, reviews, name, states,
                       event, results, tableOf, key, seen, tableStatus, caching, zset, logins,
                       abuse, arrived, passed, accepted, rejected, alerts, version, ctx, loose,
                       late, hit, users, signups, devices, rows, seeding, crashes>>
    \/ /\ part = "people" /\ Pe!Next
       /\ UNCHANGED <<part, now, cats, items, mods, bands, redis, writes, notes, badge, hooks, inForce,
                       cache, changed, time, order, priced, orders, call, wrote, calls, question,
                       answer, trail, reader, walk, reviews, name, states, event, results, tableOf,
                       key, seen, tableStatus, caching, zset, logins, abuse, arrived, passed,
                       accepted, rejected, alerts, version, ctx, loose, late, hit, users, signups,
                       devices, rows, seeding, crashes>>
    \/ /\ part = "notifications" /\ No!Next
       /\ UNCHANGED <<part, cats, items, mods, bands, redis, writes, customers, employees, held, ledger,
                       recorded, adopted, inForce, cache, changed, time, order, priced, orders,
                       call, wrote, calls, question, answer, trail, reader, walk, reviews, name,
                       states, event, results, tableOf, key, seen, tableStatus, caching, zset,
                       logins, abuse, arrived, passed, accepted, rejected, alerts, version, ctx,
                       loose, late, hit, users, signups, devices, rows, seeding, crashes>>
    \/ /\ part = "taxes" /\ Ta!Next
       /\ UNCHANGED <<part, overlap, now, cats, items, mods, bands, redis, pc, job, clean, customers,
                       employees, held, requests, ledger, recorded, adopted, notes, badge, hooks,
                       orders, call, wrote, calls, question, answer, trail, reader, walk, reviews,
                       name, states, event, results, tableOf, key, seen, tableStatus, caching, zset,
                       logins, abuse, arrived, passed, accepted, rejected, alerts, version, ctx,
                       loose, late, hit, users, signups, devices, rows, seeding, crashes>>
    \/ /\ part = "pipelines" /\ Pi!Next
       /\ UNCHANGED <<part, overlap, now, cats, items, mods, bands, redis, pc, job, clean, customers,
                       employees, held, requests, ledger, recorded, adopted, notes, badge, hooks,
                       inForce, changed, order, priced, question, answer, trail, reader, walk,
                       reviews, name, states, event, results, tableOf, key, seen, tableStatus,
                       caching, zset, logins, abuse, arrived, passed, accepted, rejected, alerts,
                       version, ctx, loose, late, hit, users, signups, devices, rows, seeding,
                       crashes>>
    \/ /\ part = "figures" /\ Fi!Next
       /\ UNCHANGED <<part, overlap, now, cats, items, mods, bands, redis, pc, job, writes, faults,
                       clean, customers, employees, held, requests, ledger, recorded, adopted,
                       notes, badge, hooks, inForce, cache, changed, time, order, priced, orders,
                       call, wrote, calls, trail, reader, walk, reviews, name, states, event,
                       results, tableOf, key, seen, tableStatus, caching, zset, logins, abuse,
                       arrived, passed, accepted, rejected, alerts, version, ctx, loose, late, hit,
                       users, signups, devices, rows, seeding, crashes>>
    \/ /\ part = "audit" /\ Au!Next
       /\ UNCHANGED <<part, overlap, now, cats, items, mods, bands, redis, pc, job, writes, clean,
                       customers, employees, held, requests, ledger, recorded, adopted, notes,
                       badge, hooks, inForce, cache, changed, time, order, priced, orders, call,
                       wrote, calls, question, answer, name, states, event, results, tableOf, key,
                       seen, tableStatus, caching, zset, logins, abuse, arrived, passed, accepted,
                       rejected, alerts, version, ctx, loose, late, hit, users, signups, devices,
                       rows, seeding, crashes>>
    \/ /\ part = "fleet" /\ Fl!Next
       /\ UNCHANGED <<part, overlap, now, cats, items, mods, bands, redis, pc, job, writes, faults,
                       clean, customers, employees, held, requests, ledger, recorded, adopted,
                       notes, badge, hooks, inForce, cache, changed, time, order, priced, orders,
                       call, wrote, calls, question, answer, trail, reader, walk, reviews, tableOf,
                       key, seen, tableStatus, caching, zset, logins, abuse, arrived, passed,
                       accepted, rejected, alerts, version, ctx, loose, late, hit, users, signups,
                       devices, rows, seeding, crashes>>
    \/ /\ part = "submit" /\ Su!Next
       /\ UNCHANGED <<part, now, cats, items, mods, bands, redis, job, writes, clean, customers,
                       employees, held, requests, ledger, recorded, adopted, notes, badge, hooks,
                       inForce, changed, time, order, priced, call, wrote, calls, question, trail,
                       reader, walk, reviews, name, states, event, results, zset, logins, abuse,
                       arrived, passed, accepted, rejected, alerts, version, ctx, loose, late, hit,
                       users, signups, devices, rows, seeding, crashes>>
    \/ /\ part = "rateLimit" /\ Ra!Next
       /\ UNCHANGED <<part, overlap, cats, items, mods, bands, redis, writes, clean, customers,
                       employees, held, requests, ledger, recorded, adopted, notes, badge, hooks,
                       inForce, cache, changed, time, order, priced, orders, call, wrote, calls,
                       question, answer, trail, reader, walk, reviews, name, states, event, results,
                       tableOf, key, seen, tableStatus, caching, version, ctx, loose, late, hit,
                       users, signups, devices, rows, seeding, crashes>>
    \/ /\ part = "responses" /\ Re!Next
       /\ UNCHANGED <<part, now, cats, items, mods, bands, pc, job, writes, clean, customers, employees,
                       held, ledger, recorded, adopted, notes, badge, hooks, inForce, cache, order,
                       priced, orders, call, wrote, calls, question, answer, trail, reader, walk,
                       reviews, name, states, event, results, tableOf, key, seen, tableStatus,
                       caching, zset, logins, abuse, arrived, passed, accepted, rejected, alerts,
                       users, signups, devices, rows, seeding, crashes>>
    \/ /\ part = "accounts" /\ Ac!Next
       /\ UNCHANGED <<part, now, cats, items, mods, bands, redis, writes, clean, customers, employees,
                       held, ledger, recorded, adopted, notes, badge, hooks, inForce, cache,
                       changed, time, order, priced, orders, call, wrote, calls, question, answer,
                       trail, reader, walk, reviews, name, event, results, tableOf, key, seen,
                       tableStatus, caching, zset, abuse, arrived, passed, rejected, alerts,
                       version, ctx, loose, late, hit, rows, seeding, crashes>>
    \/ /\ part = "startup" /\ St!Next
       /\ UNCHANGED <<part, overlap, now, cats, items, mods, bands, redis, job, writes, clean, customers,
                       employees, held, requests, ledger, recorded, adopted, notes, badge, hooks,
                       inForce, cache, changed, time, order, priced, orders, call, wrote, calls,
                       question, answer, trail, reader, walk, reviews, name, states, event, results,
                       tableOf, key, seen, tableStatus, caching, zset, logins, abuse, arrived,
                       passed, accepted, rejected, alerts, version, ctx, loose, late, hit, users,
                       signups, devices>>
    \/ /\ part = "rules" /\ Ru!Next
       /\ UNCHANGED <<part, overlap, now, cats, items, mods, bands, redis, pc, job, writes, faults,
                       clean, customers, employees, held, requests, ledger, recorded, adopted,
                       notes, badge, hooks, inForce, cache, changed, time, order, priced, orders,
                       call, wrote, calls, trail, reader, walk, reviews, name, states, event,
                       results, tableOf, key, seen, tableStatus, caching, zset, logins, abuse,
                       arrived, passed, accepted, rejected, alerts, version, ctx, loose, late, hit,
                       users, signups, devices, rows, seeding, crashes>>

Spec == Init /\ [][Next]_all

-----------------------------------------------------------------------------
(* Menu.go: requests that take turns show the menu as it was written, and   *)
(* bands that overlap are no more than the handlers. *)
MenuSound == part = "menu" => Me!MenuSound

(* Customer.go and Employee.go: points and orders are counted, contacts are *)
(* unique while requests take turns. *)
PeopleSound == part = "people" => Pe!PeopleSound

(* Notification.go: a badge shows what is unread, and webhooks registered   *)
(* twice are no more than the handlers. *)
NotificationsSound == part = "notifications" => No!NotificationsSound

(* Taxes.go and Settings.go: bills add up, by settings that are not older   *)
(* than their time to live. *)
TaxesSound == part = "taxes" => Ta!TaxesSound

(* analytics.go and Forecast.go: an answer, a refusal and a cached answer   *)
(* agree with the state machine that was run. *)
PipelinesSound == part = "pipelines" => Pi!PipelinesSound

(* analytics.go and Forecast.go: what the figures say of their rows. *)
FiguresSound == part = "figures" => Fi!FiguresSound

(* Audit.go: the figures of an answer add up, and pages miss nothing. *)
AuditSound == part = "audit" => Au!AuditSound

(* FSM.go: no machine of a batch is left behind, none is stranded, and all  *)
(* definitions compile. *)
FleetSound == part = "fleet" => Fl!FleetSound

(* Order.go: a key places one order for an app that waits, and answers are   *)
(* committed. *)
SubmitSound == part = "submit" => Su!SubmitSound

(* ratelimit.go: no window lets through more than its limit, and every alert *)
(* is earned by rejections. *)
RateLimitSound == part = "rateLimit" => Ra!RateLimitSound

(* cache.go: what is served from the cache is current, or no older than its  *)
(* time to live, and is the answer to whoever asks. *)
ResponseCacheSound == part = "responses" => Re!ResponseCacheSound

(* oauth.go, handlers/oauth.go and auth.go: addresses, OAuth states and      *)
(* trusted devices. *)
AccountsSound == part = "accounts" => Ac!AccountsSound

(* main.go and rbac.go: a pod that serves has its tenant, roles and super    *)
(* admin, or an error kept them from it. *)
StartupSound == part = "startup" => St!StartupSound

(* rbac.go and the middleware chain: who may do what, from his roles to the  *)
(* handler. *)
RulesSound == part = "rules" => Ru!RulesSound

=============================================================================
