--------------------------------- MODULE Audit ---------------------------------
(***************************************************************************)
(* services/support/Audit.go: entries are recorded and reviewed while a     *)
(* reader builds a report, statistics or a security snapshot, each figure   *)
(* by a query of its own whose error is ignored, and while a client pages   *)
(* through the trail or through what is left to review.  Filters, texts and *)
(* the separate table of anomaly records are left out, and figures that are *)
(* one more number by event type.                                           *)
(***************************************************************************)
EXTENDS Integers, Sequences, FiniteSets, FiniteSetsExt, SequencesExt

CONSTANTS
    Events,      \* what is recorded: [event, entity, risk, severity, anomalous, user, given, direct], with the
                 \* flags the caller gives and whether another service inserts the row itself
    Reviewers,
    PageSize,
    MaxEntries, MaxReviews, MaxFaults,   \* bounds on entries, reviews and failing queries
    None

VARIABLES
    trail,    \* audit_trails in order of insertion: event, flags and [at, reviewed]
    reader,   \* [plan, step, got, quiet]; got: the figures read so far
    walk,     \* [list, page, seen, first, quiet, done]
    reviews, faults

audit == <<trail, reader, walk, reviews, faults>>

-----------------------------------------------------------------------------
(* Queries: a number for each condition, and numbers by value. *)
Rows(P(_)) == {i \in DOMAIN trail : P(trail[i])}
Pending(e) == "review" \in e.flags /\ e.reviewed = None
Risky(e) == e.risk \in {"high", "critical"}
Grave(e) == Risky(e) \/ e.severity = "critical"

Holds(query, e) ==
    CASE query = "total" -> TRUE
      [] query = "pci" -> "pci" \in e.flags
      [] query = "gdpr" -> "gdpr" \in e.flags
      [] query = "highRisk" -> Risky(e)
      [] query = "critical" -> e.severity = "critical"
      [] query = "unreviewed" -> Pending(e)
      [] query = "anomalies" -> e.anomalous
      [] query = "exports" -> e.event = "data_export"
      [] query = "security" -> e.event = "security_event"

Count(query) == Cardinality({i \in DOMAIN trail : Holds(query, trail[i])})

Tally(F(_)) == [v \in {F(trail[i]) : i \in DOMAIN trail} |-> Cardinality({i \in DOMAIN trail : F(trail[i]) = v})]

(* The users with medium risk and more, those with the highest risk first;  *)
(* the risk shown is the last by name, "medium" before "high" before        *)
(* "critical". *)
RiskNumber(e) == CASE e.risk = "critical" -> 4 [] e.risk = "high" -> 3 [] e.risk = "medium" -> 2 [] OTHER -> 1

RiskyUsers ==
    LET at(u) == {i \in DOMAIN trail : trail[i].user = u /\ RiskNumber(trail[i]) > 1}
        row(u) == [user |-> u, count |-> Cardinality(at(u)), number |-> Max({RiskNumber(trail[i]) : i \in at(u)}),
                   shown |-> CHOOSE r \in {"medium", "high", "critical"} :
                               /\ \E i \in at(u) : trail[i].risk = r
                               /\ \A i \in at(u) : trail[i].risk = "medium" => r = "medium"
                               /\ \A i \in at(u) : trail[i].risk = "high" => r # "critical"]
    IN SortSeq(SetToSeq({row(u) : u \in {v \in {trail[i].user : i \in DOMAIN trail} : at(v) # {}}}),
               LAMBDA r, s : r.number > s.number \/ (r.number = s.number /\ r.count > s.count))

(* What each answer reads, in this order. *)
Plans ==
    [GenerateComplianceReport |->
       <<"total", "pci", "gdpr", "highRisk", "critical", "unreviewed", "anomalies", "exports", "security">>,
     GetAuditStats |-> <<"total", "bySeverity", "byEvent", "byRisk", "unreviewed", "anomalies", "pci", "gdpr">>,
     GetSecuritySnapshot |-> <<"total", "security", "highRisk", "anomalies", "riskyUsers">>]

Figure(query) ==
    CASE query = "bySeverity" -> Tally(LAMBDA e : e.severity)
      [] query = "byEvent" -> Tally(LAMBDA e : e.event)
      [] query = "byRisk" -> Tally(LAMBDA e : e.risk)
      [] query = "riskyUsers" -> RiskyUsers
      [] OTHER -> Count(query)

(* The answer has its zero value where a query failed. *)
Zero(query) == IF query \in {"bySeverity", "byEvent", "byRisk", "riskyUsers"} THEN <<>> ELSE 0

(* In hundredths. *)
Score(got) ==
    LET n == got.total
        kept == 100 * n - 30 * got.unreviewed - 20 * got.critical - 20 * got.anomalies
    IN IF n = 0 THEN 10000 ELSE IF kept < 0 THEN 0 ELSE (2 * kept * 100 + n) \div (2 * n)

-----------------------------------------------------------------------------
NoRead == [plan |-> None, step |-> 0, got |-> <<>>, quiet |-> TRUE]
NoWalk == [list |-> None, page |-> 0, seen |-> {}, first |-> {}, quiet |-> TRUE, done |-> FALSE]

Init == trail = <<>> /\ reader = NoRead /\ walk = NoWalk /\ reviews = 0 /\ faults = 0

(* A new row; two may have one time. *)
Insert(e, flags) ==
    LET last == IF trail = <<>> THEN 0 ELSE trail[Len(trail)].at
    IN /\ Len(trail) < MaxEntries
       /\ \E at \in {last, last + 1} :
            trail' = Append(trail, [event |-> e.event, risk |-> e.risk, severity |-> e.severity, flags |-> flags,
                                    anomalous |-> e.anomalous, user |-> e.user, at |-> at, reviewed |-> None])
       /\ reader' = [reader EXCEPT !.quiet = reader.plan = None] /\ UNCHANGED <<walk, reviews, faults>>

(* RecordAuditEntry raises flags and keeps those the caller gives. *)
Raised(e) ==
    (IF Grave(e) THEN {"review"} ELSE {})
    \cup (IF e.event = "payment_processed" THEN {"pci"} ELSE {})
    \cup (IF e.event = "data_export" \/ (e.entity = "User" /\ e.event \in {"delete", "update"}) THEN {"gdpr"} ELSE {})

RecordAuditEntry(e) == ~e.direct /\ Insert(e, e.given \cup Raised(e))

(* The writeAudit of the other services inserts the row as it is. *)
WriteAudit(e) == e.direct /\ Insert(e, e.given)

(* MarkReviewed: any entry, reviewed before or not. *)
MarkReviewed(i, by) ==
    /\ reviews < MaxReviews /\ reviews' = reviews + 1
    /\ trail' = [trail EXCEPT ![i].reviewed = by]
    /\ reader' = [reader EXCEPT !.quiet = reader.plan = None] /\ walk' = [walk EXCEPT !.quiet = walk.list = None]
    /\ UNCHANGED faults

Done == reader.plan # None /\ reader.step > Len(Plans[reader.plan])

Start(plan) ==
    /\ reader = NoRead /\ walk = NoWalk
    /\ reader' = [plan |-> plan, step |-> 1, got |-> <<>>, quiet |-> TRUE]
    /\ UNCHANGED <<trail, walk, reviews, faults>>

Query ==
    LET q == Plans[reader.plan][reader.step]
        Got(v) == [f \in {q} \cup DOMAIN reader.got |-> IF f = q THEN v ELSE reader.got[f]]
    IN /\ reader.plan # None /\ ~Done
       /\ \/ reader' = [reader EXCEPT !.step = @ + 1, !.got = Got(Figure(q))] /\ UNCHANGED faults
          \/ /\ faults < MaxFaults /\ faults' = faults + 1
             /\ reader' = [reader EXCEPT !.step = @ + 1, !.got = Got(Zero(q)), !.quiet = FALSE]
       /\ UNCHANGED <<trail, walk, reviews>>

-----------------------------------------------------------------------------
(* ListAuditTrail and GetPendingReviews, page by page until one is short;   *)
(* entries of one time come in any order. *)
Listed(list) == IF list = "pending" THEN Rows(Pending) ELSE DOMAIN trail

Orders(rows) ==
    {s \in [1..Cardinality(rows) -> rows] :
       /\ IsInjective(s) /\ \A i \in 2..Cardinality(rows) : trail[s[i - 1]].at >= trail[s[i]].at}

(* Mutant: the offset counts from the page's number. *)
Offset_NotLessOne(page) == page * PageSize

Offset(page) == (page - 1) * PageSize

Browse(list) ==
    /\ walk = NoWalk /\ reader = NoRead
    /\ walk' = [NoWalk EXCEPT !.list = list, !.page = 1, !.first = Listed(list)]
    /\ UNCHANGED <<trail, reader, reviews, faults>>

(* The client has read the answer, or gone through the pages. *)
Leave ==
    /\ Done \/ walk.done
    /\ reader' = NoRead /\ walk' = NoWalk /\ UNCHANGED <<trail, reviews, faults>>

Page ==
    LET rows == Listed(walk.list)
        from == Offset(walk.page)
        to == IF from + PageSize <= Cardinality(rows) THEN from + PageSize ELSE Cardinality(rows)
    IN /\ walk.list # None /\ ~walk.done
       /\ \E s \in Orders(rows) :
            walk' = [walk EXCEPT !.seen = @ \cup {s[i] : i \in (from + 1)..to}, !.page = @ + 1,
                                 !.done = to - from < PageSize]
       /\ UNCHANGED <<trail, reader, reviews, faults>>

Next ==
    \/ \E e \in Events : RecordAuditEntry(e) \/ WriteAudit(e)
    \/ \E i \in DOMAIN trail, by \in Reviewers : MarkReviewed(i, by)
    \/ \E plan \in DOMAIN Plans : Start(plan)
    \/ Query
    \/ \E list \in {"all", "pending"} : Browse(list)
    \/ Page
    \/ Leave

Spec == Init /\ [][Next]_audit

-----------------------------------------------------------------------------
TypeOK ==
    /\ Len(trail) <= MaxEntries
    /\ \A e \in Range(trail) : e.reviewed \in Reviewers \cup {None} /\ e.flags \subseteq {"review", "pci", "gdpr"}
    /\ DOMAIN reader.got \subseteq {"total", "pci", "gdpr", "highRisk", "critical", "unreviewed", "anomalies",
                                    "exports", "security", "bySeverity", "byEvent", "byRisk", "riskyUsers"}

(* An answer that no write and no failed query fell into is of one moment:  *)
(* the parts are parts of the total, all that is grave and not reviewed is  *)
(* among the unreviewed, with what callers flagged themselves, exports are  *)
(* among the GDPR events, the groups sum to the total, and the users of     *)
(* highest risk come first.  The score loses seventy points at most, and    *)
(* none as far as the rounding shows (Audit.go:554) if and only if what is  *)
(* held against it weighs no more than half a hundredth of a point.         *)
AnswersAddUp ==
    Done /\ reader.quiet =>
      LET got == reader.got
          SumOf(f) == FoldFunction(LAMBDA a, b : a + b, 0, f)
          held == 30 * got.unreviewed + 20 * got.critical + 20 * got.anomalies
      IN /\ \A f \in DOMAIN got \cap {"pci", "highRisk", "critical", "unreviewed", "anomalies"} : got[f] <= got.total
         /\ "unreviewed" \in DOMAIN got =>
              got.unreviewed >= Cardinality({i \in DOMAIN trail : Grave(trail[i]) /\ trail[i].reviewed = None})
         /\ \A f \in DOMAIN got \cap {"bySeverity", "byEvent", "byRisk"} : SumOf(got[f]) = got.total
         /\ "riskyUsers" \in DOMAIN got =>
              \A i, j \in DOMAIN got.riskyUsers :
                got.riskyUsers[i].number > got.riskyUsers[j].number => i < j
         /\ reader.plan = "GenerateComplianceReport" =>
              /\ got.exports <= got.gdpr
              /\ Score(got) \in 3000..10000 /\ (Score(got) = 10000 <=> 200 * held <= got.total)

(* Who pages to the end has seen every entry that was there when he began,  *)
(* unless times coincide, or, of what is pending, something was reviewed    *)
(* meanwhile and moved the pages up. *)
PagesMissNothing ==
    LET apart == \A i, j \in DOMAIN trail : i # j => trail[i].at # trail[j].at
    IN walk.done /\ apart /\ (walk.list = "all" \/ walk.quiet) => walk.first \subseteq walk.seen

AuditSound == TypeOK /\ AnswersAddUp /\ PagesMissNothing
=============================================================================
