-------------------------------- MODULE Figures --------------------------------
(***************************************************************************)
(* The figures of the reports (the enriching stages of                      *)
(* services/analytics/analytics.go) and of the forecasts (the scoring       *)
(* stages of Forecast.go), as functions of the rows that were read.         *)
(* Amounts are whole numbers of the smallest unit; a fraction is rounded    *)
(* where the code rounds it.  The fit over seven points and more, in        *)
(* floating point, stands as any model.                                     *)
(***************************************************************************)
EXTENDS Integers, Sequences, Functions, TLC

CONSTANTS
    Amounts,   \* amounts of a row, a set of naturals
    Periods,   \* days of a period
    Levels,    \* levels, trends and indices of a model, integers
    Spreads    \* widths of the interval after one day

VARIABLES question, answer

figures == <<question, answer>>

-----------------------------------------------------------------------------
(* math.Round of n/d, for d > 0, and the integers around it. *)
Rounded(n, d) == (2 * n + d) \div (2 * d)
Floor(n, d) == n \div d
Ceil(n, d) == -((-n) \div d)

Sum(s) == SumFunction(s)

(* Inputs of at most n elements. *)
UpTo(S, n) == UNION {[1..m -> S] : m \in 0..n}

AtLeast(a, b) == IF a >= b THEN a ELSE b

(* Percentages, in hundredths. *)
Shares(counts) ==
    LET total == Sum(counts)
    IN [i \in DOMAIN counts |-> IF total > 0 THEN Rounded(counts[i] * 10000, total) ELSE 0]

(* The items that sold most, with their rank and average price. *)
TopSelling(items, limit) ==
    LET sold == SortSeq(items, LAMBDA a, b : a.quantity > b.quantity)
        best == SubSeq(sold, 1, IF Len(sold) <= limit THEN Len(sold) ELSE limit)
    IN [i \in DOMAIN best |->
          [quantity |-> best[i].quantity, rank |-> i,
           price |-> IF best[i].quantity > 0 THEN Rounded(best[i].revenue, best[i].quantity) ELSE 0]]

(* Turnover in hundredths, days of supply in tenths; 0 when undefined. *)
Turnover(consumed, stock, days) ==
    [rate |-> IF stock > 0 THEN Rounded(consumed * 100, stock) ELSE 0,
     supply |-> IF consumed > 0 THEN Rounded(stock * days * 10, consumed) ELSE 0]

(* What was damaged and what expired leaves as negative movements. *)
Waste(moves, cost) ==
    LET Of(reason) == Sum([i \in DOMAIN moves |-> IF moves[i].reason = reason THEN moves[i].delta ELSE 0])
        abs(n) == AtLeast(n, -n)
        total == abs(Of("damaged")) + abs(Of("expired"))
    IN [total |-> total, cost |-> total * cost]

(* Mutant: an item at its reorder point still lasts. *)
Reorder_AtPoint(item, days) ==
    LET above == item.stock - item.point
    IN IF above < 0 THEN [n |-> 0, d |-> 1]
       ELSE IF item.consumed > 0 THEN [n |-> above * days, d |-> item.consumed]
       ELSE [n |-> 999, d |-> 1]

(* The days until an item reaches its reorder point, as a fraction. *)
Reorder(item, days) ==
    LET above == item.stock - item.point
    IN IF item.consumed > 0 /\ above > 0 THEN [n |-> above * days, d |-> item.consumed]
       ELSE IF above <= 0 THEN [n |-> 0, d |-> 1]
       ELSE [n |-> 999, d |-> 1]

Urgency(at) ==
    IF at.n <= 3 * at.d THEN "critical" ELSE IF at.n <= 7 * at.d THEN "warning" ELSE "normal"

(* The forecast by item, soonest first; the days shown are in tenths. *)
Reorders(items, days) ==
    LET Entry(i) == LET at == Reorder(items[i], days)
                    IN [item |-> items[i], days |-> Rounded(at.n * 10, at.d), urgency |-> Urgency(at)]
    IN SortSeq([i \in DOMAIN items |-> Entry(i)], LAMBDA a, b : a.days < b.days)

(* fit of fewer than seven points: the average, in hundredths. *)
Average(points) == Rounded(Sum(points) * 100, Len(points))

(* predict, in tenths of what is shown: the forecast of day h and its       *)
(* interval, floored at nothing; then the whole portions of a demand. *)
Predict(model, h) ==
    LET point == AtLeast(0, model.level + model.trend * h + model.index)
        width == model.spread[h]
    IN [predicted |-> Rounded(point, 10), lower |-> AtLeast(0, Rounded(point - width, 10)),
        upper |-> Rounded(point + width, 10)]

Portions(p) == [predicted |-> Rounded(p.predicted, 10), lower |-> Floor(p.lower, 10), upper |-> Ceil(p.upper, 10)]

(* accuracy: how much of the spread a model explains, in ten thousandths. *)
Accuracy(points, predicted) ==
    LET n == Len(points)
        mean == Sum(points)
        total == Sum([i \in 1..n |-> (n * points[i] - mean) * (n * points[i] - mean)])
        missed == Sum([i \in 1..n |-> n * n * (points[i] - predicted[i]) * (points[i] - predicted[i])])
    IN IF n < 2 THEN 0 ELSE IF total = 0 THEN 10000
       ELSE Rounded(AtLeast(0, total - missed) * 10000, total)

-----------------------------------------------------------------------------
Init ==
    /\ answer = <<>>
    /\ \/ question \in [ask : {"shares"}, counts : UpTo(Amounts, 4)]
       \/ question \in [ask : {"top"}, limit : 1..2,
                        items : UpTo([quantity : 1..3, revenue : Amounts], 3)]
       \/ question \in [ask : {"turnover"}, consumed : Amounts, stock : Amounts, days : Periods]
       \/ question \in [ask : {"waste"}, cost : Amounts,
                        moves : UpTo([reason : {"damaged", "expired"}, delta : {-a : a \in Amounts}], 3)]
       \/ question \in [ask : {"reorder"}, days : Periods,
                        items : UpTo([stock : Amounts, point : Amounts, consumed : Amounts], 2)]
       \/ question \in [ask : {"average"}, points : UpTo(Amounts, 4) \ {<<>>}]
       \/ question \in [ask : {"predict"}, h : 1..3,
                        model : [level : Levels, trend : Levels, index : Levels,
                                 spread : {<<w, (7 * w) \div 5, (7 * w) \div 4>> : w \in Spreads}]]
       \/ \E n \in 1..3 : question \in [ask : {"accuracy"}, points : [1..n -> Amounts], predicted : [1..n -> Amounts]]

Answer(q) ==
    CASE q.ask = "shares"   -> Shares(q.counts)
      [] q.ask = "top"      -> TopSelling(q.items, q.limit)
      [] q.ask = "turnover" -> Turnover(q.consumed, q.stock, q.days)
      [] q.ask = "waste"    -> Waste(q.moves, q.cost)
      [] q.ask = "reorder"  -> Reorders(q.items, q.days)
      [] q.ask = "average"  -> Average(q.points)
      [] q.ask = "predict"  -> <<Predict(q.model, q.h), Portions(Predict(q.model, q.h))>>
      [] q.ask = "accuracy" -> Accuracy(q.points, q.predicted)

Next == /\ answer = <<>>
        /\ answer' = <<Answer(question)>> /\ UNCHANGED question

Spec == Init /\ [][Next]_figures

-----------------------------------------------------------------------------
Asked(kind) == answer # <<>> /\ question.ask = kind
Apart(a, b) == IF a >= b THEN a - b ELSE b - a

(* Shares keep the order of the counts and sum to the whole but for half a  *)
(* hundredth each. *)
SharesSumUp ==
    Asked("shares") =>
      LET c == question.counts
          s == answer[1]
      IN /\ \A i, j \in DOMAIN c : c[i] <= c[j] => s[i] <= s[j]
         /\ Sum(c) > 0 => 2 * Apart(Sum(s), 10000) <= Len(c)

(* Nothing outside the list sold more than what is on it, and an average    *)
(* price times the portions is the revenue but for the rounding. *)
TopIsTop ==
    Asked("top") =>
      LET on == answer[1]
          sold == [i \in DOMAIN on |-> on[i].quantity]
          Selling(q) == Len(SelectSeq(question.items, LAMBDA it : it.quantity >= q))
      IN \A i \in DOMAIN on :
           /\ Selling(sold[i]) >= i /\ Len(SelectSeq(question.items, LAMBDA it : it.quantity > sold[i])) < i
           /\ \E it \in Range(question.items) :
                it.quantity = sold[i] /\ 2 * Apart(on[i].price * sold[i], it.revenue) <= sold[i]

(* What turns over faster lasts shorter: where both are defined the rate    *)
(* and the days of supply are the two views of one ratio. *)
TurnoverIsSupply ==
    Asked("turnover") /\ question.stock > 0 /\ question.consumed > 0 =>
      LET t == answer[1]
      IN 2 * Apart(t.rate * question.stock, 100 * question.consumed) <= question.stock
         /\ 2 * Apart(t.supply * question.consumed, 10 * question.stock * question.days) <= question.consumed

(* Waste loses no movement: damage and expiry never cancel out. *)
WasteIsAll ==
    Asked("waste") =>
      LET all == Sum([i \in DOMAIN question.moves |-> question.moves[i].delta])
      IN answer[1].total = -all /\ answer[1].cost = (-all) * question.cost

(* The list starts with what must be ordered now: an item at or under its   *)
(* point is critical and none that is above comes before it; no item is     *)
(* called normal that runs dry before one that is called a warning. *)
SoonestFirst ==
    Asked("reorder") =>
      LET list == answer[1]
          Now(i) == list[i].item.stock <= list[i].item.point
      IN /\ Len(list) = Len(question.items)
         /\ \A i \in DOMAIN list : Now(i) => list[i].urgency = "critical" /\ list[i].days = 0
         /\ \A i, j \in DOMAIN list : i < j =>
              /\ list[i].days <= list[j].days
              /\ list[i].urgency = "normal" => list[j].urgency = "normal" \/ list[i].days = list[j].days

(* A forecast lies in its interval, which is never below nothing, before    *)
(* and after the rounding to whole portions; and the accuracy that the      *)
(* scoring guard looks at is between none and all. *)
ForecastInInterval ==
    /\ Asked("predict") =>
         \A i \in 1..2 : LET p == answer[1][i] IN 0 <= p.lower /\ p.lower <= p.predicted /\ p.predicted <= p.upper
    /\ Asked("accuracy") => answer[1] \in 0..10000
    /\ Asked("average") =>
         /\ \E p \in Range(question.points) : 100 * p <= answer[1]
         /\ \E p \in Range(question.points) : 100 * p >= answer[1]

FiguresSound ==
    SharesSumUp /\ TopIsTop /\ TurnoverIsSupply /\ WasteIsAll /\ SoonestFirst /\ ForecastInInterval
=============================================================================
