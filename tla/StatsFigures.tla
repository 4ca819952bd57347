----------------------------- MODULE StatsFigures -----------------------------
(***************************************************************************)
(* The figures of the Stats page and of the dashboard tiles, as functions  *)
(* of the API's answer: the order of a table, the keys listed beside the   *)
(* activity, the bars of the daily charts, the slices of the donuts, the   *)
(* rows of the usage breakdown, the tiles and the budget bar.  Figures are *)
(* small numbers; the formatting of them is left out.                      *)
(***************************************************************************)
EXTENDS Integers, Sequences, FiniteSetsExt

CONSTANT SliceN            \* named slices of the usage donut

ASSUME FiguresAssumption == SliceN \in Nat \ {0}

(* Missing stands for null, undefined and non-finite figures. *)
Missing == -1
Figure == Nat \cup {Missing}
asNumber(v) == IF v = Missing THEN 0 ELSE v

(* Array.reduce: the figures of a column added up, from the first on. *)
total(column) ==
    LET upTo[n \in 0..Len(column)] == IF n = 0 THEN 0 ELSE upTo[n - 1] + column[n]
    IN upTo[Len(column)]
sumOf(rows, figure(_)) == total([i \in DOMAIN rows |-> figure(rows[i])])
----------------------------------------------------------------------------
(* sort.ts, and the header clicks of the three sortable tables. *)
compareValues(a, b, dir) ==
    IF a = Missing /\ b = Missing THEN 0
    ELSE IF a = Missing THEN 1
    ELSE IF b = Missing THEN -1
    ELSE IF dir = "asc" THEN a - b ELSE b - a

(* The elements of a finite set, in the order of the relation R. *)
Arranged(S, R) ==
    [n \in 1..Cardinality(S) |->
        CHOOSE i \in S : Cardinality({j \in S : <<j, i>> \in R}) = n - 1]

(* Array.filter: the rows that pass a test, in the order they had. *)
rowsAt(rows, kept) ==
    LET order == Arranged(kept, {p \in kept \X kept : p[1] < p[2]})
    IN [n \in 1..Cardinality(kept) |-> rows[order[n]]]
filterRows(rows, test(_)) == rowsAt(rows, {i \in DOMAIN rows : test(rows[i])})

(* The indices of a column in their order; ties keep the order they had. *)
sortOrder(column, dir) ==
    LET Before(j, i) == LET c == compareValues(column[j], column[i], dir)
                        IN IF c # 0 THEN c < 0 ELSE j < i
        S == DOMAIN column
    IN Arranged(S, {p \in S \X S : Before(p[1], p[2])})
sortedBy(rows, column, dir) ==
    LET order == sortOrder(column, dir) IN [n \in DOMAIN rows |-> rows[order[n]]]
sortRows(rows, accessor(_), dir) ==
    sortedBy(rows, [i \in DOMAIN rows |-> accessor(rows[i])], dir)

(* The same column flips, another one starts descending. *)
toggleSort(sort, col) ==
    [key |-> col, dir |-> IF sort.key = col /\ sort.dir = "desc" THEN "asc" ELSE "desc"]
----------------------------------------------------------------------------
(* TopKeys; names are numbers in their collation order, 0 is none. *)
StatsKeyRow == [id : Nat, alias : Nat, requests : Nat, spend : Nat, pct : Figure]
KeyRow == [id : Nat, alias : Nat, revoked : BOOLEAN]
KeySortKey == {"key", "requests", "spend", "pct"}

(* The key list has one row per key, whose id is the hash of its opaque    *)
(* alias; a row may be without an id.  The activity may have several rows  *)
(* of one id: resolve_key_display gives the hashes of a regenerated key    *)
(* the id of its entry.                                                    *)
OneRowPerKey(rows) ==
    \A i, j \in DOMAIN rows : rows[i].id = rows[j].id /\ i # j => rows[i].id = 0

(* A row that is this key's own, and an activity row of another key that   *)
(* bears this key's name: two keys may share a friendly name.              *)
IsNamed(k) == k.id # 0 \/ k.alias # 0
IsRowOf(row, k) == row.id = k.id /\ (k.id = 0 => row.alias = k.alias)
IsNamesake(row, k) ==
    row.id # k.id /\ {row.id, row.alias} \cap ({k.id, k.alias} \ {0}) # {}

keyAccessor(col, k) == CASE col = "key" -> IF k.alias # 0 THEN k.alias ELSE k.id
                         [] col = "requests" -> k.requests
                         [] col = "spend" -> k.spend
                         [] col = "pct" -> k.pct
isActive(k) == k.requests > 0 \/ k.spend > 0

Padded(k) == [id |-> k.id, alias |-> k.alias, requests |-> 0, spend |-> 0, pct |-> 0]

(* Mutant: activity rows are known by their alias only. *)
mergeByAlias(statsKeys, userKeys) ==
    LET seen == {statsKeys[i].alias : i \in DOMAIN statsKeys} \ {0}
        New(k) == (k.id # 0 \/ k.alias # 0) /\ k.alias \notin seen
        fresh == filterRows(userKeys, New)
        spend(k) == k.spend
    IN sortRows(statsKeys \o [i \in DOMAIN fresh |-> Padded(fresh[i])], spend, "desc")

(* mergeTopKeys: the activity rows, then the keys of the user that none of *)
(* them names by id or by alias, by spend.                                 *)
mergeTopKeys(statsKeys, userKeys) ==
    LET seen == ({statsKeys[i].id : i \in DOMAIN statsKeys}
                 \cup {statsKeys[i].alias : i \in DOMAIN statsKeys}) \ {0}
        New(k) == (k.id # 0 \/ k.alias # 0) /\ {k.id, k.alias} \cap seen = {}
        fresh == filterRows(userKeys, New)
        spend(k) == k.spend
    IN sortRows(statsKeys \o [i \in DOMAIN fresh |-> Padded(fresh[i])], spend, "desc")
----------------------------------------------------------------------------
(* The daily charts: the server fills the days without activity with zeros.*)
StatsSeriesPoint == [requests : Figure, failed : Figure, spend : Figure, input : Figure, output : Figure]

seriesHasActivity(series) == \E i \in DOMAIN series : asNumber(series[i].requests) > 0

seriesToRecharts(series) ==
    [i \in DOMAIN series |->
        LET requests == asNumber(series[i].requests)
            failed == Min({requests, asNumber(series[i].failed)})
        IN [requests |-> requests, failed |-> failed, success |-> Max({0, requests - failed}),
            spend |-> asNumber(series[i].spend),
            input |-> asNumber(series[i].input), output |-> asNumber(series[i].output)]]

(* The bars stacked on one day of REQUESTS BY DAY. *)
dayBars(metric, p) == CASE metric = "requests" -> <<p.success, p.failed>>
                        [] metric = "tokens" -> <<p.input, p.output>>
                        [] metric = "failed" -> <<p.failed>>
spendArea(series) == IF seriesHasActivity(series)
                     THEN [i \in DOMAIN series |-> seriesToRecharts(series)[i].spend] ELSE <<>>
requestBars(series, metric) ==
    IF seriesHasActivity(series)
    THEN [i \in DOMAIN series |-> dayBars(metric, seriesToRecharts(series)[i])] ELSE <<>>

(* The bars of a day are its requests, and both charts are empty on the    *)
(* same days, the ones without a request.                                  *)
BarsAddUp(series, metric) ==
    LET bars == requestBars(series, metric)
    IN /\ \A i \in DOMAIN bars :
            LET requests == asNumber(series[i].requests)
            IN /\ metric = "requests" => bars[i][1] + bars[i][2] = requests
               /\ metric = "failed" => bars[i][1] <= requests
       /\ bars = <<>> <=> \A i \in DOMAIN series : asNumber(series[i].requests) = 0
       /\ bars = <<>> <=> spendArea(series) = <<>>
----------------------------------------------------------------------------
(* The usage donut.  A model name is a number whose tens are its provider  *)
(* (0: no prefix); 0 is a row without a name.  hit: the search matches it. *)
StatsModelRow == [model : Nat, kind : {"model", "tool", "protocol"}, hit : BOOLEAN,
                  requests : Figure, tokens : Figure, spend : Figure, pct : Figure]

NamedSlice(m) == [model |-> m.model, spend |-> asNumber(m.spend), pct |-> m.pct, isOther |-> FALSE]
OtherSlice(rest) ==
    LET known == filterRows(rest, LAMBDA m : m.pct # Missing)
    IN [model |-> 0, spend |-> sumOf(rest, LAMBDA m : asNumber(m.spend)),
        pct |-> IF known = <<>> THEN Missing ELSE sumOf(known, LAMBDA m : m.pct),
        isOther |-> TRUE]

(* Mutant: the rest starts one row too late. *)
rankSlicesSkip(models) ==
    LET spend(m) == asNumber(m.spend)
        list == sortRows(models, spend, "desc")
        n == Min({SliceN, Len(list)})
        top == [i \in 1..n |-> NamedSlice(list[i])]
        rest == SubSeq(list, n + 2, Len(list))
    IN IF rest = <<>> THEN top ELSE Append(top, OtherSlice(rest))

rankSlices(models) ==
    LET spend(m) == asNumber(m.spend)
        list == sortRows(models, spend, "desc")
        n == Min({SliceN, Len(list)})
        top == [i \in 1..n |-> NamedSlice(list[i])]
        rest == SubSeq(list, n + 1, Len(list))
    IN IF rest = <<>> THEN top ELSE Append(top, OtherSlice(rest))

(* displayNames: a provider shared by every named slice is left out. *)
displayNames(slices) ==
    LET provs == {slices[i].model \div 10 : i \in {n \in DOMAIN slices : ~slices[n].isOther}}
        strip == Cardinality(provs) = 1 /\ provs # {0}
    IN [i \in DOMAIN slices |-> IF strip /\ ~slices[i].isOther THEN slices[i].model % 10
                                ELSE slices[i].model]
donutTotal(slices, totalSpend) ==
    IF totalSpend # Missing THEN totalSpend ELSE sumOf(slices, LAMBDA s : s.spend)

(* The slices are worth what the models are worth, the largest are named   *)
(* and the shortened names tell the models apart.                          *)
DonutAddsUp(slices, models) ==
    LET names == displayNames(slices)
        spend(m) == asNumber(m.spend)
    IN /\ donutTotal(slices, Missing) = sumOf(models, spend)
       /\ Len(slices) <= SliceN + 1
       /\ \A i \in DOMAIN slices : ~slices[i].isOther =>
            Cardinality({m \in DOMAIN models : spend(models[m]) > slices[i].spend}) < i
       /\ \A i, j \in DOMAIN slices :
            ~slices[i].isOther /\ ~slices[j].isOther /\ names[i] = names[j]
              => slices[i].model = slices[j].model
----------------------------------------------------------------------------
(* USAGE BREAKDOWN: rows of models, of MCP tools, and of MCP protocol      *)
(* traffic, which is noise unless the MCP rows are asked for.              *)
isMcpModelRow(m) == m.kind \in {"tool", "protocol"}
isMcpProtocolRow(m) == m.kind = "protocol"
applyUsageTypeFilter(rows, type) ==
    IF type = "all" THEN filterRows(rows, LAMBDA m : ~isMcpProtocolRow(m))
    ELSE filterRows(rows, LAMBDA m : isMcpModelRow(m) <=> type = "mcp")

(* The columns of ModelTable; the token columns behave alike. *)
UsageSortKey == {"type", "model", "requests", "tokens", "spend", "pct"}
modelAccessor(col, m) == CASE col = "type" -> IF isMcpModelRow(m) THEN 1 ELSE 0
                           [] col = "model" -> IF m.model = 0 THEN Missing ELSE m.model
                           [] col = "requests" -> m.requests
                           [] col = "tokens" -> m.tokens
                           [] col = "spend" -> m.spend
                           [] col = "pct" -> m.pct
----------------------------------------------------------------------------
(* Latency and outcomes.  outcomes[s]: requests that ended with status s.  *)
LatencyByModel == [model : Nat, requests : Nat, p50 : Figure, p95 : Figure, failed : Nat]
outcomeTotal(outcomes) == MapThenSumSet(LAMBDA s : outcomes[s], DOMAIN outcomes)

(* The columns of the latency table; err is a share, in thousandths. *)
LatencySortKey == {"model", "requests", "latency", "p95", "err"}
latencyAccessor(col, m) == CASE col = "model" -> m.model
                             [] col = "requests" -> m.requests
                             [] col = "latency" -> m.p50
                             [] col = "p95" -> m.p95
                             [] col = "err" -> IF m.requests > 0 THEN (m.failed * 1000) \div m.requests
                                               ELSE Missing
----------------------------------------------------------------------------
(* The tiles.  A delta against the window before is "up", "down", "flat"   *)
(* or, without a baseline, "none"; spending more is bad.                   *)
deltaTone(delta, invert) ==
    IF delta \in {"none", "flat"} THEN delta
    ELSE IF (delta = "up") # invert THEN "good" ELSE "bad"

NoTotals == [requests |-> Missing, failed |-> Missing, tokens |-> Missing, output |-> Missing,
             spend |-> Missing, avg |-> Missing,
             delta |-> [f \in {"requests", "tokens", "spend", "avg"} |-> "none"]]

(* kpiCards: value, colour of the delta, whether a detail stands beside it;*)
(* another card may take the place of the fourth.                          *)
kpiCards(t, fourthCard) ==
    LET cards == <<[value |-> t.requests, tone |-> deltaTone(t.delta.requests, FALSE), sub |-> t.failed > 0],
                   [value |-> t.tokens, tone |-> deltaTone(t.delta.tokens, FALSE), sub |-> t.output > 0],
                   [value |-> t.spend, tone |-> deltaTone(t.delta.spend, TRUE), sub |-> FALSE],
                   [value |-> t.avg, tone |-> deltaTone(t.delta.avg, TRUE), sub |-> FALSE]>>
    IN [i \in 1..(IF fourthCard THEN 3 ELSE 4) |-> cards[i]]
----------------------------------------------------------------------------
(* The budget bar of the Stats page. *)
StatsBudget == [has : BOOLEAN, current : Figure, max : Figure]
budgetState(b) == IF ~b.has \/ b.max = Missing THEN "none"
                  ELSE IF asNumber(b.current) > b.max THEN "over" ELSE "ok"

(* budgetFillClass, from the ratio current / max: a maximum of 0 fills it. *)
budgetFillClass(current, max) ==
    IF max <= 0 \/ 10 * current >= 9 * max THEN "destructive"
    ELSE IF 10 * current >= 8 * max THEN "warning" ELSE "neutral"

(* The ghost of a monthly budget: the run rate to the end of the month of  *)
(* dim days, seen on its given day, where it reaches past the fill.        *)
projectionShown(current, max, monthly, day, dim) ==
    /\ monthly /\ max > 0
    /\ Min({current * dim, max * day}) > Min({current * day, max * day})
=============================================================================
