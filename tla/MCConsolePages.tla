--------------------------- MODULE MCConsolePages ---------------------------
(* Four days in two months, the year starting with the first; the rolling  *)
(* windows and the caps scaled down so that they bite.  Answers chosen so  *)
(* that every panel state occurs: activity rows without an alias, without  *)
(* a share, two of one regenerated key; idle, revoked and nameless keys,   *)
(* and an idle one with the name of an active one; more models than        *)
(* slices, of one provider or tied, with MCP tools and the noise of the    *)
(* protocol; days without figures or with more failures than requests; a   *)
(* budget reached and exceeded; a degraded gateway; catalogs of one and of *)
(* two modes.                                                              *)
EXTENDS ConsolePages
MCMonthStart(d) == IF d % 2 = 1 THEN d ELSE d - 1
MCYearStart(d) == 1
MCWindow == [p \in RollingPresets |-> CASE p = "7d" -> 1 [] p = "30d" -> 2 [] p = "90d" -> 4]
MCColumns == [keys |-> {"key", "requests", "pct"}, models |-> {"type", "model", "spend"},
              latency |-> {"requests", "latency", "err"}]
Stat(i, a, n, s, p) == [id |-> i, alias |-> a, requests |-> n, spend |-> s, pct |-> p]
Key(i, a, r) == [id |-> i, alias |-> a, revoked |-> r]
Usage(m, k, h, s, p) == [model |-> m, kind |-> k, hit |-> h, requests |-> 1, tokens |-> s,
                         spend |-> s, pct |-> p]
Point(n, f, s) == [requests |-> n, failed |-> f, spend |-> s, input |-> n, output |-> 1]
Full == [avail |-> TRUE,
         rows |-> <<Stat(1, 0, 2, 1, Missing), Stat(2, 5, 1, 3, 7), Stat(2, 5, 1, 0, 0)>>,
         models |-> <<Usage(11, "model", TRUE, 2, 4), Usage(0, "tool", FALSE, 0, Missing),
                      Usage(12, "model", FALSE, 5, 10), Usage(13, "protocol", TRUE, 1, 2)>>,
         series |-> <<Point(2, 1, 4), Point(1, 2, 0), Point(0, 0, 0)>>,
         totals |-> [requests |-> 3, failed |-> 1, tokens |-> 8, output |-> 2, spend |-> 4, avg |-> 1,
                     delta |-> [NoTotals.delta EXCEPT !.spend = "up"]],
         budget |-> [has |-> TRUE, current |-> 4, max |-> 3]]
Tied == [Full EXCEPT !.models = <<Usage(11, "model", TRUE, 3, 4), Usage(21, "model", TRUE, 3, 4),
                                  Usage(12, "tool", FALSE, 3, 4)>>,
                     !.series = <<Point(Missing, 1, Missing), Point(1, Missing, 9)>>,
                     !.budget = [has |-> TRUE, current |-> 2, max |-> 2]]
Idle == [avail |-> FALSE, rows |-> <<>>, models |-> <<>>, series |-> <<Point(0, 0, 0)>>,
         totals |-> [NoTotals EXCEPT !.requests = 0, !.spend = 0],
         budget |-> [has |-> FALSE, current |-> 0, max |-> Missing]]
Timing(m, n, p, f) == [model |-> m, requests |-> n, p50 |-> p, p95 |-> p, failed |-> f]
Catalog(av, rs) == [avail |-> av, rows |-> rs]
Model(n, md, cs, h, ag) == [name |-> n, mode |-> md, caps |-> cs, hit |-> h, agent |-> ag]
MCAnswers(n) ==
    CASE n = "stats" -> {Full, Tied, Idle}
      [] n = "keys" -> {Catalog(TRUE, <<Key(1, 4, FALSE), Key(2, 5, FALSE), Key(3, 6, TRUE),
                                     Key(7, 5, FALSE), Key(0, 0, FALSE)>>)}
      [] n = "latency" -> {[avail |-> TRUE, count |-> 3,
                            rows |-> <<Timing(1, 2, 9, 1), Timing(2, 0, Missing, 0), Timing(3, 1, 4, 1)>>,
                            outcomes |-> [s \in {"success", "failure"} |-> IF s = "success" THEN 1 ELSE 2]],
                           [avail |-> FALSE, count |-> 0, rows |-> <<>>,
                            outcomes |-> [s \in {} |-> 0]]}
      [] n = "models" -> {Catalog(TRUE, {Model("x", "chat", {"vision"}, TRUE, FALSE),
                                         Model("y", "image_generation", {}, FALSE, FALSE),
                                         Model("z", "responses", {}, TRUE, TRUE)}),
                          Catalog(TRUE, {Model("y", "image_generation", {}, FALSE, FALSE)})}
      [] OTHER -> {Catalog(TRUE, {[hit |-> FALSE]}), Catalog(TRUE, {}), Catalog(FALSE, {})}
=============================================================================
