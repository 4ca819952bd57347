----------------------------- MODULE ConsolePages -----------------------------
(***************************************************************************)
(* The reading pages of the browser console: the tiles of the dashboard,   *)
(* Stats with its date range, calendar and panels, the Models, MCP and A2A *)
(* catalogs and the model picker of the how-to page, over the query cache  *)
(* the router keeps while pages come and go.  The local state of a page or *)
(* a panel lives while it is mounted; the cache outlives it.  Answers      *)
(* arrive in any order, fail, or are dropped because nobody asks for them  *)
(* any more; the day changes under an open page.                           *)
(***************************************************************************)
EXTENDS StatsFigures

CONSTANTS Days,            \* days of the calendar, as numbers
          Todays,          \* the days the console is used on
          MonthStart(_), YearStart(_),   \* first day of the month, of the year
          Window,          \* days of the rolling presets
          MaxRangeDays,    \* MAX_RANGE_DAYS
          TopN,            \* TOP_N
          Answers(_),      \* what the API may answer to a query
          NoDay,           \* no day picked yet
          Columns,         \* the columns of each sortable table that are clicked
          Placeholder,     \* MODEL_PLACEHOLDER of the how-to page
          MaxEvents        \* bound on clicks, reconnects and failures in a document

RollingPresets == {"7d", "30d", "90d"}
Presets == RollingPresets \cup {"This month", "Last month", "This year", "Custom"}

ASSUME PagesAssumption ==
    /\ Days \subseteq Int /\ Todays \subseteq Days /\ NoDay \notin Int
    /\ \A d \in Days : /\ MonthStart(d) \in Int /\ MonthStart(d) <= d
                       /\ YearStart(d) \in Int /\ YearStart(d) <= d
    /\ \A d \in Todays : MonthStart(d) - 1 \in Days
    /\ Window \in [RollingPresets -> Nat \ {0}]
    /\ MaxRangeDays \in Nat \ {0} /\ TopN \in Nat \ {0} /\ MaxEvents \in Nat
    /\ DOMAIN Columns \subseteq {"keys", "models", "latency"}
    /\ "keys" \in DOMAIN Columns => Columns["keys"] \subseteq KeySortKey
    /\ "models" \in DOMAIN Columns => Columns["models"] \subseteq UsageSortKey
    /\ "latency" \in DOMAIN Columns => Columns["latency"] \subseteq LatencySortKey
    /\ \A d \in Todays : IsFiniteSet({e \in Days : MonthStart(e) = MonthStart(d)})

(* The key list gives every key an id of its own; the activity rows may    *)
(* share one.                                                              *)
ASSUME AnswersAssumption ==
    /\ \A a \in Answers("stats") : /\ a.avail \in BOOLEAN
                                   /\ a.rows \in Seq(StatsKeyRow)
                                   /\ a.models \in Seq(StatsModelRow)
                                   /\ a.series \in Seq(StatsSeriesPoint)
                                   /\ a.budget \in StatsBudget
    /\ \A a \in Answers("keys") : a.rows \in Seq(KeyRow) /\ OneRowPerKey(a.rows)
    /\ \A a \in Answers("latency") : a.rows \in Seq(LatencyByModel)

VARIABLES route, today,
          cache, fetch,       \* cache[k], fetch[k]: an entry, the query in flight
          preset, range, cal, \* Stats and DateRange
          usage, panel,       \* toggles of Stats, local state of its panels
          modes, caps, search,   \* filters of Models, search of a table
          picked,             \* HowTo
          events

queryVars == <<cache, fetch>>
rangeVars == <<preset, range, cal>>
tableVars == <<usage, modes, caps, search, picked>>
vars == <<route, today, queryVars, rangeVars, tableVars, panel, events>>

Routes == {"dashboard", "stats", "models", "howto", "mcp", "a2a"}
Ranged == {"stats", "latency"}
Ranges == [start : Int, end : Int]
NoRange == [start |-> 0, end |-> 0]
Closed == [open |-> FALSE, view |-> NoDay, start |-> NoDay, end |-> NoDay]
NoAnswer == [avail |-> FALSE, rows |-> {}]
NoQuery == [name |-> "none", range |-> NoRange]
NoEntry == [st |-> "pending", ans |-> NoAnswer, asked |-> NoQuery]

TypeOK ==
    /\ route \in Routes /\ today \in Todays
    /\ preset \in Presets /\ range \in Ranges
    /\ cal \in [open : BOOLEAN, view : Int \cup {NoDay},
               start : Days \cup {NoDay}, end : Days \cup {NoDay}]
    /\ DOMAIN fetch \subseteq DOMAIN cache
    /\ \A k \in DOMAIN cache : cache[k].st \in {"pending", "error", "data"}
    /\ usage \in [type : {"all", "model", "mcp"}, metric : {"requests", "tokens", "failed"}]
    /\ panel.idle \in BOOLEAN /\ search \in BOOLEAN
    /\ events \in 0..MaxEvents
----------------------------------------------------------------------------
(* stats-presets.ts *)
inclusiveSpan(r) == r.end - r.start + 1
clampRange(s, e) ==
    IF inclusiveSpan([start |-> s, end |-> e]) > MaxRangeDays
    THEN [start |-> e - (MaxRangeDays - 1), end |-> e]
    ELSE [start |-> s, end |-> e]
rollingDays(n, now) == clampRange(now - (n - 1), now)
presetToRange(p, now) ==
    LET lastOfPrev == MonthStart(now) - 1
    IN CASE p \in RollingPresets -> rollingDays(Window[p], now)
         [] p = "This month" -> clampRange(MonthStart(now), now)
         [] p = "Last month" -> clampRange(MonthStart(lastOfPrev), lastOfPrev)
         [] p = "This year" -> clampRange(YearStart(now), now)
         [] p = "Custom" -> rollingDays(Window["30d"], now)

(* The panel state of a figure the server may not be able to tell. *)
capabilityRenderMode(avail, hasData) ==
    IF ~avail THEN "coming-soon" ELSE IF hasData THEN "ready" ELSE "empty"
----------------------------------------------------------------------------
(* The query keys of the hooks. *)
Query(n, r) == [name |-> n, range |-> IF n \in Ranged THEN r ELSE NoRange]

(* Mutant: the key of a ranged query carries only the start. *)
queryKeyStart(q) == IF q.name \in Ranged THEN <<q.name, q.range.start>> ELSE <<q.name>>

queryKey(q) == IF q.name \in Ranged THEN <<q.name, q.range.start, q.range.end>>
                                    ELSE <<q.name>>

(* The queries a page observes while it is mounted. *)
Observes(rt, r) ==
    LET names == [dashboard |-> {"stats", "keys"}, stats |-> {"stats", "latency", "keys"},
                  models |-> {"models"}, howto |-> {"models"}, mcp |-> {"mcp"}, a2a |-> {"a2a"}]
    IN {Query(n, r) : n \in names[rt]}
Observed == Observes(route, range)
entry(q) == IF queryKey(q) \in DOMAIN cache THEN cache[queryKey(q)] ELSE NoEntry
HasData(k) == k \in DOMAIN cache /\ cache[k].asked # NoQuery

(* A fetch starts: an entry without data is pending again. *)
StartFetch(K, Q) ==
    /\ fetch' = [k \in K |-> IF k \in DOMAIN fetch THEN fetch[k]
                             ELSE CHOOSE q \in Q : queryKey(q) = k]
    /\ cache' = [k \in DOMAIN cache \cup K |->
                    IF k \in DOMAIN cache /\ (HasData(k) \/ k \notin K) THEN cache[k] ELSE NoEntry]

(* What the query client does when the observed queries become Q: a query  *)
(* newly observed is read if it has no data or its data is stale, and a    *)
(* read nobody observes any more is aborted.                               *)
Reobserve(Q) ==
    LET now == {queryKey(q) : q \in Q}
        new == now \ {queryKey(q) : q \in Observed}
    IN \E stale \in SUBSET {k \in new : HasData(k)} :
         StartFetch((DOMAIN fetch \cap now) \cup {k \in new : ~HasData(k)} \cup stale, Q)

(* A click of the user; the calendar is modal, and its own clicks but     *)
(* Apply are not counted.                                                  *)
Counted == events < MaxEvents /\ events' = events + 1
Click == Counted /\ ~cal.open

(* Any page mounts with its local state anew; Stats on the 7d preset, the  *)
(* dashboard for good on the month to date.                                *)
FirstPreset(rt) == IF rt = "dashboard" THEN "This month" ELSE "7d"
FreshUsage == [type |-> "all", metric |-> "requests"]
FreshPanel == [keys |-> [key |-> "spend", dir |-> "desc"], idle |-> FALSE,
               models |-> [key |-> "spend", dir |-> "desc"],
               latency |-> [key |-> "requests", dir |-> "desc"]]

Init ==
    /\ today \in Todays
    /\ route \in Routes
    /\ preset = FirstPreset(route) /\ range = presetToRange(FirstPreset(route), today)
    /\ cal = Closed /\ usage = FreshUsage /\ panel = FreshPanel
    /\ modes = {} /\ caps = {} /\ search = FALSE
    /\ picked = Placeholder
    /\ events = 0
    /\ fetch = [k \in {queryKey(q) : q \in Observed} |->
                   CHOOSE q \in Observed : queryKey(q) = k]
    /\ cache = [k \in DOMAIN fetch |-> NoEntry]

NavigateTo(to) ==
    /\ to # route /\ Click
    /\ route' = to
    /\ preset' = FirstPreset(to) /\ range' = presetToRange(FirstPreset(to), today)
    /\ cal' = Closed /\ usage' = FreshUsage /\ panel' = FreshPanel
    /\ modes' = {} /\ caps' = {} /\ search' = FALSE
    /\ picked' = Placeholder
    /\ Reobserve(Observes(to, range'))
    /\ UNCHANGED today

(* Midnight, UTC. *)
Tick ==
    /\ today + 1 \in Todays
    /\ today' = today + 1
    /\ UNCHANGED <<route, queryVars, rangeVars, tableVars, panel, events>>
----------------------------------------------------------------------------
Shown(e) == IF e.st = "error" THEN "error" ELSE IF e.st = "pending" THEN "loading" ELSE "body"
statsEntry == entry(Query("stats", range))
keysEntry == entry(Query("keys", range))
latencyEntry == entry(Query("latency", range))
StatsBody == route = "stats" /\ Shown(statsEntry) = "body"
LatencyMounted == /\ route = "stats" /\ Shown(statsEntry) # "error"
                  /\ Shown(latencyEntry) # "loading"

(* A panel that gives way to a skeleton or to the error card forgets its   *)
(* sort order and its toggle.                                              *)
Remount ==
    panel' = [w \in DOMAIN panel |->
                 IF IF w = "latency" THEN LatencyMounted' ELSE StatsBody'
                 THEN panel[w] ELSE FreshPanel[w]]

(* A read succeeds: queryFn returns on a 200 with a body. *)
Deliver(k, a) ==
    /\ k \in DOMAIN fetch /\ a \in Answers(fetch[k].name)
    /\ cache' = [cache EXCEPT ![k] = [st |-> "data", ans |-> a, asked |-> fetch[k]]]
    /\ fetch' = [j \in DOMAIN fetch \ {k} |-> fetch[j]]
    /\ UNCHANGED <<route, today, rangeVars, tableVars, events>>
    /\ Remount

(* The read and its one retry fail: queryFn throws, older data stays. *)
Fail(k) ==
    /\ k \in DOMAIN fetch /\ Counted
    /\ cache' = [cache EXCEPT ![k] = [st |-> "error", ans |-> cache[k].ans,
                                      asked |-> cache[k].asked]]
    /\ fetch' = [j \in DOMAIN fetch \ {k} |-> fetch[j]]
    /\ UNCHANGED <<route, today, rangeVars, tableVars>>
    /\ Remount

(* The network comes back: what is observed may be read again. *)
Reconnect(q) ==
    /\ q \in Observed /\ queryKey(q) \notin DOMAIN fetch /\ Counted
    /\ StartFetch(DOMAIN fetch \cup {queryKey(q)}, Observed)
    /\ UNCHANGED <<route, today, rangeVars, tableVars>>
    /\ Remount

(* The retry button of an error card; the latency panels have none, *)
(* nor have the tiles of the dashboard and the how-to page.                *)
Retry ==
    /\ Click
    /\ \E q \in Observed :
         /\ q.name \notin {"latency", "keys"} /\ route \notin {"howto", "dashboard"} /\ entry(q).st = "error"
         /\ StartFetch(DOMAIN fetch \cup {queryKey(q)}, Observed)
    /\ UNCHANGED <<route, today, rangeVars, tableVars>>
    /\ Remount
----------------------------------------------------------------------------
(* Stats: a new range is a new set of observed queries. *)
SetRange(p, r) ==
    /\ preset' = p /\ range' = r
    /\ Reobserve(Observes(route, r))

(* clickPreset: Custom only opens the calendar, on the current month. *)
ClickPreset(p) ==
    /\ route = "stats" /\ Click
    /\ IF p = "Custom"
       THEN /\ cal' = [open |-> TRUE, view |-> MonthStart(today), start |-> NoDay, end |-> NoDay]
            /\ UNCHANGED <<preset, range, queryVars>>
       ELSE /\ cal' = Closed
            /\ SetRange(p, presetToRange(p, today))
    /\ UNCHANGED <<route, today, tableVars>>
    /\ Remount

(* prevMonth and nextMonth, within the calendar of the model. *)
PageMonth(m) ==
    /\ cal.open
    /\ \/ cal.view - 1 \in Days /\ m = MonthStart(cal.view - 1)
       \/ m \in Days /\ m > cal.view /\ MonthStart(m) = m /\ MonthStart(m - 1) = cal.view
    /\ cal' = [cal EXCEPT !.view = m]
    /\ UNCHANGED <<route, today, preset, range, queryVars, tableVars, panel, events>>

(* Mutant: the second day picked is the end, even when it is earlier. *)
pickDayUnordered(d) ==
    IF cal.start = NoDay \/ cal.end # NoDay
    THEN [cal EXCEPT !.start = d, !.end = NoDay]
    ELSE [cal EXCEPT !.end = d]

pickDay(d) ==
    IF cal.start = NoDay \/ cal.end # NoDay
    THEN [cal EXCEPT !.start = d, !.end = NoDay]
    ELSE IF d < cal.start THEN [cal EXCEPT !.start = d, !.end = cal.start]
    ELSE [cal EXCEPT !.end = d]

PickDay(d) ==
    /\ cal.open /\ MonthStart(d) = cal.view
    /\ cal' = pickDay(d)
    /\ UNCHANGED <<route, today, preset, range, queryVars, tableVars, panel, events>>

(* Apply: a single day is a range of one.  Nothing is clamped. *)
Apply ==
    /\ cal.open /\ cal.start # NoDay /\ Counted
    /\ cal' = Closed
    /\ SetRange("Custom", [start |-> cal.start,
                           end |-> IF cal.end = NoDay THEN cal.start ELSE cal.end])
    /\ UNCHANGED <<route, today, tableVars>>
    /\ Remount

(* Cancel, or a click on the scrim. *)
Cancel ==
    /\ cal.open
    /\ cal' = Closed
    /\ UNCHANGED <<route, today, preset, range, queryVars, tableVars, panel, events>>
----------------------------------------------------------------------------
(* selectKeyRows: the rows of the last answer, none before it. *)
keyRows == IF keysEntry.asked = NoQuery THEN <<>> ELSE keysEntry.ans.rows
topKeys == mergeTopKeys(statsEntry.ans.rows, keyRows)
rankedKeys ==
    LET visible == sortRows(IF panel.idle THEN topKeys ELSE filterRows(topKeys, isActive),
                            LAMBDA k : keyAccessor(panel.keys.key, k), panel.keys.dir)
    IN IF panel.idle THEN visible ELSE SubSeq(visible, 1, Min({TopN, Len(visible)}))
TopKeysPanel ==
    LET mode == capabilityRenderMode(statsEntry.ans.avail, topKeys # <<>>)
    IN IF mode = "ready" /\ rankedKeys = <<>> THEN "empty" ELSE mode

(* USAGE BY MODEL, and the rows of USAGE BREAKDOWN. *)
slices == rankSlices(statsEntry.ans.models)
UsageDonut == IF statsEntry.ans.models = <<>> THEN "empty" ELSE "ready"
usageRows ==
    sortRows(filterRows(applyUsageTypeFilter(statsEntry.ans.models, usage.type),
                       LAMBDA m : ~search \/ m.hit),
             LAMBDA m : modelAccessor(panel.models.key, m), panel.models.dir)

(* LATENCY and REQUEST OUTCOMES. *)
LatencyPanel ==
    IF latencyEntry.st = "pending" THEN "loading"
    ELSE IF latencyEntry.st = "error" \/ ~latencyEntry.ans.avail THEN "unavailable"
    ELSE IF latencyEntry.ans.count = 0 THEN "empty" ELSE "ready"
latencyRows == sortRows(latencyEntry.ans.rows,
                        LAMBDA m : latencyAccessor(panel.latency.key, m), panel.latency.dir)
ErrorsDonut ==
    IF latencyEntry.st = "pending" THEN "loading"
    ELSE IF latencyEntry.st = "error" \/ ~latencyEntry.ans.avail THEN "unavailable"
    ELSE IF outcomeTotal(latencyEntry.ans.outcomes) = 0 THEN "empty" ELSE "ready"

(* The tiles of the dashboard: the month to date, and the active keys. *)
tiles == kpiCards(IF statsEntry.st = "data" THEN statsEntry.ans.totals ELSE NoTotals, TRUE)
activeKeys == IF keysEntry.st # "data" THEN Missing
              ELSE Cardinality({i \in DOMAIN keyRows : ~keyRows[i].revoked})

(* A header of TopKeys, of the usage breakdown or of the latency table. *)
onSort(table, col) ==
    /\ Click
    /\ CASE table = "keys" -> StatsBody /\ TopKeysPanel # "coming-soon" /\ topKeys # <<>>
         [] table = "models" -> StatsBody
         [] table = "latency" -> LatencyMounted /\ LatencyPanel = "ready" /\ latencyRows # <<>>
    /\ panel' = [panel EXCEPT ![table] = toggleSort(@, col)]
    /\ UNCHANGED <<route, today, queryVars, rangeVars, tableVars>>

ToggleIdle ==
    /\ StatsBody /\ TopKeysPanel # "coming-soon" /\ Click
    /\ \E i \in DOMAIN topKeys : ~isActive(topKeys[i])
    /\ panel' = [panel EXCEPT !.idle = ~panel.idle]
    /\ UNCHANGED <<route, today, queryVars, rangeVars, tableVars>>

(* The chips above USAGE BREAKDOWN and beside REQUESTS BY DAY. *)
UsageTypeFilter(type) ==
    /\ StatsBody /\ Click
    /\ usage' = [usage EXCEPT !.type = type]
    /\ UNCHANGED <<route, today, queryVars, rangeVars, modes, caps, search, picked, panel>>

RequestsMetricToggle(metric) ==
    /\ StatsBody /\ Click
    /\ usage' = [usage EXCEPT !.metric = metric]
    /\ UNCHANGED <<route, today, queryVars, rangeVars, modes, caps, search, picked, panel>>
----------------------------------------------------------------------------
(* The catalogs, as sets: the tables order them by name.  A row of Models  *)
(* has a mode (NoMode for none), the capabilities it supports, and whether *)
(* the text searched for is in it.                                         *)
NoMode == "none"
Toggled(S, x) == IF x \in S THEN S \ {x} ELSE S \cup {x}
catalogEntry == entry(Query(IF route = "howto" THEN "models" ELSE route, range))
CatalogBody == route \in {"models", "mcp", "a2a"} /\ Shown(catalogEntry) = "body"
matchesSearch(r) == ~search \/ r.hit
(* Agents are listed on the A2A page, not among the models. *)
catalogModels == {m \in catalogEntry.ans.rows : ~m.agent}
(* Modes that name the same kind of model are one filter; an unknown mode  *)
(* is one of its own.                                                      *)
MODE_MAP == [chat |-> "chat", completion |-> "chat", responses |-> "chat",
             embedding |-> "embeddings", image_generation |-> "image",
             audio_transcription |-> "audio", audio_speech |-> "audio",
             video_generation |-> "video"]
modeBucket(mode) == IF mode \in DOMAIN MODE_MAP THEN MODE_MAP[mode] ELSE mode
modelModeOptions == {modeBucket(m.mode) : m \in catalogModels} \ {NoMode}
visibleModels ==
    {m \in catalogModels : /\ caps \subseteq m.caps
                           /\ modes # {} => modeBucket(m.mode) \in modes
                           /\ matchesSearch(m)}
ModelsPanel == IF visibleModels = {} THEN "empty" ELSE "ready"

(* The MCP page lists servers, the A2A page agents. *)
Mcp == IF ~catalogEntry.ans.avail THEN "unavailable"
       ELSE IF catalogEntry.ans.rows = {} THEN "empty" ELSE "ready"
A2a == IF ~catalogEntry.ans.avail THEN "unavailable"
       ELSE IF catalogEntry.ans.rows = {} THEN "empty" ELSE "ready"

(* The MODE chips, there only for two modes or more. *)
ToggleMode(m) ==
    /\ CatalogBody /\ route = "models" /\ Click
    /\ Cardinality(modelModeOptions) >= 2 /\ m \in modelModeOptions
    /\ modes' = Toggled(modes, m)
    /\ UNCHANGED <<route, today, queryVars, rangeVars, usage, panel, caps, search, picked>>

ToggleCap(c) ==
    /\ CatalogBody /\ route = "models" /\ Click
    /\ caps' = Toggled(caps, c)
    /\ UNCHANGED <<route, today, queryVars, rangeVars, usage, panel, modes, search, picked>>

(* The All chips. *)
ClearFilters ==
    /\ CatalogBody /\ route = "models" /\ Click
    /\ \/ modes' = {} /\ Cardinality(modelModeOptions) >= 2 /\ UNCHANGED caps
       \/ caps' = {} /\ UNCHANGED modes
    /\ UNCHANGED <<route, today, queryVars, rangeVars, usage, panel, search, picked>>

TypeSearch ==
    /\ Click
    /\ \/ StatsBody
       \/ CatalogBody /\ (route = "mcp" => Mcp = "ready") /\ (route = "a2a" => A2a = "ready")
    /\ search' = ~search
    /\ UNCHANGED <<route, today, queryVars, rangeVars, usage, panel, modes, caps, picked>>

(* The model picker of the how-to page: every name in the catalog, and the *)
(* one picked even when the catalog lost it.                               *)
PickModel(m) ==
    /\ route = "howto" /\ Click
    /\ m \in {picked} \cup {r.name : r \in catalogEntry.ans.rows}
    /\ picked' = m
    /\ UNCHANGED <<route, today, queryVars, rangeVars, usage, panel, modes, caps, search>>
----------------------------------------------------------------------------
ModelRows == UNION {a.rows : a \in Answers("models")}

Next == \/ \E to \in Routes : NavigateTo(to)
        \/ Tick
        \/ \E k \in DOMAIN fetch : Fail(k) \/ \E a \in Answers(fetch[k].name) : Deliver(k, a)
        \/ \E q \in Observed : Reconnect(q)
        \/ Retry
        \/ \E p \in Presets : ClickPreset(p)
        \/ \E d \in Days : PageMonth(d) \/ PickDay(d)
        \/ Apply \/ Cancel
        \/ \E t \in DOMAIN Columns : \E col \in Columns[t] : onSort(t, col)
        \/ ToggleIdle
        \/ \E t \in {"all", "model", "mcp"} : UsageTypeFilter(t)
        \/ \E m \in {"requests", "tokens", "failed"} : RequestsMetricToggle(m)
        \/ \E m \in {modeBucket(r.mode) : r \in ModelRows} : ToggleMode(m)
        \/ \E c \in UNION {r.caps : r \in ModelRows} : ToggleCap(c)
        \/ ClearFilters \/ TypeSearch
        \/ \E m \in {r.name : r \in ModelRows} \cup {picked} : PickModel(m)

Spec == Init /\ [][Next]_vars
----------------------------------------------------------------------------
(* The range submitted is never reversed, whatever order the calendar was  *)
(* clicked in; a highlighted preset is within the server's cap and is the  *)
(* window it names on a day the page was open (presetToRange, pickDay).    *)
RangeSound ==
    /\ range.start <= range.end
    /\ preset # "Custom" =>
         /\ inclusiveSpan(range) <= MaxRangeDays
         /\ \E d \in Todays : d <= today /\ range = presetToRange(preset, d)

(* What a page claims is what the server answered to the question the page *)
(* asks now: figures are those of the selected range, whichever answers    *)
(* came late; "no requests" and "no servers" are said only of an answer    *)
(* that says so, never of a failed or a degraded read; and "no models"     *)
(* only of such an answer or of the user's own filters.                    *)
PanelsTellTruth ==
    /\ StatsBody =>
         /\ statsEntry.asked = Query("stats", range)
         /\ LatencyPanel \in {"empty", "ready"} =>
              latencyEntry.ans.avail /\ latencyEntry.asked = Query("latency", range)
         /\ ErrorsDonut \in {"empty", "ready"} =>
              latencyEntry.ans.avail /\ latencyEntry.asked = Query("latency", range)
    /\ route = "dashboard" =>
         /\ (\E i \in DOMAIN tiles : tiles[i].value # Missing)
              => statsEntry.asked = Query("stats", range)
         /\ activeKeys # Missing => keysEntry.asked = Query("keys", range)
    /\ CatalogBody =>
         /\ catalogEntry.asked = Query(route, range)
         /\ route = "mcp" /\ Mcp = "empty" => catalogEntry.ans.avail
         /\ route = "a2a" /\ A2a = "empty" => catalogEntry.ans.avail
         /\ route = "models" /\ ModelsPanel = "empty" /\ modes = {} /\ caps = {} /\ ~search
              => catalogModels = {}

(* TOP API KEYS with the idle keys shown: every key of the user has a row  *)
(* of its own, unless the activity row of another key bears its name; no   *)
(* key is listed beside its activity or twice idle, and the figures are    *)
(* those of the activity rows; in every view the rows are ordered and a    *)
(* missing figure comes last; "no usage" is said only of an answer without *)
(* activity, never of a degraded one.                                      *)
KeysListedOnce ==
    StatsBody =>
      LET user == keyRows
          stats == statsEntry.ans.rows
          top == topKeys
          shown == rankedKeys
      IN /\ \A u \in DOMAIN user : IsNamed(user[u]) =>
              \/ \E i \in DOMAIN top : IsRowOf(top[i], user[u])
              \/ \E k \in DOMAIN stats : IsNamesake(stats[k], user[u])
         /\ \A i, j \in DOMAIN top : top[i].id = top[j].id /\ top[i].id # 0 /\ i # j =>
              \E k \in DOMAIN stats : top[i] = stats[k]
         /\ {top[i] : i \in {n \in DOMAIN top : isActive(top[n])}}
              = {stats[i] : i \in {n \in DOMAIN stats : isActive(stats[n])}}
         /\ \A i, j \in DOMAIN shown : i < j =>
              compareValues(keyAccessor(panel.keys.key, shown[i]),
                            keyAccessor(panel.keys.key, shown[j]), panel.keys.dir) <= 0
         /\ \A i, j \in DOMAIN shown :
              i < j /\ keyAccessor(panel.keys.key, shown[i]) = Missing
                => keyAccessor(panel.keys.key, shown[j]) = Missing
         /\ TopKeysPanel = "empty" =>
              statsEntry.ans.avail /\ \A i \in DOMAIN stats : ~isActive(stats[i])

(* What the header of top-keys.ts says of the panel: it lists the user's   *)
(* keys, idle ones included.  It does not hold of an idle key that shares  *)
(* its friendly name with an active one: mergeTopKeys takes it for a key   *)
(* that is listed already.                                                 *)
EveryKeyListed ==
    StatsBody => \A u \in DOMAIN keyRows : IsNamed(keyRows[u]) =>
                   \E i \in DOMAIN topKeys : IsRowOf(topKeys[i], keyRows[u])

(* The figures of Stats add up whatever is toggled: the donut (DonutAddsUp)*)
(* and the daily charts (BarsAddUp).  The breakdown hides no row but by    *)
(* the user's filters and the protocol noise, and its two types are all of *)
(* it; it and the latency table are in the order chosen.  A budget that is *)
(* exceeded is red, without a projection.                                  *)
FiguresAddUp ==
    StatsBody =>
      LET ans == statsEntry.ans
          shown == usageRows
          timed == latencyRows
          Ordered(rows, figure(_), dir) ==
              \A i \in 2..Len(rows) : compareValues(figure(rows[i-1]), figure(rows[i]), dir) <= 0
          day == today - MonthStart(today) + 1
          dim == Cardinality({d \in Days : MonthStart(d) = MonthStart(today)})
      IN /\ DonutAddsUp(slices, ans.models)
         /\ BarsAddUp(ans.series, usage.metric)
         /\ Range(applyUsageTypeFilter(ans.models, "model"))
              \cup Range(applyUsageTypeFilter(ans.models, "mcp")) = Range(ans.models)
         /\ usage.type = "all" /\ ~search =>
              Range(shown) = {m \in Range(ans.models) : m.kind # "protocol"}
         /\ Ordered(shown, LAMBDA m : modelAccessor(panel.models.key, m), panel.models.dir)
         /\ LatencyPanel = "ready" =>
              Ordered(timed, LAMBDA m : latencyAccessor(panel.latency.key, m), panel.latency.dir)
         /\ budgetState(ans.budget) = "over" =>
              /\ budgetFillClass(ans.budget.current, ans.budget.max) = "destructive"
              /\ ~projectionShown(ans.budget.current, ans.budget.max, TRUE, day, dim)
=============================================================================
