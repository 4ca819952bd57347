-------------------------- MODULE ConsolePagesProofs --------------------------
(***************************************************************************)
(* For every calendar, cap, window and every answer of the API: the range  *)
(* the Stats page submits is sound, the pages of the console claim only    *)
(* what the server answered to the question they ask now, and the figures  *)
(* of Stats add up.                                                        *)
(***************************************************************************)
EXTENDS ConsolePages, FiniteSetTheorems, SequenceTheorems, WellFoundedInduction, TLAPS

Names == {"stats", "latency", "keys", "models", "mcp", "a2a"}
Queries == {q \in [name : Names, range : Ranges] : q.name \notin Ranged => q.range = NoRange}

(* The part of the inductive invariant about the range and the calendar:   *)
(* a calendar with an end has a start that is not later.                   *)
RangeInv ==
    /\ today \in Todays /\ preset \in Presets /\ range \in Ranges /\ route \in Routes
    /\ cal \in [open : BOOLEAN, view : Int \cup {NoDay},
                start : Days \cup {NoDay}, end : Days \cup {NoDay}]
    /\ cal.end # NoDay => cal.start # NoDay /\ cal.start <= cal.end
    /\ RangeSound

(* The part about the cache: a read in flight and an entry sit under the   *)
(* key of the query that was asked, and the entry answers it.              *)
CacheInv ==
    /\ DOMAIN fetch \subseteq DOMAIN cache
    /\ \A k \in DOMAIN fetch : fetch[k] \in Queries /\ queryKey(fetch[k]) = k
    /\ \A k \in DOMAIN cache :
         /\ cache[k].st \in {"pending", "error", "data"}
         /\ \/ cache[k].asked = NoQuery /\ cache[k].st # "data"
            \/ /\ cache[k].asked \in Queries /\ queryKey(cache[k].asked) = k
               /\ cache[k].ans \in Answers(cache[k].asked.name)

(* The part about the panels: a table is sorted by one of its columns. *)
PanelInv ==
    /\ DOMAIN panel = {"keys", "idle", "models", "latency"}
    /\ panel["keys"].key \in KeySortKey
    /\ panel["idle"] \in BOOLEAN
    /\ panel["models"].key \in UsageSortKey
    /\ panel["latency"].key \in LatencySortKey
----------------------------------------------------------------------------
(* A range of at least one day stays one under clampRange, and within the  *)
(* cap.                                                                    *)
LEMMA ClampIsSound ==
    ASSUME NEW s \in Int, NEW e \in Int, s <= e
    PROVE  /\ clampRange(s, e) \in Ranges
           /\ clampRange(s, e).start <= clampRange(s, e).end
           /\ inclusiveSpan(clampRange(s, e)) <= MaxRangeDays
BY PagesAssumption DEF clampRange, inclusiveSpan, Ranges

(* Every preset gives such a range on every day the console is used.       *)
LEMMA PresetIsSound ==
    ASSUME NEW p \in Presets, NEW d \in Todays
    PROVE  /\ presetToRange(p, d) \in Ranges
           /\ presetToRange(p, d).start <= presetToRange(p, d).end
           /\ inclusiveSpan(presetToRange(p, d)) <= MaxRangeDays
<1> DEFINE last == MonthStart(d) - 1
<1> DEFINE Good(r) == /\ r \in Ranges
                      /\ r.start <= r.end
                      /\ inclusiveSpan(r) <= MaxRangeDays
<1>1. /\ d \in Int /\ d \in Days
      /\ MonthStart(d) \in Int /\ MonthStart(d) <= d
      /\ YearStart(d) \in Int /\ YearStart(d) <= d
      /\ last \in Int /\ last \in Days
      /\ MonthStart(last) \in Int /\ MonthStart(last) <= last
  BY PagesAssumption
<1>2. ASSUME NEW q \in RollingPresets PROVE Good(rollingDays(Window[q], d))
  <2>1. Window[q] \in Nat \ {0}
    BY PagesAssumption
  <2>2. d - (Window[q] - 1) \in Int /\ d - (Window[q] - 1) <= d
    BY <1>1, <2>1
  <2> QED BY <1>1, <2>2, ClampIsSound DEF rollingDays
<1>3. Good(clampRange(MonthStart(d), d))
  BY <1>1, ClampIsSound
<1>4. Good(clampRange(MonthStart(last), last))
  BY <1>1, ClampIsSound
<1>5. Good(clampRange(YearStart(d), d))
  BY <1>1, ClampIsSound
<1>6. "30d" \in RollingPresets
  BY DEF RollingPresets
<1>7. \/ p \in RollingPresets /\ presetToRange(p, d) = rollingDays(Window[p], d)
      \/ presetToRange(p, d) = clampRange(MonthStart(d), d)
      \/ presetToRange(p, d) = clampRange(MonthStart(last), last)
      \/ presetToRange(p, d) = clampRange(YearStart(d), d)
      \/ presetToRange(p, d) = rollingDays(Window["30d"], d)
  BY DEF presetToRange, Presets, RollingPresets
<1>8. Good(presetToRange(p, d))
  BY <1>2, <1>3, <1>4, <1>5, <1>6, <1>7
<1> QED BY <1>8
----------------------------------------------------------------------------
(* The key of a query carries all of it. *)
LEMMA KeyIsInjective ==
    ASSUME NEW p \in Queries, NEW q \in Queries, queryKey(p) = queryKey(q)
    PROVE  p = q
<1>1. p.name = q.name
  BY DEF queryKey, Queries
<1>2. CASE p.name \in Ranged
  <2>1. p.range.start = q.range.start /\ p.range.end = q.range.end
    BY <1>1, <1>2 DEF queryKey
  <2>2. p.range = q.range
    BY <2>1 DEF Queries, Ranges
  <2> QED BY <1>1, <2>2 DEF Queries
<1>3. CASE p.name \notin Ranged
  BY <1>1, <1>3 DEF Queries
<1> QED BY <1>2, <1>3

LEMMA ObservedAreQueries ==
    ASSUME NEW rt \in Routes, NEW r \in Ranges
    PROVE  Observes(rt, r) \subseteq Queries
BY DEF Observes, Query, Queries, Names, Routes, Ranged, Ranges, NoRange

(* Starting the reads K of queries in Q keeps every read and every entry   *)
(* under its own key.                                                      *)
LEMMA StartFetchKeeps ==
    ASSUME CacheInv, NEW K, NEW Q \in SUBSET Queries, StartFetch(K, Q),
           \A k \in K : k \in DOMAIN fetch \/ \E q \in Q : queryKey(q) = k
    PROVE  CacheInv'
<1>1. /\ DOMAIN fetch' = K
      /\ DOMAIN cache' = DOMAIN cache \cup K
  BY DEF StartFetch
<1>2. ASSUME NEW k \in K PROVE fetch'[k] \in Queries /\ queryKey(fetch'[k]) = k
  <2>1. CASE k \in DOMAIN fetch
    BY <2>1 DEF StartFetch, CacheInv
  <2>2. CASE k \notin DOMAIN fetch
    <3>1. fetch'[k] = CHOOSE q \in Q : queryKey(q) = k
      BY <2>2 DEF StartFetch
    <3>2. \E q \in Q : queryKey(q) = k
      BY <2>2
    <3> QED BY <3>1, <3>2
  <2> QED BY <2>1, <2>2
<1>3. ASSUME NEW k \in DOMAIN cache \cup K
      PROVE  \/ k \in DOMAIN cache /\ cache'[k] = cache[k]
             \/ cache'[k] = NoEntry
  BY DEF StartFetch
<1>4. NoEntry.st = "pending" /\ NoEntry.asked = NoQuery
  BY DEF NoEntry
<1>5. ASSUME NEW k \in DOMAIN cache'
      PROVE  /\ cache'[k].st \in {"pending", "error", "data"}
             /\ \/ cache'[k].asked = NoQuery /\ cache'[k].st # "data"
                \/ /\ cache'[k].asked \in Queries /\ queryKey(cache'[k].asked) = k
                   /\ cache'[k].ans \in Answers(cache'[k].asked.name)
  BY <1>1, <1>3, <1>4 DEF CacheInv
<1>6. \A k \in DOMAIN fetch' : fetch'[k] \in Queries /\ queryKey(fetch'[k]) = k
  BY <1>1, <1>2
<1>7. DOMAIN fetch' \subseteq DOMAIN cache'
  BY <1>1
<1> QED BY <1>5, <1>6, <1>7 DEF CacheInv, queryKey

(* So does a change of the observed queries. *)
LEMMA ReobserveKeeps ==
    ASSUME CacheInv, NEW Q \in SUBSET Queries, Reobserve(Q)
    PROVE  CacheInv'
<1> DEFINE now == {queryKey(q) : q \in Q}
           new == now \ {queryKey(q) : q \in Observed}
<1>1. PICK stale \in SUBSET {k \in new : HasData(k)} :
        StartFetch((DOMAIN fetch \cap now) \cup {k \in new : ~HasData(k)} \cup stale, Q)
  BY DEF Reobserve
<1> DEFINE K == (DOMAIN fetch \cap now) \cup {k \in new : ~HasData(k)} \cup stale
<1>2. \A k \in K : k \in now
  OBVIOUS
<1>3. \A k \in K : k \in DOMAIN fetch \/ \E q \in Q : queryKey(q) = k
  BY <1>2
<1> QED BY <1>1, <1>3, StartFetchKeeps

(* And reading observed queries again. *)
LEMMA RereadKeeps ==
    ASSUME CacheInv, RangeInv, NEW q \in Observed,
           StartFetch(DOMAIN fetch \cup {queryKey(q)}, Observed)
    PROVE  CacheInv'
<1>1. Observed \in SUBSET Queries
  BY ObservedAreQueries DEF Observed, RangeInv
<1> QED BY <1>1, StartFetchKeeps

LEMMA SetRangeKeeps ==
    ASSUME CacheInv, RangeInv, NEW p, NEW r \in Ranges, SetRange(p, r)
    PROVE  CacheInv' /\ preset' = p /\ range' = r
<1>1. Observes(route, r) \in SUBSET Queries
  BY ObservedAreQueries DEF RangeInv
<1>2. CacheInv'
  BY <1>1, ReobserveKeeps DEF SetRange
<1> QED BY <1>2 DEF SetRange
----------------------------------------------------------------------------
(* R is a strict total order of S. *)
StrictOrder(S, R) ==
    /\ \A i \in S : <<i, i>> \notin R
    /\ \A i, j \in S : i # j => <<i, j>> \in R \/ <<j, i>> \in R
    /\ \A i, j, k \in S : <<i, j>> \in R /\ <<j, k>> \in R => <<i, k>> \in R

(* order lists the elements of S, each once, the earlier before the later. *)
Lists(order, S, R) ==
    /\ Cardinality(S) \in Nat
    /\ order \in [1..Cardinality(S) -> S]
    /\ \A i \in S : \E n \in 1..Cardinality(S) : order[n] = i
    /\ \A m, n \in 1..Cardinality(S) : m < n => <<order[m], order[n]>> \in R
    /\ \A m, n \in 1..Cardinality(S) : order[m] = order[n] => m = n

LEMMA ArrangedLists ==
  ASSUME NEW S, IsFiniteSet(S), NEW R, StrictOrder(S, R)
  PROVE  Lists(Arranged(S, R), S, R)
<1> DEFINE N == Cardinality(S)
           before(i) == {j \in S : <<j, i>> \in R}
           rank(i) == Cardinality(before(i))
           at == [i \in S |-> rank(i) + 1]
           q == Arranged(S, R)
<1>1. N \in Nat
  BY FS_CardinalityType
<1>2. ASSUME NEW i \in S
      PROVE  IsFiniteSet(before(i)) /\ rank(i) \in Nat /\ rank(i) <= N /\ rank(i) # N
  <2>1. i \notin before(i)
    BY DEF StrictOrder
  <2> QED
    BY <1>1, <2>1, FS_Subset, FS_CardinalityType
<1>3. ASSUME NEW i \in S, NEW j \in S, <<j, i>> \in R PROVE rank(j) < rank(i)
  <2>1. before(j) \in SUBSET before(i)
    BY <1>3 DEF StrictOrder
  <2>2. j \in before(i) /\ j \notin before(j)
    BY <1>3 DEF StrictOrder
  <2>3. rank(j) <= rank(i) /\ (rank(i) = rank(j) => before(i) = before(j))
    BY <1>2, <2>1, FS_Subset
  <2>4. before(i) # before(j)
    BY <2>2
  <2> HIDE DEF before
  <2>5. rank(i) \in Nat /\ rank(j) \in Nat
    BY <1>2
  <2> HIDE DEF rank
  <2> QED
    BY <2>3, <2>4, <2>5
<1> HIDE DEF rank, before, q
<1>4. ASSUME NEW n \in 1..N PROVE q[n] = CHOOSE i \in S : rank(i) = n - 1
  BY DEF Arranged, q, rank, before
<1>6. at \in [S -> 1..N] /\ \A i \in S : at[i] = rank(i) + 1
  <2>1. ASSUME NEW i \in S PROVE rank(i) + 1 \in 1..N
    BY <1>1, <1>2
  <2> QED
    BY <2>1
<1> HIDE DEF at
<1>7. \A i, j \in S : at[i] = at[j] => i = j
  <2>1. ASSUME NEW i \in S, NEW j \in S, at[i] = at[j], i # j PROVE FALSE
    <3>1. rank(i) = rank(j)
      BY <1>2, <1>6, <2>1
    <3>2. <<i, j>> \in R \/ <<j, i>> \in R
      BY <2>1 DEF StrictOrder
    <3>3. rank(i) < rank(j) \/ rank(j) < rank(i)
      BY <1>3, <3>2
    <3> QED
      BY <1>2, <3>1, <3>3
  <2> QED
    BY <2>1
<1>8. at \in Injection(S, 1..N)
  BY <1>6, <1>7 DEF Injection, IsInjective
<1>9. IsFiniteSet(1..N) /\ Cardinality(1..N) = N
  BY <1>1, FS_Interval
<1>10. at \in Surjection(S, 1..N)
  BY <1>8, <1>9, FS_Injection
<1>11. \A n \in 1..N : \E i \in S : at[i] = n
  BY <1>10 DEF Surjection
<1>12. ASSUME NEW n \in 1..N PROVE q[n] \in S /\ rank(q[n]) = n - 1
  <2>1. \E i \in S : rank(i) = n - 1
    <3>1. PICK i \in S : at[i] = n
      BY <1>11
    <3> QED
      BY <1>1, <1>2, <1>6, <3>1
  <2> QED
    BY <1>4, <2>1
<1>13. q \in [1..N -> S]
  BY <1>12 DEF q, Arranged
<1>14. ASSUME NEW i \in S PROVE \E n \in 1..N : q[n] = i
  <2>1. at[i] \in 1..N
    BY <1>6
  <2>2. q[at[i]] \in S /\ at[q[at[i]]] = at[i]
    BY <1>1, <1>2, <1>6, <1>12, <2>1
  <2> QED
    BY <1>7, <2>1, <2>2
<1>15. ASSUME NEW m \in 1..N, NEW n \in 1..N, m < n PROVE <<q[m], q[n]>> \in R
  <2>1. rank(q[m]) < rank(q[n])
    BY <1>1, <1>12, <1>15
  <2>2. q[m] \in S /\ q[n] \in S /\ rank(q[m]) \in Nat /\ rank(q[n]) \in Nat
    BY <1>2, <1>12
  <2>3. q[m] # q[n]
    BY <2>1, <2>2
  <2>4. ~(<<q[n], q[m]>> \in R)
    BY <1>3, <2>1, <2>2
  <2> QED
    BY <2>2, <2>3, <2>4 DEF StrictOrder
<1>16. ASSUME NEW m \in 1..N, NEW n \in 1..N, q[m] = q[n] PROVE m = n
  BY <1>1, <1>12, <1>16
<1> QED
  BY <1>1, <1>13, <1>14, <1>15, <1>16 DEF q, Lists

(* sortOrder lists the indices of a column by compareValues. *)
LEMMA SortOrderLists ==
  ASSUME NEW n \in Nat, NEW column \in [1..n -> Int], NEW dir
  PROVE  LET order == sortOrder(column, dir)
         IN /\ order \in [1..n -> 1..n]
            /\ \A i \in 1..n : \E k \in 1..n : order[k] = i
            /\ \A i, j \in 1..n : order[i] = order[j] => i = j
            /\ \A i, j \in 1..n : i < j => compareValues(column[order[i]], column[order[j]], dir) <= 0
<1> DEFINE S == 1..n
           c(j, i) == compareValues(column[j], column[i], dir)
           before(j, i) == IF c(j, i) # 0 THEN c(j, i) < 0 ELSE j < i
           R == {p \in S \X S : before(p[1], p[2])}
<1>1. IsFiniteSet(S) /\ Cardinality(S) = n
  BY FS_Interval
<1>2. \A i, j \in S : <<i, j>> \in R <=> before(i, j)
  OBVIOUS
<1>3. StrictOrder(S, R)
  <2>1. \A i, j \in S : c(i, j) \in Int /\ (c(i, j) = 0 <=> column[i] = column[j])
    BY DEF compareValues, Missing
  <2>2. \A i \in S : ~before(i, i)
    BY <2>1
  <2>3. \A i, j \in S : c(i, j) > 0 <=> c(j, i) < 0
    BY DEF compareValues, Missing
  <2>4. \A i, j \in S : i # j => before(i, j) \/ before(j, i)
    BY <2>1, <2>3, SMTT(20)
  <2>5. \A i, j, k \in S : before(i, j) /\ before(j, k) => before(i, k)
    BY SMTT(20) DEF compareValues, Missing
  <2> QED
    BY <1>2, <2>2, <2>4, <2>5 DEF StrictOrder
<1>4. sortOrder(column, dir) = Arranged(S, R)
  BY DEF sortOrder
<1>5. Lists(Arranged(S, R), S, R)
  BY <1>1, <1>3, ArrangedLists
<1>6. \A i, j \in S : <<i, j>> \in R => c(i, j) <= 0
  BY <1>2 DEF compareValues, Missing
<1> HIDE DEF R
<1> QED
  BY <1>1, <1>4, <1>5, <1>6 DEF Lists

(* The rows kept by a filter are the rows of the indices kept, in order.   *)
LEMMA KeptLists ==
  ASSUME NEW n \in Nat, NEW kept \in SUBSET (1..n)
  PROVE  Lists(Arranged(kept, {p \in kept \X kept : p[1] < p[2]}), kept,
               {p \in kept \X kept : p[1] < p[2]})
<1> DEFINE R == {p \in kept \X kept : p[1] < p[2]}
<1>1. IsFiniteSet(kept)
  <2>1. IsFiniteSet(1..n)
    BY FS_Interval
  <2> QED
    BY <2>1, FS_Subset
<1>2. StrictOrder(kept, R)
  <2>1. \A i, j \in kept : <<i, j>> \in R <=> i < j
    OBVIOUS
  <2>2. kept \subseteq Int
    OBVIOUS
  <2> HIDE DEF R
  <2> QED
    BY <2>1, <2>2 DEF StrictOrder
<1> QED
  BY <1>1, <1>2, ArrangedLists

(* A filter keeps the rows of the indices kept, and no row twice. *)
LEMMA RowsAtKeeps ==
  ASSUME NEW T, NEW rows \in Seq(T), NEW kept \in SUBSET (DOMAIN rows)
  PROVE  LET f == rowsAt(rows, kept)
         IN /\ f \in Seq(T)
            /\ \A n \in DOMAIN f : \E i \in kept : f[n] = rows[i]
            /\ \A i \in kept : \E n \in DOMAIN f : f[n] = rows[i]
            /\ OneRowPerKey(rows) => OneRowPerKey(f)
<1> DEFINE R == {p \in kept \X kept : p[1] < p[2]}
           N == Cardinality(kept)
           q == Arranged(kept, R)
           f == rowsAt(rows, kept)
<1>1. Len(rows) \in Nat /\ DOMAIN rows = 1..Len(rows) /\ \A i \in DOMAIN rows : rows[i] \in T
  BY LenProperties, ElementOfSeq
<1>2. Lists(q, kept, R)
  BY <1>1, KeptLists
<1>3. f = [n \in 1..N |-> rows[q[n]]]
  BY DEF rowsAt
<1> HIDE DEF R, q, f
<1>4. N \in Nat /\ \A n \in 1..N : q[n] \in kept
  BY <1>2 DEF Lists
<1>5. f \in [1..N -> T] /\ DOMAIN f = 1..N
  BY <1>1, <1>3, <1>4
<1>6. f \in Seq(T)
  BY <1>4, <1>5, SeqDef
<1>7. \A n \in 1..N : f[n] = rows[q[n]]
  BY <1>3
<1>8. \A i \in kept : \E n \in 1..N : f[n] = rows[i]
  BY <1>2, <1>7 DEF Lists
<1>9. OneRowPerKey(rows) => OneRowPerKey(f)
  BY <1>2, <1>4, <1>5, <1>7 DEF Lists, OneRowPerKey
<1> QED
  BY <1>4, <1>5, <1>6, <1>7, <1>8, <1>9 DEF f

(* Two tables with the same rows. *)
SameRows(f, rows) == /\ \A n \in DOMAIN f : \E i \in DOMAIN rows : f[n] = rows[i]
                     /\ \A i \in DOMAIN rows : \E n \in DOMAIN f : f[n] = rows[i]

(* A table sorted by a column of another. *)
InOrder(f, rows, column, dir) ==
    \A i, j \in DOMAIN f : i < j =>
       \E a, b \in DOMAIN rows : /\ f[i] = rows[a] /\ f[j] = rows[b]
                                 /\ compareValues(column[a], column[b], dir) <= 0

(* Two rows of a table are two rows of another. *)
RowsMoved(f, rows) ==
    \A i, j \in DOMAIN f : i # j =>
       \E a, b \in DOMAIN rows : a # b /\ f[i] = rows[a] /\ f[j] = rows[b]

(* A sorted table has the same rows, none twice, in the order of the       *)
(* column.                                                                 *)
LEMMA SortedByKeeps ==
  ASSUME NEW T, NEW rows \in Seq(T), NEW column \in [DOMAIN rows -> Int], NEW dir
  PROVE  LET f == sortedBy(rows, column, dir)
         IN /\ f \in Seq(T) /\ DOMAIN f = DOMAIN rows
            /\ SameRows(f, rows)
            /\ RowsMoved(f, rows)
            /\ InOrder(f, rows, column, dir)
<1> DEFINE N == Len(rows)
           q == sortOrder(column, dir)
           f == sortedBy(rows, column, dir)
<1>1. N \in Nat /\ DOMAIN rows = 1..N /\ \A i \in DOMAIN rows : rows[i] \in T
  BY LenProperties, ElementOfSeq
<1>2. /\ q \in [1..N -> 1..N]
      /\ \A i \in 1..N : \E k \in 1..N : q[k] = i
      /\ \A i, j \in 1..N : q[i] = q[j] => i = j
      /\ \A i, j \in 1..N : i < j => compareValues(column[q[i]], column[q[j]], dir) <= 0
  BY <1>1, SortOrderLists
<1>3. f = [n \in 1..N |-> rows[q[n]]]
  BY <1>1 DEF sortedBy
<1> HIDE DEF q, f
<1>4. f \in [1..N -> T] /\ DOMAIN f = 1..N /\ \A n \in 1..N : f[n] = rows[q[n]]
  BY <1>1, <1>2, <1>3
<1>5. f \in Seq(T)
  BY <1>1, <1>4, SeqDef
<1>6. RowsMoved(f, rows)
  <2>1. ASSUME NEW i \in DOMAIN f, NEW j \in DOMAIN f, i # j
        PROVE  \E a, b \in DOMAIN rows : a # b /\ f[i] = rows[a] /\ f[j] = rows[b]
    <3>1. q[i] \in DOMAIN rows /\ q[j] \in DOMAIN rows /\ q[i] # q[j]
      BY <1>1, <1>2, <1>4, <2>1
    <3>2. f[i] = rows[q[i]] /\ f[j] = rows[q[j]]
      BY <1>4
    <3> QED
      BY <3>1, <3>2
  <2> QED
    BY <2>1 DEF RowsMoved
<1>7. ASSUME NEW n \in DOMAIN f PROVE \E i \in DOMAIN rows : f[n] = rows[i]
  BY <1>1, <1>2, <1>4
<1>8. ASSUME NEW i \in DOMAIN rows PROVE \E n \in DOMAIN f : f[n] = rows[i]
  BY <1>1, <1>2, <1>4
<1>9. ASSUME NEW i \in DOMAIN f, NEW j \in DOMAIN f, i < j
      PROVE  \E a, b \in DOMAIN rows : /\ f[i] = rows[a] /\ f[j] = rows[b]
                                       /\ compareValues(column[a], column[b], dir) <= 0
  <2>1. q[i] \in DOMAIN rows /\ q[j] \in DOMAIN rows
    BY <1>1, <1>2, <1>4
  <2>2. compareValues(column[q[i]], column[q[j]], dir) <= 0
    BY <1>2, <1>4, <1>9
  <2>3. f[i] = rows[q[i]] /\ f[j] = rows[q[j]]
    BY <1>4
  <2> QED
    BY <2>1, <2>2, <2>3
<1>10. DOMAIN f = DOMAIN rows
  BY <1>1, <1>4
<1>11. SameRows(f, rows) /\ InOrder(f, rows, column, dir)
  BY <1>7, <1>8, <1>9 DEF SameRows, InOrder
<1> QED
  BY <1>5, <1>6, <1>10, <1>11 DEF f

(* What top makes of the rows of the activity and of the user's keys: a    *)
(* row for every key but a namesake's, rows of one id only of the          *)
(* activity, and no activity that was not reported.                        *)
ListsEveryKey(top, stats, user) ==
    /\ top \in Seq(StatsKeyRow)
    /\ \A i, j \in DOMAIN top : top[i].id = top[j].id /\ top[i].id # 0 /\ i # j =>
         \E k \in DOMAIN stats : top[i] = stats[k]
    /\ \A u \in DOMAIN user : IsNamed(user[u]) =>
         \/ \E n \in DOMAIN top : IsRowOf(top[n], user[u])
         \/ \E k \in DOMAIN stats : IsNamesake(stats[k], user[u])
    /\ \A i \in DOMAIN stats : \E n \in DOMAIN top : top[n] = stats[i]
    /\ \A n \in DOMAIN top : isActive(top[n]) => \E i \in DOMAIN stats : top[n] = stats[i]

(* mergeTopKeys lists every key but a namesake, once, and adds no activity.*)
LEMMA MergeListsEveryKey ==
  ASSUME NEW stats \in Seq(StatsKeyRow),
         NEW user \in Seq(KeyRow), OneRowPerKey(user)
  PROVE  ListsEveryKey(mergeTopKeys(stats, user), stats, user)
<1> DEFINE seen == ({stats[i].id : i \in DOMAIN stats} \cup {stats[i].alias : i \in DOMAIN stats}) \ {0}
           new == {i \in DOMAIN user : /\ user[i].id # 0 \/ user[i].alias # 0
                                       /\ {user[i].id, user[i].alias} \cap seen = {}}
           fresh == rowsAt(user, new)
           idle == [i \in DOMAIN fresh |-> Padded(fresh[i])]
           all == stats \o idle
           column == [i \in DOMAIN all |-> all[i].spend]
           top == mergeTopKeys(stats, user)
<1>1. top = sortedBy(all, column, "desc")
  BY DEF mergeTopKeys, filterRows, sortRows
<1>2. /\ fresh \in Seq(KeyRow)
      /\ \A n \in DOMAIN fresh : \E i \in new : fresh[n] = user[i]
      /\ \A i \in new : \E n \in DOMAIN fresh : fresh[n] = user[i]
      /\ OneRowPerKey(fresh)
  <2>1. new \in SUBSET (DOMAIN user)
    OBVIOUS
  <2> HIDE DEF new
  <2> QED
    BY <2>1, RowsAtKeeps
<1>3. \A i \in new : /\ i \in DOMAIN user /\ (user[i].id # 0 \/ user[i].alias # 0)
                     /\ user[i].id \notin seen /\ user[i].alias \notin seen
  OBVIOUS
<1>4. \A i \in DOMAIN user : (user[i].id # 0 \/ user[i].alias # 0) /\ i \notin new =>
        \E k \in DOMAIN stats :
           {stats[k].id, stats[k].alias} \cap ({user[i].id, user[i].alias} \ {0}) # {}
  OBVIOUS
<1>5. \A i \in DOMAIN stats : stats[i].id # 0 => stats[i].id \in seen
  OBVIOUS
<1> HIDE DEF new, seen, fresh, top
<1>6. /\ Len(stats) \in Nat /\ DOMAIN stats = 1..Len(stats)
      /\ Len(fresh) \in Nat /\ DOMAIN fresh = 1..Len(fresh)
      /\ \A i \in DOMAIN stats : stats[i] \in StatsKeyRow
      /\ \A i \in DOMAIN fresh : fresh[i] \in KeyRow
  BY <1>2, LenProperties, ElementOfSeq
<1>7. \A i \in DOMAIN fresh : Padded(fresh[i]) \in StatsKeyRow
  BY <1>6 DEF Padded, StatsKeyRow, KeyRow, Figure
<1>8. idle \in Seq(StatsKeyRow) /\ Len(idle) = Len(fresh) /\ \A i \in DOMAIN fresh : idle[i] = Padded(fresh[i])
  <2>1. idle \in [1..Len(fresh) -> StatsKeyRow]
    BY <1>6, <1>7
  <2>2. idle \in Seq(StatsKeyRow)
    BY <1>6, <2>1, SeqDef
  <2>3. DOMAIN idle = 1..Len(idle) /\ Len(idle) \in Nat /\ DOMAIN idle = 1..Len(fresh)
    BY <2>1, <2>2, LenProperties
  <2> QED
    BY <1>6, <2>2, <2>3
<1> HIDE DEF idle
<1>9. /\ all \in Seq(StatsKeyRow) /\ DOMAIN all = 1..(Len(stats) + Len(fresh))
      /\ \A i \in DOMAIN all : all[i] \in StatsKeyRow
      /\ \A i \in DOMAIN all : IF i <= Len(stats) THEN all[i] = stats[i]
                               ELSE all[i] = Padded(fresh[i - Len(stats)])
  <2>1. /\ all \in Seq(StatsKeyRow) /\ Len(all) = Len(stats) + Len(idle)
        /\ \A i \in 1..(Len(stats) + Len(idle)) :
              all[i] = IF i <= Len(stats) THEN stats[i] ELSE idle[i - Len(stats)]
    BY <1>8, ConcatProperties
  <2>2. DOMAIN all = 1..(Len(stats) + Len(fresh)) /\ \A i \in DOMAIN all : all[i] \in StatsKeyRow
    BY <1>8, <2>1, LenProperties, ElementOfSeq
  <2> QED
    BY <1>6, <1>8, <2>1, <2>2
<1> HIDE DEF all
<1>10. column \in [DOMAIN all -> Int]
  BY <1>9 DEF StatsKeyRow
<1>11. /\ \A i \in DOMAIN stats : i \in DOMAIN all /\ all[i] = stats[i]
       /\ \A i \in DOMAIN fresh : i + Len(stats) \in DOMAIN all /\ all[i + Len(stats)] = Padded(fresh[i])
       /\ \A i \in DOMAIN all : \/ i \in DOMAIN stats /\ all[i] = stats[i]
                                \/ i - Len(stats) \in DOMAIN fresh /\ all[i] = Padded(fresh[i - Len(stats)])
  BY <1>6, <1>9
<1>12. \A i \in DOMAIN fresh : Padded(fresh[i]).id = fresh[i].id /\ Padded(fresh[i]).alias = fresh[i].alias
                               /\ ~isActive(Padded(fresh[i]))
  BY DEF Padded, isActive
<1>13. ASSUME NEW i \in DOMAIN all, NEW j \in DOMAIN all,
              all[i].id = all[j].id, all[i].id # 0, i # j
       PROVE  i \in DOMAIN stats
  <2>0. i \in Int /\ j \in Int /\ Len(stats) \in Int
    BY <1>6, <1>9
  <2>1. SUFFICES ASSUME i \notin DOMAIN stats PROVE FALSE
    OBVIOUS
  <2>2. /\ i - Len(stats) \in DOMAIN fresh
        /\ all[i].id = fresh[i - Len(stats)].id
    BY <1>11, <1>12, <2>1
  <2>3. CASE j \in DOMAIN stats
    <3>1. fresh[i - Len(stats)].id \notin seen
      BY <1>2, <1>3, <2>2
    <3> QED
      BY <1>5, <1>11, <1>13, <2>2, <2>3, <3>1
  <2>4. CASE j \notin DOMAIN stats
    <3>1. /\ j - Len(stats) \in DOMAIN fresh
          /\ i - Len(stats) # j - Len(stats)
          /\ all[j].id = fresh[j - Len(stats)].id
      BY <1>11, <1>12, <1>13, <2>0, <2>4
    <3> QED
      BY <1>2, <1>13, <2>2, <3>1 DEF OneRowPerKey
  <2> QED
    BY <2>3, <2>4
<1> HIDE DEF column
<1>14. /\ top \in Seq(StatsKeyRow) /\ RowsMoved(top, all)
       /\ \A n \in DOMAIN top : \E i \in DOMAIN all : top[n] = all[i]
       /\ \A i \in DOMAIN all : \E n \in DOMAIN top : top[n] = all[i]
  <2> DEFINE g == sortedBy(all, column, "desc")
  <2>1. g \in Seq(StatsKeyRow) /\ RowsMoved(g, all) /\ SameRows(g, all)
    BY <1>9, <1>10, SortedByKeeps
  <2> QED
    BY <1>1, <2>1 DEF SameRows
<1>15. ASSUME NEW u \in DOMAIN user, IsNamed(user[u])
       PROVE  \/ \E n \in DOMAIN top : IsRowOf(top[n], user[u])
              \/ \E k \in DOMAIN stats : IsNamesake(stats[k], user[u])
  <2>1. CASE u \in new
    <3>1. PICK k \in DOMAIN fresh : fresh[k] = user[u]
      BY <1>2, <2>1
    <3>2. PICK n \in DOMAIN top : top[n] = Padded(fresh[k])
      BY <1>11, <1>14
    <3> QED
      BY <1>12, <3>1, <3>2 DEF IsRowOf
  <2>2. CASE u \notin new
    <3>1. PICK k \in DOMAIN stats :
            {stats[k].id, stats[k].alias} \cap ({user[u].id, user[u].alias} \ {0}) # {}
      BY <1>4, <1>15, <2>2 DEF IsNamed
    <3>2. PICK n \in DOMAIN top : top[n] = stats[k]
      BY <1>11, <1>14
    <3>3. CASE stats[k].id # user[u].id
      BY <3>1, <3>3 DEF IsNamesake
    <3>4. CASE stats[k].id = user[u].id
      BY <3>1, <3>2, <3>4 DEF IsRowOf
    <3> QED
      BY <3>3, <3>4
  <2> QED
    BY <2>1, <2>2
<1>16. \A i \in DOMAIN stats : \E n \in DOMAIN top : top[n] = stats[i]
  BY <1>11, <1>14
<1>17. ASSUME NEW n \in DOMAIN top, isActive(top[n]) PROVE \E i \in DOMAIN stats : top[n] = stats[i]
  BY <1>11, <1>12, <1>14, <1>17
<1>18. ASSUME NEW i \in DOMAIN top, NEW j \in DOMAIN top,
              top[i].id = top[j].id, top[i].id # 0, i # j
       PROVE  \E k \in DOMAIN stats : top[i] = stats[k]
  <2>1. PICK a \in DOMAIN all, b \in DOMAIN all : a # b /\ top[i] = all[a] /\ top[j] = all[b]
    BY <1>14, <1>18 DEF RowsMoved
  <2>2. a \in DOMAIN stats
    BY <1>13, <1>18, <2>1
  <2> QED
    BY <1>11, <2>1, <2>2
<1>19. ListsEveryKey(top, stats, user)
  BY <1>14, <1>15, <1>16, <1>17, <1>18 DEF ListsEveryKey
<1> QED
  BY <1>19 DEF top
----------------------------------------------------------------------------
(* Sums. *)
(* Every non-empty set of natural numbers has a least one. *)
LEMMA LeastNumber ==
  ASSUME NEW T \in SUBSET Nat, T # {} PROVE \E n \in T : \A m \in T : n <= m
<1>1. PICK n \in T : \A m \in T : ~(<<m, n>> \in OpToRel(<, Nat))
  BY NatLessThanWellFounded, WFMin, Zenon
<1>2. \A m \in T : m < n => <<m, n>> \in OpToRel(<, Nat)
  BY DEF OpToRel
<1>3. \A m \in T : ~(m < n)
  BY <1>1, <1>2, Zenon
<1> QED
  BY <1>3

(* p[n] is the total of the first n figures of c, for every n up to N. *)
Totals(p, c, N) ==
    /\ p \in [0..N -> Int]
    /\ p[0] = 0
    /\ \A n \in 1..N : p[n] = p[n - 1] + c[n]

(* Every column has running totals. *)
LEMMA TotalsExist ==
  ASSUME NEW N \in Nat, NEW c \in [1..N -> Int] PROVE \E p : Totals(p, c, N)
<1> DEFINE T == {n \in 0..N : ~ \E p : Totals(p, c, n)}
<1>0. SUFFICES ASSUME T # {} PROVE FALSE
  <2>1. N \in 0..N
    OBVIOUS
  <2> QED BY <1>0, <2>1, Zenon
<1>1. PICK n \in T : \A m \in T : n <= m
  <2>1. T \in SUBSET Nat
    OBVIOUS
  <2> HIDE DEF T
  <2> QED BY <1>0, <2>1, LeastNumber
<1>2. n \in 0..N /\ ~ \E p : Totals(p, c, n)
  BY <1>1
<1>3. CASE n = 0
  <2> DEFINE p == [i \in 0..0 |-> 0]
  <2>1. Totals(p, c, 0)
    BY DEF Totals
  <2> QED BY <1>2, <1>3, <2>1
<1>4. CASE n # 0
  <2>1. n \in Nat /\ n - 1 \in 0..N /\ n \in 1..N
    BY <1>2, <1>4
  <2>2. n - 1 \notin T
    BY <1>1, <2>1
  <2>3. PICK p : Totals(p, c, n - 1)
    BY <2>1, <2>2
  <2> DEFINE q == [i \in 0..n |-> IF i = n THEN p[n - 1] + c[n] ELSE p[i]]
  <2>4. p \in [0..(n - 1) -> Int] /\ p[0] = 0 /\ \A i \in 1..(n - 1) : p[i] = p[i - 1] + c[i]
    BY <2>3 DEF Totals
  <2>5. p[n - 1] \in Int /\ c[n] \in Int
    BY <2>1, <2>4
  <2>6. q \in [0..n -> Int] /\ q[0] = 0
    BY <1>4, <2>1, <2>4, <2>5
  <2>7. ASSUME NEW i \in 1..n PROVE q[i] = q[i - 1] + c[i]
    BY <2>1, <2>4, <2>5
  <2>8. Totals(q, c, n)
    BY <2>6, <2>7 DEF Totals
  <2> QED BY <1>2, <2>8
<1> QED BY <1>3, <1>4

(* They are determined by the column. *)
LEMMA TotalsUnique ==
  ASSUME NEW N \in Nat, NEW c, NEW p, Totals(p, c, N), NEW q,
         q[0] = 0, \A n \in 1..N : q[n] = q[n - 1] + c[n]
  PROVE  \A n \in 0..N : q[n] = p[n]
<1> DEFINE T == {n \in 0..N : q[n] # p[n]}
<1> SUFFICES ASSUME T # {} PROVE FALSE
  OBVIOUS
<1>1. PICK n \in T : \A m \in T : n <= m
  <2>1. T \in SUBSET Nat
    OBVIOUS
  <2> HIDE DEF T
  <2> QED BY <2>1, LeastNumber
<1>2. n # 0
  BY <1>1 DEF Totals
<1>3. n \in 1..N /\ n - 1 \in 0..N /\ n - 1 \notin T
  BY <1>1, <1>2
<1>4. q[n - 1] = p[n - 1]
  BY <1>3
<1>5. q[n] = p[n]
  BY <1>3, <1>4 DEF Totals
<1> QED BY <1>1, <1>5

(* The total of a column is the last of its running totals. *)
LEMMA TotalIsLast ==
  ASSUME NEW N \in Nat, NEW c \in [1..N -> Int], NEW p, Totals(p, c, N)
  PROVE  total(c) = p[N] /\ total(c) \in Int
<1> DEFINE Step(f) == [n \in 0..N |-> IF n = 0 THEN 0 ELSE f[n - 1] + c[n]]
           f == CHOOSE g : g = Step(g)
<1>1. c \in Seq(Int) /\ Len(c) = N
  <2>1. c \in Seq(Int)
    OBVIOUS
  <2> QED BY <2>1, LenProperties
<1>2. total(c) = f[N]
  BY <1>1 DEF total
<1>3. p = Step(p)
  <2>1. \A n \in 0..N : p[n] = Step(p)[n]
    BY DEF Totals
  <2> QED BY <2>1 DEF Totals
<1>4. f = Step(f)
  BY <1>3
<1> HIDE DEF f
<1>5. f[0] = 0 /\ \A n \in 1..N : f[n] = f[n - 1] + c[n]
  <2>1. \A n \in 0..N : f[n] = IF n = 0 THEN 0 ELSE f[n - 1] + c[n]
    BY <1>4
  <2> QED BY <2>1
<1>6. f[N] = p[N]
  BY <1>5, TotalsUnique
<1> QED BY <1>2, <1>6 DEF Totals

(* A column without one of its figures. *)
Without(c, k, N) == [i \in 1..(N - 1) |-> IF i < k THEN c[i] ELSE c[i + 1]]

LEMMA TotalWithout ==
  ASSUME NEW N \in Nat, NEW c \in [1..N -> Int], NEW k \in 1..N
  PROVE  /\ Without(c, k, N) \in [1..(N - 1) -> Int]
         /\ total(c) = total(Without(c, k, N)) + c[k]
<1> DEFINE d == Without(c, k, N)
<1>1. d \in [1..(N - 1) -> Int] /\ N - 1 \in Nat
  BY DEF Without
<1>2. PICK p : Totals(p, c, N)
  BY TotalsExist
<1>3. /\ p \in [0..N -> Int] /\ p[0] = 0
      /\ \A n \in 1..N : p[n] = p[n - 1] + c[n]
  BY <1>2 DEF Totals
<1> DEFINE q == [i \in 0..(N - 1) |-> IF i < k THEN p[i] ELSE p[i + 1] - c[k]]
<1>4. q \in [0..(N - 1) -> Int] /\ q[0] = 0
  <2>1. ASSUME NEW i \in 0..(N - 1) PROVE (IF i < k THEN p[i] ELSE p[i + 1] - c[k]) \in Int
    <3>1. i \in 0..N /\ i + 1 \in 0..N
      OBVIOUS
    <3>2. p[i] \in Int /\ p[i + 1] \in Int /\ c[k] \in Int
      BY <1>3, <3>1
    <3> QED BY <3>2
  <2>2. q \in [0..(N - 1) -> Int]
    BY <2>1
  <2>3. 0 \in 0..(N - 1) /\ 0 < k
    OBVIOUS
  <2> QED BY <1>3, <2>2, <2>3
<1>5. ASSUME NEW n \in 1..(N - 1) PROVE q[n] = q[n - 1] + d[n]
  <2>1. CASE n < k
    BY <1>3, <2>1 DEF Without
  <2>2. CASE n = k
    <3>1. q[n] = p[n + 1] - c[k] /\ q[n - 1] = p[n - 1] /\ d[n] = c[n + 1]
      BY <2>2 DEF Without
    <3>2. p[n + 1] = p[n] + c[n + 1] /\ p[n] = p[n - 1] + c[n]
      BY <1>3
    <3>3. p[n - 1] \in Int /\ c[n] \in Int /\ c[n + 1] \in Int
      BY <1>3
    <3> QED BY <2>2, <3>1, <3>2, <3>3
  <2>3. CASE n > k
    <3>1. q[n] = p[n + 1] - c[k] /\ q[n - 1] = p[n] - c[k] /\ d[n] = c[n + 1]
      BY <2>3 DEF Without
    <3>2. p[n + 1] = p[n] + c[n + 1]
      BY <1>3
    <3>3. p[n] \in Int /\ c[k] \in Int /\ c[n + 1] \in Int
      BY <1>3
    <3> QED BY <3>1, <3>2, <3>3
  <2> QED BY <2>1, <2>2, <2>3
<1>6. Totals(q, d, N - 1)
  BY <1>4, <1>5 DEF Totals
<1>7. total(d) = q[N - 1] /\ total(c) = p[N]
  BY <1>1, <1>2, <1>6, TotalIsLast
<1>8. p[N] = q[N - 1] + c[k]
  <2>1. CASE k = N
    <3>1. q[N - 1] = p[N - 1]
      BY <2>1
    <3> QED BY <1>3, <2>1, <3>1
  <2>2. CASE k # N
    <3>1. q[N - 1] = p[N] - c[k]
      BY <2>2
    <3>2. p[N] \in Int /\ c[k] \in Int
      BY <1>3
    <3> QED BY <3>1, <3>2
  <2> QED BY <2>1, <2>2
<1> QED BY <1>1, <1>7, <1>8

LEMMA WithoutLast ==
  ASSUME NEW n \in Nat, NEW c
  PROVE  Without(c, n + 1, n + 1) = [i \in 1..n |-> c[i]]
<1>1. n + 1 - 1 = n /\ \A i \in 1..n : i < n + 1
  OBVIOUS
<1> QED BY <1>1 DEF Without

(* A column is worth its first k figures and the others. *)
LEMMA TotalSplit ==
  ASSUME NEW N \in Nat, NEW c \in [1..N -> Int], NEW k \in 0..N
  PROVE  total(c) = total([i \in 1..k |-> c[i]]) + total([i \in 1..(N - k) |-> c[k + i]])
<1> DEFINE a == [i \in 1..k |-> c[i]]
           b == [i \in 1..(N - k) |-> c[k + i]]
<1>1. k \in Nat /\ N - k \in Nat /\ a \in [1..k -> Int] /\ b \in [1..(N - k) -> Int]
  OBVIOUS
<1>2. PICK p : Totals(p, c, N)
  BY TotalsExist
<1>3. /\ p \in [0..N -> Int] /\ p[0] = 0
      /\ \A n \in 1..N : p[n] = p[n - 1] + c[n]
  BY <1>2 DEF Totals
<1> DEFINE q == [i \in 0..k |-> p[i]]
           r == [i \in 0..(N - k) |-> p[k + i] - p[k]]
<1>4. Totals(q, a, k)
  BY <1>3 DEF Totals
<1>5. Totals(r, b, N - k)
  <2>1. r \in [0..(N - k) -> Int] /\ r[0] = 0
    BY <1>3
  <2>2. ASSUME NEW n \in 1..(N - k) PROVE r[n] = r[n - 1] + b[n]
    <3>1. p[k + n] = p[k + n - 1] + c[k + n]
      BY <1>3
    <3>2. r[n] = p[k + n] - p[k] /\ r[n - 1] = p[k + n - 1] - p[k] /\ b[n] = c[k + n]
      OBVIOUS
    <3>3. p[k + n - 1] \in Int /\ p[k] \in Int /\ c[k + n] \in Int
      BY <1>3
    <3> QED BY <3>1, <3>2, <3>3
  <2> QED BY <2>1, <2>2 DEF Totals
<1>6. total(c) = p[N] /\ total(a) = q[k] /\ total(b) = r[N - k]
  <2>1. total(c) = p[N]
    BY <1>2, TotalIsLast
  <2>2. total(a) = q[k]
    <3> HIDE DEF a, q
    <3> QED BY <1>1, <1>4, TotalIsLast
  <2>3. total(b) = r[N - k]
    <3> HIDE DEF b, r
    <3> QED BY <1>1, <1>5, TotalIsLast
  <2> QED BY <2>1, <2>2, <2>3
<1>7. q[k] + r[N - k] = p[N]
  BY <1>3
<1> QED BY <1>6, <1>7

(* q visits every index once. *)
Visits(q, N) == /\ q \in [1..N -> 1..N]
                /\ \A i \in 1..N : \E k \in 1..N : q[k] = i
                /\ \A i, j \in 1..N : q[i] = q[j] => i = j

(* The total of a column does not depend on the order of its figures. *)
LEMMA TotalAnyOrder ==
  ASSUME NEW N \in Nat, NEW c \in [1..N -> Int], NEW q, Visits(q, N)
  PROVE  total([i \in 1..N |-> c[q[i]]]) = total(c)
<1> DEFINE Moved(d, s, n) == [i \in 1..n |-> d[s[i]]]
           T == {n \in Nat : \E d \in [1..n -> Int] : \E s \in [1..n -> 1..n] :
                               Visits(s, n) /\ total(Moved(d, s, n)) # total(d)}
<1>1. SUFFICES ASSUME T # {} PROVE FALSE
  <2>1. q \in [1..N -> 1..N]
    BY DEF Visits
  <2> QED BY <1>1, <2>1
<1>2. PICK n \in T : \A m \in T : n <= m
  <2>1. T \in SUBSET Nat
    OBVIOUS
  <2> HIDE DEF T
  <2> QED BY <1>1, <2>1, LeastNumber
<1>3. n \in Nat
  BY <1>2
<1>4. PICK d \in [1..n -> Int], s \in [1..n -> 1..n] :
        Visits(s, n) /\ total(Moved(d, s, n)) # total(d)
  BY <1>2
<1>5. CASE n = 0
  <2>1. Moved(d, s, n) = d
    BY <1>5
  <2> QED BY <1>4, <2>1
<1>6. CASE n # 0
  <2>1. n \in 1..n /\ n - 1 \in Nat /\ n - 1 \notin T
    <3>1. n \in 1..n /\ n - 1 \in Nat /\ ~(n <= n - 1)
      BY <1>3, <1>6
    <3> HIDE DEF T
    <3> QED BY <1>2, <3>1
  <2>2. PICK k \in 1..n : s[k] = n
    BY <1>4, <2>1 DEF Visits
  <2> DEFINE m == n - 1
             e == [i \in 1..m |-> d[i]]
             t == [i \in 1..m |-> IF i < k THEN s[i] ELSE s[i + 1]]
             at(i) == IF i < k THEN i ELSE i + 1
  <2>3. \A i \in 1..m : at(i) \in 1..n /\ at(i) # k /\ t[i] = s[at(i)]
    BY <1>3
  <2>4. \A i \in 1..m : t[i] \in 1..m
    <3> TAKE i \in 1..m
    <3>1. at(i) \in 1..n /\ at(i) # k /\ t[i] = s[at(i)]
      BY <2>3
    <3>2. s[at(i)] \in 1..n /\ s[at(i)] # n
      BY <1>4, <2>2, <3>1 DEF Visits
    <3> HIDE DEF at, t
    <3> QED BY <1>3, <3>1, <3>2
  <2>5. Visits(t, m)
    <3>1. t \in [1..m -> 1..m]
      BY <2>4
    <3>2. ASSUME NEW i \in 1..m PROVE \E j \in 1..m : t[j] = i
      <4>1. i \in 1..n /\ i # n
        BY <1>3
      <4>2. PICK j \in 1..n : s[j] = i
        BY <1>4, <4>1 DEF Visits
      <4>3. j # k
        BY <2>2, <4>1, <4>2
      <4>4. CASE j < k
        <5>1. j \in 1..m /\ t[j] = i
          BY <1>3, <4>2, <4>4
        <5> QED BY <5>1
      <4>5. CASE j > k
        <5>1. j - 1 \in 1..m /\ t[j - 1] = i
          BY <1>3, <4>2, <4>5
        <5> QED BY <5>1
      <4> QED BY <4>3, <4>4, <4>5
    <3>3. ASSUME NEW i \in 1..m, NEW j \in 1..m, t[i] = t[j] PROVE i = j
      <4>1. at(i) = at(j)
        BY <1>4, <2>3, <3>3 DEF Visits
      <4>2. i \in Int /\ j \in Int /\ k \in Int
        BY <1>3
      <4> HIDE DEF T, t, e
      <4>3. CASE i < k
        BY <4>1, <4>2, <4>3
      <4>4. CASE ~(i < k)
        BY <4>1, <4>2, <4>4
      <4> QED BY <4>3, <4>4
    <3> QED BY <3>1, <3>2, <3>3 DEF Visits
  <2>6. e \in [1..m -> Int] /\ t \in [1..m -> 1..m]
    BY <1>3, <2>4
  <2>7. total(Moved(e, t, m)) = total(e)
    <3> HIDE DEF e, t
    <3> QED BY <2>1, <2>5, <2>6
  <2>8. Without(Moved(d, s, n), k, n) = Moved(e, t, m)
    <3>1. ASSUME NEW i \in 1..m PROVE Without(Moved(d, s, n), k, n)[i] = Moved(e, t, m)[i]
      <4>1. at(i) \in 1..n /\ t[i] = s[at(i)] /\ t[i] \in 1..m
        BY <2>3, <2>4
      <4>2. Without(Moved(d, s, n), k, n)[i] = d[s[at(i)]]
        BY <4>1 DEF Without
      <4>3. Moved(e, t, m)[i] = d[t[i]]
        BY <4>1
      <4> QED BY <4>1, <4>2, <4>3
    <3> QED BY <3>1 DEF Without
  <2>9. Moved(d, s, n) \in [1..n -> Int] /\ Moved(d, s, n)[k] = d[n]
    BY <2>2
  <2>10. total(Moved(d, s, n)) = total(Moved(e, t, m)) + d[n]
    <3> HIDE DEF Moved, e, t, m
    <3> QED BY <1>3, <2>8, <2>9, TotalWithout
  <2>11. Without(d, n, n) = e
    BY <1>3 DEF Without
  <2>12. total(d) = total(e) + d[n]
    <3> HIDE DEF e
    <3> QED BY <1>3, <2>1, <2>11, TotalWithout
  <2> QED BY <1>4, <2>7, <2>10, <2>12
<1> QED BY <1>5, <1>6
----------------------------------------------------------------------------
Inv == RangeInv /\ CacheInv /\ PanelInv

LEMMA InitEstablishes == Init => Inv
<1> SUFFICES ASSUME Init PROVE Inv
  OBVIOUS
<1>1. RangeInv
  <2> DEFINE p == FirstPreset(route)
  <2>0. p \in Presets
    BY DEF FirstPreset, Presets, RollingPresets
  <2>1. /\ presetToRange(p, today) \in Ranges
        /\ presetToRange(p, today).start <= presetToRange(p, today).end
        /\ inclusiveSpan(presetToRange(p, today)) <= MaxRangeDays
    BY <2>0, PresetIsSound DEF Init
  <2>2. today \in Int
    BY PagesAssumption DEF Init
  <2>3. RangeSound
    BY <2>1, <2>2 DEF Init, RangeSound
  <2> QED BY <2>0, <2>1, <2>3 DEF Init, RangeInv, Closed
<1>2. CacheInv
  <2>1. Observed \in SUBSET Queries
    BY <1>1, ObservedAreQueries DEF RangeInv, Observed
  <2>2. ASSUME NEW k \in DOMAIN fetch PROVE fetch[k] \in Queries /\ queryKey(fetch[k]) = k
    <3>1. \E q \in Observed : queryKey(q) = k
      BY DEF Init
    <3>2. fetch[k] = CHOOSE q \in Observed : queryKey(q) = k
      BY DEF Init
    <3> QED BY <2>1, <3>1, <3>2
  <2>3. /\ DOMAIN cache = DOMAIN fetch
        /\ \A k \in DOMAIN cache : cache[k] = NoEntry
    BY DEF Init
  <2> QED BY <2>2, <2>3 DEF CacheInv, NoEntry
<1>3. PanelInv
  BY DEF Init, FreshPanel, PanelInv, KeySortKey, UsageSortKey, LatencySortKey
<1> QED BY <1>1, <1>2, <1>3 DEF Inv

(* The steps that leave the range, the calendar and the day alone, and     *)
(* keep the cache.                                                         *)
LEMMA RangeUntouched ==
    ASSUME RangeInv, UNCHANGED <<route, today, rangeVars>>
    PROVE  RangeInv'
BY DEF RangeInv, RangeSound, rangeVars, inclusiveSpan, presetToRange

LEMMA CacheUntouched ==
    ASSUME CacheInv, UNCHANGED queryVars
    PROVE  CacheInv'
BY DEF CacheInv, queryVars

(* A preset of today, or a range of the calendar, is a sound one. *)
LEMMA PresetKeepsRange ==
    ASSUME RangeInv, NEW p \in Presets, route' \in Routes, today' = today, preset' = p,
           range' = presetToRange(p, today), cal' = Closed
    PROVE  RangeInv'
<1>1. /\ presetToRange(p, today) \in Ranges
      /\ presetToRange(p, today).start <= presetToRange(p, today).end
      /\ inclusiveSpan(presetToRange(p, today)) <= MaxRangeDays
  BY PresetIsSound DEF RangeInv
<1>2. today \in Int /\ today \in Todays
  BY PagesAssumption DEF RangeInv
<1>3. RangeSound'
  <2>1. /\ range'.start <= range'.end
        /\ inclusiveSpan(range') <= MaxRangeDays
        /\ \E d \in Todays : d <= today' /\ range' = presetToRange(preset', d)
    BY <1>1, <1>2
  <2> QED BY <2>1 DEF RangeSound, inclusiveSpan, presetToRange
<1>4. /\ Closed \in [open : BOOLEAN, view : Int \cup {NoDay},
                     start : Days \cup {NoDay}, end : Days \cup {NoDay}]
      /\ Closed.end = NoDay
  BY DEF Closed
<1> QED BY <1>1, <1>2, <1>3, <1>4 DEF RangeInv

LEMMA CalendarKeepsRange ==
    ASSUME RangeInv, UNCHANGED <<route, today, preset, range>>,
           cal' \in [open : BOOLEAN, view : Int \cup {NoDay},
                     start : Days \cup {NoDay}, end : Days \cup {NoDay}],
           cal'.end # NoDay => cal'.start # NoDay /\ cal'.start <= cal'.end
    PROVE  RangeInv'
<1>1. RangeSound'
  BY DEF RangeInv, RangeSound, inclusiveSpan, presetToRange
<1> QED BY <1>1 DEF RangeInv

(* Every step keeps the range and the cache. *)
LEMMA StepKeepsQueries == Inv /\ [Next]_vars => RangeInv' /\ CacheInv'
<1> SUFFICES ASSUME Inv, [Next]_vars PROVE RangeInv' /\ CacheInv'
  OBVIOUS
<1> USE DEF Inv
<1>1. ASSUME NEW to \in Routes, NavigateTo(to) PROVE RangeInv' /\ CacheInv'
  <2> DEFINE p == FirstPreset(to)
  <2>1. /\ route' = to /\ today' = today /\ preset' = p /\ cal' = Closed
        /\ range' = presetToRange(p, today)
        /\ Reobserve(Observes(to, presetToRange(p, today)))
    BY <1>1 DEF NavigateTo
  <2>2. p \in Presets
    BY DEF FirstPreset, Presets, RollingPresets
  <2>3. RangeInv'
    BY <2>1, <2>2, PresetKeepsRange
  <2>4. Observes(to, presetToRange(p, today)) \in SUBSET Queries
    BY <2>2, PresetIsSound, ObservedAreQueries DEF RangeInv
  <2>5. CacheInv'
    BY <2>1, <2>4, ReobserveKeeps
  <2> QED BY <2>3, <2>5
<1>2. ASSUME Tick PROVE RangeInv' /\ CacheInv'
  <2>1. today \in Int /\ today' = today + 1 /\ today' \in Todays
    BY <1>2, PagesAssumption DEF Tick, RangeInv
  <2>2. UNCHANGED <<route, preset, range, cal>>
    BY <1>2 DEF Tick, rangeVars
  <2>3. \A d \in Todays : d <= today => d <= today'
    <3>1. Todays \subseteq Int
      BY PagesAssumption
    <3> QED BY <2>1, <3>1
  <2>4. RangeSound'
    BY <2>2, <2>3 DEF RangeInv, RangeSound, inclusiveSpan, presetToRange
  <2>5. RangeInv'
    BY <2>1, <2>2, <2>4 DEF RangeInv
  <2> QED BY <1>2, <2>5, CacheUntouched DEF Tick
<1>3. ASSUME NEW k \in DOMAIN fetch, NEW a, Deliver(k, a) PROVE RangeInv' /\ CacheInv'
  <2>1. RangeInv'
    BY <1>3, RangeUntouched DEF Deliver
  <2>2. /\ DOMAIN fetch' = DOMAIN fetch \ {k}
        /\ \A j \in DOMAIN fetch' : fetch'[j] = fetch[j]
        /\ DOMAIN cache' = DOMAIN cache
        /\ cache'[k] = [st |-> "data", ans |-> a, asked |-> fetch[k]]
        /\ \A j \in DOMAIN cache \ {k} : cache'[j] = cache[j]
    BY <1>3 DEF Deliver, CacheInv
  <2>3. fetch[k] \in Queries /\ queryKey(fetch[k]) = k /\ a \in Answers(fetch[k].name)
    BY <1>3 DEF Deliver, CacheInv
  <2>4. cache'[k].st = "data" /\ cache'[k].asked = fetch[k] /\ cache'[k].ans = a
    BY <2>2
  <2>5. ASSUME NEW j \in DOMAIN cache'
        PROVE  /\ cache'[j].st \in {"pending", "error", "data"}
               /\ \/ cache'[j].asked = NoQuery /\ cache'[j].st # "data"
                  \/ /\ cache'[j].asked \in Queries /\ queryKey(cache'[j].asked) = j
                     /\ cache'[j].ans \in Answers(cache'[j].asked.name)
    <3>1. CASE j = k
      BY <2>3, <2>4, <3>1
    <3>2. CASE j # k
      BY <2>2, <3>2 DEF CacheInv
    <3> QED BY <3>1, <3>2
  <2>6. /\ DOMAIN fetch' \subseteq DOMAIN cache'
        /\ \A j \in DOMAIN fetch' : fetch'[j] \in Queries /\ queryKey(fetch'[j]) = j
    BY <2>2 DEF CacheInv
  <2>7. CacheInv'
    BY <2>5, <2>6 DEF CacheInv, Queries
  <2> QED BY <2>1, <2>7
<1>4. ASSUME NEW k \in DOMAIN fetch, Fail(k) PROVE RangeInv' /\ CacheInv'
  <2>1. RangeInv'
    BY <1>4, RangeUntouched DEF Fail
  <2>2. /\ DOMAIN fetch' = DOMAIN fetch \ {k}
        /\ \A j \in DOMAIN fetch' : fetch'[j] = fetch[j]
        /\ DOMAIN cache' = DOMAIN cache
        /\ cache'[k] = [st |-> "error", ans |-> cache[k].ans, asked |-> cache[k].asked]
        /\ \A j \in DOMAIN cache \ {k} : cache'[j] = cache[j]
    BY <1>4 DEF Fail, CacheInv
  <2>3. /\ cache'[k].st = "error" /\ cache'[k].asked = cache[k].asked
        /\ cache'[k].ans = cache[k].ans
    BY <2>2
  <2>4. ASSUME NEW j \in DOMAIN cache'
        PROVE  /\ cache'[j].st \in {"pending", "error", "data"}
               /\ \/ cache'[j].asked = NoQuery /\ cache'[j].st # "data"
                  \/ /\ cache'[j].asked \in Queries /\ queryKey(cache'[j].asked) = j
                     /\ cache'[j].ans \in Answers(cache'[j].asked.name)
    <3>1. CASE j = k
      BY <2>2, <2>3, <3>1 DEF CacheInv
    <3>2. CASE j # k
      BY <2>2, <3>2 DEF CacheInv
    <3> QED BY <3>1, <3>2
  <2>5. /\ DOMAIN fetch' \subseteq DOMAIN cache'
        /\ \A j \in DOMAIN fetch' : fetch'[j] \in Queries /\ queryKey(fetch'[j]) = j
    BY <2>2 DEF CacheInv
  <2>6. CacheInv'
    BY <2>4, <2>5 DEF CacheInv, Queries
  <2> QED BY <2>1, <2>6
<1>5. ASSUME NEW q \in Observed, Reconnect(q) PROVE RangeInv' /\ CacheInv'
  <2>1. RangeInv'
    BY <1>5, RangeUntouched DEF Reconnect
  <2>2. CacheInv'
    BY <1>5, RereadKeeps DEF Reconnect
  <2> QED BY <2>1, <2>2
<1>6. ASSUME Retry PROVE RangeInv' /\ CacheInv'
  <2>1. RangeInv'
    BY <1>6, RangeUntouched DEF Retry
  <2>2. CacheInv'
    BY <1>6, RereadKeeps DEF Retry
  <2> QED BY <2>1, <2>2
<1>7. ASSUME NEW p \in Presets, ClickPreset(p) PROVE RangeInv' /\ CacheInv'
  <2>1. CASE p = "Custom"
    <3>1. /\ UNCHANGED <<route, today, preset, range>> /\ UNCHANGED queryVars
          /\ cal' = [open |-> TRUE, view |-> MonthStart(today), start |-> NoDay, end |-> NoDay]
      BY <1>7, <2>1 DEF ClickPreset
    <3>2. MonthStart(today) \in Int
      BY PagesAssumption DEF RangeInv
    <3>3. RangeInv'
      BY <3>1, <3>2, CalendarKeepsRange
    <3> QED BY <3>1, <3>3, CacheUntouched
  <2>2. CASE p # "Custom"
    <3>1. /\ UNCHANGED <<route, today>> /\ cal' = Closed
          /\ SetRange(p, presetToRange(p, today))
      BY <1>7, <2>2 DEF ClickPreset
    <3>2. presetToRange(p, today) \in Ranges
      BY PresetIsSound DEF RangeInv
    <3>3. CacheInv' /\ preset' = p /\ range' = presetToRange(p, today)
      BY <3>1, <3>2, SetRangeKeeps
    <3>4. RangeInv'
      BY <3>1, <3>3, PresetKeepsRange DEF RangeInv
    <3> QED BY <3>3, <3>4
  <2> QED BY <2>1, <2>2
<1>8. ASSUME NEW m \in Days, PageMonth(m) PROVE RangeInv' /\ CacheInv'
  <2>1. /\ UNCHANGED <<route, today, preset, range>> /\ UNCHANGED queryVars
        /\ cal' = [cal EXCEPT !.view = m]
    BY <1>8 DEF PageMonth
  <2>2. m \in Int
    BY PagesAssumption
  <2>3. /\ cal' \in [open : BOOLEAN, view : Int \cup {NoDay},
                     start : Days \cup {NoDay}, end : Days \cup {NoDay}]
        /\ cal'.start = cal.start /\ cal'.end = cal.end
    BY <2>1, <2>2 DEF RangeInv
  <2>4. RangeInv'
    BY <2>1, <2>3, CalendarKeepsRange DEF RangeInv
  <2> QED BY <2>1, <2>4, CacheUntouched
<1>9. ASSUME NEW d \in Days, PickDay(d) PROVE RangeInv' /\ CacheInv'
  <2>1. /\ UNCHANGED <<route, today, preset, range>> /\ UNCHANGED queryVars
        /\ cal' = pickDay(d)
    BY <1>9 DEF PickDay
  <2>2. /\ d \in Int /\ d # NoDay
        /\ cal.start # NoDay => cal.start \in Int
    BY PagesAssumption DEF RangeInv
  <2>3. /\ cal' \in [open : BOOLEAN, view : Int \cup {NoDay},
                     start : Days \cup {NoDay}, end : Days \cup {NoDay}]
        /\ cal'.end # NoDay => cal'.start # NoDay /\ cal'.start <= cal'.end
    <3>1. CASE cal.start = NoDay \/ cal.end # NoDay
      <4>1. cal' = [cal EXCEPT !.start = d, !.end = NoDay]
        BY <2>1, <3>1 DEF pickDay
      <4> QED BY <4>1 DEF RangeInv
    <3>2. CASE cal.start # NoDay /\ cal.end = NoDay /\ d < cal.start
      <4>1. cal' = [cal EXCEPT !.start = d, !.end = cal.start]
        BY <2>1, <3>2 DEF pickDay
      <4>2. cal'.start = d /\ cal'.end = cal.start
        BY <4>1 DEF RangeInv
      <4>3. d <= cal.start
        BY <2>2, <3>2
      <4> QED BY <2>2, <3>2, <4>1, <4>2, <4>3 DEF RangeInv
    <3>3. CASE cal.start # NoDay /\ cal.end = NoDay /\ ~(d < cal.start)
      <4>1. cal' = [cal EXCEPT !.end = d]
        BY <2>1, <3>3 DEF pickDay
      <4>2. cal'.start = cal.start /\ cal'.end = d
        BY <4>1 DEF RangeInv
      <4>3. cal.start <= d
        BY <2>2, <3>3
      <4> QED BY <2>2, <3>3, <4>1, <4>2, <4>3 DEF RangeInv
    <3> QED BY <3>1, <3>2, <3>3
  <2>4. RangeInv'
    BY <2>1, <2>3, CalendarKeepsRange
  <2> QED BY <2>1, <2>4, CacheUntouched
<1>10. ASSUME Apply PROVE RangeInv' /\ CacheInv'
  <2> DEFINE r == [start |-> cal.start, end |-> IF cal.end = NoDay THEN cal.start ELSE cal.end]
  <2>1. /\ UNCHANGED <<route, today>> /\ cal' = Closed /\ cal.start # NoDay
        /\ SetRange("Custom", r)
    BY <1>10 DEF Apply
  <2>2. r \in Ranges /\ r.start <= r.end
    <3>1. cal.start \in Int /\ (cal.end # NoDay => cal.end \in Int /\ cal.start <= cal.end)
      BY <2>1, PagesAssumption DEF RangeInv
    <3> QED BY <3>1 DEF Ranges
  <2>3. CacheInv' /\ preset' = "Custom" /\ range' = r
    BY <2>1, <2>2, SetRangeKeeps
  <2>4. RangeSound'
    BY <2>2, <2>3 DEF RangeSound
  <2>5. RangeInv'
    BY <2>1, <2>2, <2>3, <2>4 DEF RangeInv, Closed, Presets, RollingPresets
  <2> QED BY <2>3, <2>5
<1>11. ASSUME Cancel PROVE RangeInv' /\ CacheInv'
  <2>1. /\ UNCHANGED <<route, today, preset, range>> /\ UNCHANGED queryVars /\ cal' = Closed
    BY <1>11 DEF Cancel
  <2>2. RangeInv'
    BY <2>1, CalendarKeepsRange DEF Closed
  <2> QED BY <2>1, <2>2, CacheUntouched
<1>12. ASSUME UNCHANGED <<route, today, queryVars, rangeVars>> PROVE RangeInv' /\ CacheInv'
  BY <1>12, RangeUntouched, CacheUntouched
<1>13. ASSUME \/ \E t \in DOMAIN Columns : \E col \in Columns[t] : onSort(t, col)
              \/ ToggleIdle \/ ClearFilters \/ TypeSearch
              \/ \E t \in {"all", "model", "mcp"} : UsageTypeFilter(t)
              \/ \E m \in {"requests", "tokens", "failed"} : RequestsMetricToggle(m)
              \/ \E m \in {modeBucket(r.mode) : r \in ModelRows} : ToggleMode(m)
              \/ \E c \in UNION {r.caps : r \in ModelRows} : ToggleCap(c)
              \/ \E m \in {r.name : r \in ModelRows} \cup {picked} : PickModel(m)
       PROVE  RangeInv' /\ CacheInv'
  <2>1. UNCHANGED <<route, today, queryVars, rangeVars>>
    BY <1>13 DEF onSort, ToggleIdle, ClearFilters, TypeSearch, UsageTypeFilter,
                 RequestsMetricToggle, ToggleMode, ToggleCap, PickModel
  <2> QED BY <1>12, <2>1
<1>14. ASSUME UNCHANGED vars PROVE RangeInv' /\ CacheInv'
  BY <1>12, <1>14 DEF vars
<1> QED
  BY <1>1, <1>2, <1>3, <1>4, <1>5, <1>6, <1>7, <1>8, <1>9, <1>10, <1>11, <1>13, <1>14 DEF Next

(* An answer under a key is one to the query of that key, and no other. *)
LEMMA AnswerIsToItsQuery ==
    ASSUME CacheInv, NEW q \in Queries, entry(q).asked # NoQuery
    PROVE  entry(q).asked = q /\ entry(q).ans \in Answers(q.name)
<1>1. NoEntry.asked = NoQuery
  BY DEF NoEntry
<1>2. queryKey(q) \in DOMAIN cache /\ entry(q) = cache[queryKey(q)]
  BY <1>1 DEF entry
<1>3. /\ entry(q).asked \in Queries /\ queryKey(entry(q).asked) = queryKey(q)
      /\ entry(q).ans \in Answers(entry(q).asked.name)
  BY <1>2 DEF CacheInv
<1> QED BY <1>3, KeyIsInjective

(* Where there is data there is an answer. *)
LEMMA DataAnswersItsQuery ==
    ASSUME CacheInv, NEW q \in Queries, entry(q).st = "data"
    PROVE  entry(q).asked = q /\ entry(q).ans \in Answers(q.name)
<1>1. NoEntry.st # "data"
  BY DEF NoEntry
<1>2. queryKey(q) \in DOMAIN cache /\ entry(q) = cache[queryKey(q)]
  BY <1>1 DEF entry
<1>3. /\ entry(q).asked \in Queries /\ queryKey(entry(q).asked) = queryKey(q)
      /\ entry(q).ans \in Answers(entry(q).asked.name)
  BY <1>2 DEF CacheInv
<1> QED BY <1>3, KeyIsInjective

(* Every step keeps TopKeys sorted by one of its columns: a header click,  *)
(* a remount, or a page mounted anew.                                      *)
LEMMA StepKeepsPanel == Inv /\ [Next]_vars => PanelInv'
<1> SUFFICES ASSUME Inv, [Next]_vars PROVE PanelInv'
  OBVIOUS
<1> USE DEF Inv
<1>1. /\ DOMAIN FreshPanel = {"keys", "idle", "models", "latency"}
      /\ FreshPanel["keys"].key \in KeySortKey /\ FreshPanel["idle"] \in BOOLEAN
      /\ FreshPanel["models"].key \in UsageSortKey /\ FreshPanel["latency"].key \in LatencySortKey
  BY DEF FreshPanel, KeySortKey, UsageSortKey, LatencySortKey
<1>2. ASSUME Remount PROVE PanelInv'
  <2>1. /\ DOMAIN panel' = DOMAIN panel
        /\ \A w \in DOMAIN panel : panel'[w] = panel[w] \/ panel'[w] = FreshPanel[w]
    BY <1>2 DEF Remount
  <2>2. {"keys", "idle", "models", "latency"} = DOMAIN panel
    BY DEF PanelInv
  <2> QED
    BY <1>1, <2>1, <2>2 DEF PanelInv
<1>3. ASSUME NEW to \in Routes, NavigateTo(to) PROVE PanelInv'
  BY <1>1, <1>3 DEF NavigateTo, PanelInv
<1>4. ASSUME NEW t \in DOMAIN Columns, NEW col \in Columns[t], onSort(t, col) PROVE PanelInv'
  <2>1. panel' = [panel EXCEPT ![t] = toggleSort(panel[t], col)] /\ toggleSort(panel[t], col).key = col
    BY <1>4 DEF onSort, toggleSort
  <2>2. /\ t = "keys" => col \in KeySortKey
        /\ t = "models" => col \in UsageSortKey
        /\ t = "latency" => col \in LatencySortKey
        /\ t \in {"keys", "models", "latency"}
    BY PagesAssumption
  <2>3. \A w \in DOMAIN panel : panel'[w] = IF w = t THEN toggleSort(panel[t], col) ELSE panel[w]
    BY <2>1
  <2>4. DOMAIN panel' = DOMAIN panel
    BY <2>1
  <2> QED
    BY <2>1, <2>2, <2>3, <2>4 DEF PanelInv
<1>5. ASSUME ToggleIdle PROVE PanelInv'
  BY <1>5 DEF ToggleIdle, PanelInv
<1>6. ASSUME UNCHANGED panel PROVE PanelInv'
  BY <1>6 DEF PanelInv
<1>7. ASSUME \/ Retry \/ Apply \/ \E q \in Observed : Reconnect(q)
             \/ \E p \in Presets : ClickPreset(p)
             \/ \E k \in DOMAIN fetch : Fail(k) \/ \E a \in Answers(fetch[k].name) : Deliver(k, a)
      PROVE  PanelInv'
  <2>1. Remount
    BY <1>7, Zenon DEF Retry, Apply, Reconnect, ClickPreset, Fail, Deliver
  <2> QED
    BY <1>2, <2>1
<1>8. ASSUME \/ Tick \/ Cancel \/ \E d \in Days : PageMonth(d) \/ PickDay(d)
             \/ ClearFilters \/ TypeSearch
             \/ \E t \in {"all", "model", "mcp"} : UsageTypeFilter(t)
             \/ \E m \in {"requests", "tokens", "failed"} : RequestsMetricToggle(m)
             \/ \E m \in {modeBucket(r.mode) : r \in ModelRows} : ToggleMode(m)
             \/ \E c \in UNION {r.caps : r \in ModelRows} : ToggleCap(c)
             \/ \E m \in {r.name : r \in ModelRows} \cup {picked} : PickModel(m)
             \/ UNCHANGED vars
      PROVE  PanelInv'
  <2>1. UNCHANGED panel
    BY <1>8 DEF Tick, Cancel, PageMonth, PickDay, ClearFilters, TypeSearch, UsageTypeFilter,
                RequestsMetricToggle, ToggleMode, ToggleCap, PickModel, vars
  <2> QED
    BY <1>6, <2>1
<1> QED
  BY <1>3, <1>4, <1>5, <1>7, <1>8 DEF Next

LEMMA StepKeeps == Inv /\ [Next]_vars => Inv'
BY StepKeepsQueries, StepKeepsPanel DEF Inv

LEMMA EntryStates ==
    ASSUME CacheInv, NEW q
    PROVE  entry(q).st \in {"pending", "error", "data"}
BY DEF entry, CacheInv, NoEntry

LEMMA InvTellsTruth == Inv => PanelsTellTruth
<1> SUFFICES ASSUME RangeInv, CacheInv PROVE PanelsTellTruth
  BY DEF Inv
<1>1. ASSUME NEW n \in Names PROVE Query(n, range) \in Queries
  BY DEF Query, Queries, Names, Ranges, NoRange, RangeInv
<1>2. ASSUME StatsBody
      PROVE  /\ statsEntry.asked = Query("stats", range)
             /\ LatencyPanel \in {"empty", "ready"} =>
                  latencyEntry.ans.avail /\ latencyEntry.asked = Query("latency", range)
             /\ ErrorsDonut \in {"empty", "ready"} =>
                  latencyEntry.ans.avail /\ latencyEntry.asked = Query("latency", range)
  <2>1. Query("stats", range) \in Queries /\ Query("latency", range) \in Queries
    BY <1>1 DEF Names
  <2>2. statsEntry.st = "data"
    BY <1>2, <2>1, EntryStates DEF StatsBody, Shown, statsEntry
  <2>3. statsEntry.asked = Query("stats", range)
    BY <2>1, <2>2, DataAnswersItsQuery DEF statsEntry
  <2>4. ASSUME LatencyPanel \in {"empty", "ready"} \/ ErrorsDonut \in {"empty", "ready"}
        PROVE  latencyEntry.ans.avail /\ latencyEntry.st = "data"
    <3>1. latencyEntry.st \in {"pending", "error", "data"}
      BY <2>1, EntryStates DEF latencyEntry
    <3> QED BY <2>4, <3>1 DEF LatencyPanel, ErrorsDonut
  <2>5. latencyEntry.st = "data" => latencyEntry.asked = Query("latency", range)
    BY <2>1, DataAnswersItsQuery DEF latencyEntry
  <2> QED BY <2>3, <2>4, <2>5
<1>3. ASSUME CatalogBody
      PROVE  /\ catalogEntry.asked = Query(route, range)
             /\ route = "mcp" /\ Mcp = "empty" => catalogEntry.ans.avail
             /\ route = "a2a" /\ A2a = "empty" => catalogEntry.ans.avail
             /\ route = "models" /\ ModelsPanel = "empty" /\ modes = {} /\ caps = {} /\ ~search
                  => catalogModels = {}
  <2>1. route \in {"models", "mcp", "a2a"} /\ Shown(catalogEntry) = "body"
    BY <1>3 DEF CatalogBody
  <2>2. catalogEntry = entry(Query(route, range)) /\ Query(route, range) \in Queries
    BY <1>1, <2>1 DEF catalogEntry, Names
  <2>3. catalogEntry.st = "data"
    BY <2>1, <2>2, EntryStates DEF Shown
  <2>4. catalogEntry.asked = Query(route, range)
    BY <2>2, <2>3, DataAnswersItsQuery
  <2>5. Mcp = "empty" \/ A2a = "empty" => catalogEntry.ans.avail
    BY DEF Mcp, A2a
  <2>6. ASSUME ModelsPanel = "empty", modes = {}, caps = {}, ~search
        PROVE  catalogModels = {}
    <3>1. visibleModels = {}
      BY <2>6 DEF ModelsPanel
    <3>2. visibleModels = catalogModels
      BY <2>6 DEF visibleModels, matchesSearch
    <3> QED BY <3>1, <3>2
  <2> QED BY <2>4, <2>5, <2>6
<1>4. ASSUME route = "dashboard"
      PROVE  /\ (\E i \in DOMAIN tiles : tiles[i].value # Missing)
                  => statsEntry.asked = Query("stats", range)
             /\ activeKeys # Missing => keysEntry.asked = Query("keys", range)
  <2>1. Query("stats", range) \in Queries /\ Query("keys", range) \in Queries
    BY <1>1 DEF Names
  <2>2. ASSUME statsEntry.st # "data", NEW i \in DOMAIN tiles
        PROVE  tiles[i].value = Missing
    <3>1. tiles = kpiCards(NoTotals, TRUE)
      BY <2>2 DEF tiles
    <3>2. DOMAIN tiles = 1..3
      BY <3>1 DEF kpiCards
    <3>3. i \in {1, 2, 3}
      BY <2>2, <3>2
    <3> QED BY <3>1, <3>3 DEF kpiCards, NoTotals
  <2>3. statsEntry.st = "data" => statsEntry.asked = Query("stats", range)
    BY <2>1, DataAnswersItsQuery DEF statsEntry
  <2>4. activeKeys # Missing => keysEntry.st = "data"
    BY DEF activeKeys
  <2>5. keysEntry.st = "data" => keysEntry.asked = Query("keys", range)
    BY <2>1, DataAnswersItsQuery DEF keysEntry
  <2> QED BY <2>2, <2>3, <2>4, <2>5
<1> QED BY <1>2, <1>3, <1>4 DEF PanelsTellTruth

(* The smaller of two numbers. *)
LEMMA MinOfTwo ==
  ASSUME NEW a \in Int, NEW b \in Int
  PROVE  Min({a, b}) \in {a, b} /\ Min({a, b}) <= a /\ Min({a, b}) <= b
<1>1. \E x \in {a, b} : \A y \in {a, b} : x <= y
  <2>1. CASE a <= b
    BY <2>1
  <2>2. CASE b <= a
    BY <2>2
  <2> QED
    BY <2>1, <2>2
<1> QED
  BY <1>1 DEF Min

LEMMA InvListsKeysOnce == Inv => KeysListedOnce
<1> SUFFICES ASSUME RangeInv, CacheInv, PanelInv, StatsBody PROVE KeysListedOnce
  BY DEF Inv, KeysListedOnce
<1> DEFINE stats == statsEntry.ans.rows
           user == keyRows
           top == topKeys
           key == panel.keys.key
           dir == panel.keys.dir
           active == {i \in DOMAIN top : isActive(top[i])}
           base == IF panel.idle THEN top ELSE rowsAt(top, active)
           column == [i \in DOMAIN base |-> keyAccessor(key, base[i])]
           visible == sortedBy(base, column, dir)
           shown == rankedKeys
<1>1. statsEntry.ans \in Answers("stats")
  <2>1. Query("stats", range) \in Queries /\ Query("stats", range).name = "stats"
    BY DEF Query, Queries, Names, Ranged, RangeInv
  <2>2. statsEntry.st = "data"
    BY <2>1, EntryStates DEF StatsBody, Shown, statsEntry
  <2> QED
    BY <2>1, <2>2, DataAnswersItsQuery DEF statsEntry
<1>2. stats \in Seq(StatsKeyRow) /\ statsEntry.ans.avail \in BOOLEAN
  BY <1>1, AnswersAssumption
<1>3. user \in Seq(KeyRow) /\ OneRowPerKey(user)
  <2>1. Query("keys", range) \in Queries /\ Query("keys", range).name = "keys"
    BY DEF Query, Queries, Names, Ranged, NoRange, Ranges
  <2>2. CASE keysEntry.asked = NoQuery
    BY <2>2 DEF keyRows, OneRowPerKey
  <2>3. CASE keysEntry.asked # NoQuery
    <3>1. keysEntry.ans \in Answers("keys")
      BY <2>1, <2>3, AnswerIsToItsQuery DEF keysEntry
    <3> QED
      BY <2>3, <3>1, AnswersAssumption DEF keyRows
  <2> QED
    BY <2>2, <2>3
<1> HIDE DEF stats, user
<1>4. /\ top \in Seq(StatsKeyRow)
      /\ \A i, j \in DOMAIN top : top[i].id = top[j].id /\ top[i].id # 0 /\ i # j =>
           \E k \in DOMAIN stats : top[i] = stats[k]
      /\ \A u \in DOMAIN user : IsNamed(user[u]) =>
           \/ \E n \in DOMAIN top : IsRowOf(top[n], user[u])
           \/ \E k \in DOMAIN stats : IsNamesake(stats[k], user[u])
      /\ \A i \in DOMAIN stats : \E n \in DOMAIN top : top[n] = stats[i]
      /\ \A n \in DOMAIN top : isActive(top[n]) => \E i \in DOMAIN stats : top[n] = stats[i]
  <2>1. top = mergeTopKeys(stats, user)
    BY DEF topKeys, stats, user
  <2>2. ListsEveryKey(mergeTopKeys(stats, user), stats, user)
    BY <1>2, <1>3, MergeListsEveryKey
  <2> HIDE DEF top
  <2>3. ListsEveryKey(top, stats, user)
    BY <2>1, <2>2
  <2> QED
    BY <2>3 DEF ListsEveryKey
<1>5. shown = IF panel.idle THEN visible ELSE SubSeq(visible, 1, Min({TopN, Len(visible)}))
  BY DEF rankedKeys, sortRows, filterRows
<1>6. panel.idle \in BOOLEAN /\ key \in KeySortKey
  BY DEF PanelInv
<1> HIDE DEF top, shown
<1>7. /\ base \in Seq(StatsKeyRow)
      /\ \A i \in active : \E n \in DOMAIN base : base[n] = top[i]
  <2>1. active \in SUBSET (DOMAIN top)
    OBVIOUS
  <2> HIDE DEF active
  <2> QED
    BY <1>4, <1>6, <2>1, RowsAtKeeps
<1> HIDE DEF base
<1>8. /\ column \in [DOMAIN base -> Int]
      /\ \A i \in DOMAIN base : column[i] = keyAccessor(key, base[i])
  <2>1. ASSUME NEW i \in DOMAIN base PROVE keyAccessor(key, base[i]) \in Int
    <3>1. base[i] \in StatsKeyRow
      BY <1>7, LenProperties, ElementOfSeq
    <3> QED
      BY <1>6, <3>1 DEF keyAccessor, KeySortKey, StatsKeyRow, Figure, Missing
  <2> QED
    BY <2>1
<1>9. /\ visible \in Seq(StatsKeyRow) /\ DOMAIN visible = DOMAIN base
      /\ SameRows(visible, base) /\ InOrder(visible, base, column, dir)
  <2> HIDE DEF column
  <2> QED
    BY <1>7, <1>8, SortedByKeeps
<1> HIDE DEF visible, column
<1>10. ASSUME NEW i \in DOMAIN visible, NEW j \in DOMAIN visible, i < j
       PROVE  compareValues(keyAccessor(key, visible[i]), keyAccessor(key, visible[j]), dir) <= 0
  <2> HIDE DEF key, dir
  <2>0. InOrder(visible, base, column, dir)
    BY <1>9
  <2>1. PICK a \in DOMAIN base, b \in DOMAIN base :
          /\ visible[i] = base[a] /\ visible[j] = base[b]
          /\ compareValues(column[a], column[b], dir) <= 0
    BY <1>10, <2>0 DEF InOrder
  <2>2. column[a] = keyAccessor(key, visible[i]) /\ column[b] = keyAccessor(key, visible[j])
    BY <1>8, <2>1
  <2> QED
    BY <2>1, <2>2
<1>11. /\ DOMAIN shown \subseteq DOMAIN visible
       /\ \A i \in DOMAIN shown : shown[i] = visible[i]
       /\ shown = <<>> => DOMAIN visible = {}
  <2>1. Len(visible) \in Nat /\ DOMAIN visible = 1..Len(visible)
    BY <1>9, LenProperties
  <2>2. CASE panel.idle
    BY <1>5, <2>1, <2>2
  <2>3. CASE ~panel.idle
    <3> DEFINE m == Min({TopN, Len(visible)})
    <3>1. m \in Nat /\ m <= Len(visible) /\ (m = 0 => Len(visible) = 0)
      <4>1. TopN \in Nat \ {0}
        BY PagesAssumption
      <4>2. m \in {TopN, Len(visible)} /\ m <= Len(visible)
        BY <2>1, <4>1, MinOfTwo
      <4> HIDE DEF m
      <4> QED
        BY <2>1, <4>1, <4>2
    <3>2. shown = SubSeq(visible, 1, m)
      BY <1>5, <2>3
    <3> HIDE DEF m
    <3>3. \A i \in 1..m : visible[i] \in StatsKeyRow
      BY <1>9, <2>1, <3>1, ElementOfSeq
    <3>4. /\ shown \in Seq(StatsKeyRow) /\ Len(shown) = m
          /\ \A i \in 1..m : shown[i] = visible[i]
      BY <3>1, <3>2, <3>3, SubSeqProperties
    <3>5. DOMAIN shown = 1..m
      BY <3>4, LenProperties
    <3> QED
      BY <2>1, <3>1, <3>4, <3>5
  <2> QED
    BY <1>6, <2>2, <2>3
<1>12. ASSUME NEW i \in DOMAIN shown, NEW j \in DOMAIN shown, i < j
       PROVE  compareValues(keyAccessor(key, shown[i]), keyAccessor(key, shown[j]), dir) <= 0
  BY <1>10, <1>11, <1>12
<1>13. ASSUME NEW i \in DOMAIN shown, NEW j \in DOMAIN shown, i < j,
              keyAccessor(key, shown[i]) = Missing
       PROVE  keyAccessor(key, shown[j]) = Missing
  BY <1>12, <1>13 DEF compareValues
<1>14. {top[i] : i \in {n \in DOMAIN top : isActive(top[n])}}
         = {stats[i] : i \in {n \in DOMAIN stats : isActive(stats[n])}}
  <2>1. ASSUME NEW i \in DOMAIN top, isActive(top[i])
        PROVE  \E k \in DOMAIN stats : isActive(stats[k]) /\ top[i] = stats[k]
    BY <1>4, <2>1
  <2>2. ASSUME NEW k \in DOMAIN stats, isActive(stats[k])
        PROVE  \E i \in DOMAIN top : isActive(top[i]) /\ stats[k] = top[i]
    BY <1>4, <2>2
  <2> QED
    BY <2>1, <2>2
<1>15. ASSUME TopKeysPanel = "empty"
       PROVE  statsEntry.ans.avail /\ \A i \in DOMAIN stats : ~isActive(stats[i])
  <2>1. /\ statsEntry.ans.avail
        /\ top = <<>> \/ shown = <<>>
    BY <1>2, <1>15 DEF TopKeysPanel, capabilityRenderMode, top, shown
  <2>2. CASE top = <<>>
    BY <1>4, <2>1, <2>2
  <2>3. CASE shown = <<>>
    <3>1. active = {}
      BY <1>7, <1>9, <1>11, <2>3
    <3> QED
      BY <1>4, <2>1, <3>1
  <2> QED
    BY <2>1, <2>2, <2>3
<1> QED
  BY <1>4, <1>12, <1>13, <1>14, <1>15 DEF KeysListedOnce, stats, user, top, shown
----------------------------------------------------------------------------
(* The larger of two numbers. *)
LEMMA MaxOfTwo ==
  ASSUME NEW a \in Int, NEW b \in Int
  PROVE  Max({a, b}) \in {a, b} /\ Max({a, b}) >= a /\ Max({a, b}) >= b
<1>1. \E x \in {a, b} : \A y \in {a, b} : x >= y
  <2>1. CASE a <= b
    BY <2>1
  <2>2. CASE b <= a
    BY <2>2
  <2> QED
    BY <2>1, <2>2
<1> QED
  BY <1>1 DEF Max

(* The slices rankSlices returns, for a list and the number of names. *)
Sliced(list, n) ==
    LET top == [i \in 1..n |-> NamedSlice(list[i])]
        rest == SubSeq(list, n + 1, Len(list))
    IN IF rest = <<>> THEN top ELSE Append(top, OtherSlice(rest))

(* What rankSlices makes of the models in the order of their spend: the    *)
(* first n by name, the others together.                                   *)
Ranked(donut, list, n) ==
    /\ Len(donut) \in {n, n + 1} /\ DOMAIN donut = 1..Len(donut)
    /\ \A i \in 1..n : donut[i] = NamedSlice(list[i])
    /\ Len(donut) = n => Len(list) = n
    /\ Len(donut) = n + 1 =>
         /\ donut[n + 1].isOther
         /\ donut[n + 1].spend
              = total([i \in 1..(Len(list) - n) |-> asNumber(list[n + i].spend)])

(* The slices of the donut, whatever the models are. *)
LEMMA SlicesRanked ==
  ASSUME NEW list \in Seq(StatsModelRow), NEW n \in 0..Len(list), NEW donut,
         donut = Sliced(list, n)
  PROVE  Ranked(donut, list, n)
<1> DEFINE N == Len(list)
           top == [i \in 1..n |-> NamedSlice(list[i])]
           rest == SubSeq(list, n + 1, N)
<1>1. N \in Nat /\ DOMAIN list = 1..N /\ \A i \in 1..N : list[i] \in StatsModelRow
  BY LenProperties, ElementOfSeq
<1>2. n \in Nat /\ n <= N
  BY <1>1
<1>3. /\ rest \in Seq(StatsModelRow) /\ Len(rest) = N - n
      /\ \A i \in 1..(N - n) : rest[i] = list[n + i]
  <2>1. \A i \in (n + 1)..N : list[i] \in StatsModelRow
    BY <1>1, <1>2
  <2>2. n + 1 \in Int /\ N \in Int
    BY <1>1, <1>2
  <2>3. /\ rest \in Seq(StatsModelRow)
        /\ Len(rest) = IF n + 1 <= N THEN N - (n + 1) + 1 ELSE 0
        /\ \A i \in 1..(N - (n + 1) + 1) : rest[i] = list[n + 1 + i - 1]
    BY <2>1, <2>2, SubSeqProperties
  <2> HIDE DEF rest
  <2>4. Len(rest) = N - n /\ N - (n + 1) + 1 = N - n
    <3>1. Len(rest) = IF n + 1 <= N THEN N - (n + 1) + 1 ELSE 0
      BY <2>3
    <3>2. N \in Nat /\ n \in Nat /\ n <= N
      BY <1>1, <1>2
    <3> HIDE DEF N
    <3> QED BY <3>1, <3>2
  <2>5. ASSUME NEW i \in 1..(N - n) PROVE rest[i] = list[n + i]
    <3>1. n + 1 + i - 1 = n + i
      BY <1>1, <1>2
    <3> QED BY <2>3, <2>4, <3>1
  <2> QED BY <2>3, <2>4, <2>5
<1>4. DOMAIN rest = 1..(N - n)
  BY <1>3, LenProperties
<1>5. top \in Seq({NamedSlice(list[i]) : i \in 1..n}) /\ Len(top) = n /\ DOMAIN top = 1..n
  <2>1. top \in [1..n -> {NamedSlice(list[i]) : i \in 1..n}]
    OBVIOUS
  <2> DEFINE T == {NamedSlice(list[i]) : i \in 1..n}
  <2>2. top \in Seq(T) /\ Len(top) = n /\ DOMAIN top = 1..n
    <3> HIDE DEF top, T
    <3>1. top \in [1..n -> T]
      BY <2>1 DEF T
    <3>2. top \in Seq(T)
      BY <1>2, <3>1, SeqDef
    <3> QED BY <1>2, <3>1, <3>2, LenProperties
  <2> QED BY <2>2
<1> DEFINE other == OtherSlice(rest)
<1>6. /\ other.isOther
      /\ other.spend = total([i \in 1..(N - n) |-> asNumber(list[n + i].spend)])
  <2>1. other.isOther /\ other.spend = total([i \in DOMAIN rest |-> asNumber(rest[i].spend)])
    BY DEF OtherSlice, sumOf
  <2>2. [i \in DOMAIN rest |-> asNumber(rest[i].spend)]
          = [i \in 1..(N - n) |-> asNumber(list[n + i].spend)]
    BY <1>3, <1>4
  <2> QED BY <2>1, <2>2
<1>7. donut = IF rest = <<>> THEN top ELSE Append(top, other)
  BY DEF Sliced
<1> HIDE DEF rest, other
<1>8. CASE rest = <<>>
  <2>1. donut = top
    BY <1>7, <1>8
  <2>2. N = n
    <3>1. Len(rest) = 0 /\ Len(rest) = N - n
      BY <1>3, <1>8
    <3>2. N \in Nat /\ n \in Nat
      BY <1>1, <1>2
    <3> HIDE DEF N
    <3> QED BY <3>1, <3>2
  <2>3. Len(donut) # n + 1
    BY <1>2, <1>5, <2>1
  <2> QED BY <1>5, <2>1, <2>2, <2>3 DEF Ranked
<1>9. CASE rest # <<>>
  <2>1. donut = Append(top, other)
    BY <1>7, <1>9
  <2> DEFINE T == {NamedSlice(list[i]) : i \in 1..n} \cup {other}
  <2>2. top \in Seq(T) /\ other \in T
    <3>1. top \in [1..n -> T]
      OBVIOUS
    <3> QED BY <1>2, <3>1
  <2> HIDE DEF T
  <2>3. /\ Len(donut) = n + 1 /\ DOMAIN donut = 1..(n + 1)
        /\ \A i \in 1..n : donut[i] = top[i]
        /\ donut[n + 1] = other
    <3> HIDE DEF top
    <3>1. /\ Append(top, other) \in Seq(T)
          /\ Len(Append(top, other)) = Len(top) + 1
          /\ \A i \in 1..Len(top) : Append(top, other)[i] = top[i]
          /\ Append(top, other)[Len(top) + 1] = other
      BY <2>2, AppendProperties
    <3> QED BY <1>5, <2>1, <3>1, LenProperties
  <2>4. Len(donut) # n
    BY <1>2, <2>3
  <2> QED BY <1>6, <2>3, <2>4 DEF Ranked
<1> QED BY <1>8, <1>9

(* The order of a column of amounts, the largest first. *)
Descends(q, c, N) == /\ Visits(q, N)
                     /\ \A i, j \in 1..N : i < j => c[q[j]] <= c[q[i]]

LEMMA SortOrderDescends ==
  ASSUME NEW N \in Nat, NEW c \in [1..N -> Nat]
  PROVE  Descends(sortOrder(c, "desc"), c, N)
<1> DEFINE q == sortOrder(c, "desc")
<1>1. c \in [1..N -> Int]
  OBVIOUS
<1>2. /\ q \in [1..N -> 1..N]
      /\ \A i \in 1..N : \E k \in 1..N : q[k] = i
      /\ \A i, j \in 1..N : q[i] = q[j] => i = j
      /\ \A i, j \in 1..N : i < j => compareValues(c[q[i]], c[q[j]], "desc") <= 0
  BY <1>1, SortOrderLists
<1> HIDE DEF q
<1>3. ASSUME NEW i \in 1..N, NEW j \in 1..N, i < j PROVE c[q[j]] <= c[q[i]]
  <2>1. c[q[i]] \in Nat /\ c[q[j]] \in Nat
    BY <1>2
  <2>2. compareValues(c[q[i]], c[q[j]], "desc") <= 0
    BY <1>2, <1>3
  <2> QED BY <2>1, <2>2 DEF compareValues, Missing
<1>4. Visits(q, N)
  BY <1>2 DEF Visits
<1> QED BY <1>3, <1>4 DEF Descends, q

(* The donut adds up, for any list of models: sorting moves its figures,   *)
(* and the slices split them.                                              *)
LEMMA DonutIsSound ==
  ASSUME NEW models \in Seq(StatsModelRow)
  PROVE  DonutAddsUp(rankSlices(models), models)
<1> DEFINE N == Len(models)
           col == [i \in 1..N |-> asNumber(models[i].spend)]
           q == sortOrder(col, "desc")
           moved == [i \in 1..N |-> col[q[i]]]
           list == sortedBy(models, col, "desc")
           n == Min({SliceN, Len(list)})
           donut == rankSlices(models)
<1>1. N \in Nat /\ DOMAIN models = 1..N /\ \A i \in 1..N : models[i] \in StatsModelRow
  BY LenProperties, ElementOfSeq
<1>2. col \in [1..N -> Nat] /\ \A i \in 1..N : col[i] = asNumber(models[i].spend)
  BY <1>1 DEF asNumber, StatsModelRow, Figure, Missing
<1>3. Descends(q, col, N)
  <2> HIDE DEF col, N
  <2> QED BY <1>1, <1>2, SortOrderDescends
<1>4. /\ q \in [1..N -> 1..N] /\ Visits(q, N)
      /\ \A i, j \in 1..N : i < j => col[q[j]] <= col[q[i]]
  <2> HIDE DEF col, N, q
  <2> QED BY <1>3 DEF Visits, Descends
<1>5. /\ list = [i \in 1..N |-> models[q[i]]]
      /\ list \in Seq(StatsModelRow) /\ Len(list) = N
      /\ \A i \in 1..N : list[i] \in StatsModelRow
  <2>1. list = [i \in 1..N |-> models[q[i]]]
    BY <1>1 DEF sortedBy
  <2> HIDE DEF list, q
  <2>2. list \in [1..N -> StatsModelRow]
    BY <1>1, <1>4, <2>1
  <2>3. list \in Seq(StatsModelRow)
    BY <1>1, <2>2
  <2>4. Len(list) = N
    BY <1>1, <2>2, <2>3, LenProperties
  <2> QED BY <2>1, <2>2, <2>3, <2>4
<1>6. \A i \in 1..N : asNumber(list[i].spend) = moved[i] /\ moved[i] \in Nat
  <2> TAKE i \in 1..N
  <2>1. q[i] \in 1..N
    BY <1>4
  <2>2. list[i] = models[q[i]] /\ moved[i] = col[q[i]]
    BY <1>5
  <2> QED BY <1>2, <2>1, <2>2
<1>7. donut = Sliced(list, n)
  BY <1>1 DEF rankSlices, sortRows, Sliced
<1>8. SliceN \in Nat /\ n \in Nat /\ n <= N /\ n <= SliceN /\ n \in 0..Len(list)
  <2>1. SliceN \in Nat
    BY FiguresAssumption
  <2> DEFINE L == Len(list)
  <2>2. L = N /\ L \in Nat
    BY <1>1, <1>5
  <2> HIDE DEF L, N
  <2>3. Min({SliceN, L}) \in {SliceN, L} /\ Min({SliceN, L}) <= SliceN /\ Min({SliceN, L}) <= L
    <3>1. SliceN \in Int /\ L \in Int
      BY <2>1, <2>2
    <3> QED BY <3>1, MinOfTwo, Zenon
  <2>4. n = Min({SliceN, L})
    BY DEF L
  <2> HIDE DEF n
  <2>5. n \in Nat /\ n <= L /\ n <= SliceN /\ n \in 0..L
    BY <2>1, <2>2, <2>3, <2>4
  <2> QED BY <2>1, <2>2, <2>5 DEF L
<1>9. Ranked(donut, list, n)
  <2> HIDE DEF n, list, donut
  <2> QED BY <1>5, <1>7, <1>8, SlicesRanked
<1> HIDE DEF n, list, donut, q, col
<1>10. /\ Len(donut) \in {n, n + 1} /\ DOMAIN donut = 1..Len(donut)
       /\ \A i \in 1..n : donut[i] = NamedSlice(list[i])
       /\ Len(donut) = n => N = n
       /\ Len(donut) = n + 1 =>
            /\ donut[n + 1].isOther
            /\ donut[n + 1].spend = total([i \in 1..(N - n) |-> asNumber(list[n + i].spend)])
  BY <1>5, <1>9 DEF Ranked
<1>11. Len(donut) \in {n, n + 1} /\ DOMAIN donut = 1..Len(donut)
  BY <1>10
<1>12. Len(donut) = n + 1 => donut[n + 1].isOther
  BY <1>10
<1>13. \A i \in DOMAIN donut : i \in 1..n \/ (i = n + 1 /\ Len(donut) = n + 1)
  <2> DEFINE M == Len(donut)
  <2>1. M \in {n, n + 1} /\ DOMAIN donut = 1..M
    BY <1>11
  <2> HIDE DEF M
  <2>2. \A i \in DOMAIN donut : i \in 1..n \/ (i = n + 1 /\ M = n + 1)
    BY <1>8, <2>1
  <2> QED BY <2>2 DEF M
<1>14. \A i \in 1..n : /\ donut[i].spend = moved[i] /\ donut[i].model = list[i].model
                       /\ ~donut[i].isOther
  <2> TAKE i \in 1..n
  <2>1. i \in 1..N
    BY <1>1, <1>8
  <2>2. donut[i] = NamedSlice(list[i])
    BY <1>10
  <2> HIDE DEF moved
  <2> QED BY <1>6, <2>1, <2>2 DEF NamedSlice
<1>15. moved \in [1..N -> Int] /\ total(moved) = total(col)
  <2>1. moved \in [1..N -> Int]
    BY <1>2, <1>4
  <2>2. col \in [1..N -> Int]
    BY <1>2
  <2> HIDE DEF N
  <2> QED BY <1>1, <1>4, <2>1, <2>2, TotalAnyOrder
<1> HIDE DEF moved, N
<1>16. donutTotal(donut, Missing) = total(col)
  <2> DEFINE M == Len(donut)
             spends == [i \in 1..M |-> donut[i].spend]
  <2>1. donutTotal(donut, Missing) = total(spends)
    BY <1>10 DEF donutTotal, sumOf
  <2>2. CASE M = n
    <3>1. N = n
      BY <1>10, <2>2
    <3>2. spends = moved
      BY <1>14, <1>15, <2>2, <3>1
    <3> QED BY <1>15, <2>1, <3>2
  <2>3. CASE M = n + 1
    <3> DEFINE first == [i \in 1..n |-> moved[i]]
               rest == [i \in 1..(N - n) |-> moved[n + i]]
    <3>1. total(moved) = total(first) + total(rest)
      <4>1. n \in 0..N
        BY <1>1, <1>8
      <4> QED BY <1>1, <1>15, <4>1, TotalSplit
    <3>2. donut[n + 1].spend = total(rest)
      <4>1. \A i \in 1..(N - n) : asNumber(list[n + i].spend) = moved[n + i]
        <5> TAKE i \in 1..(N - n)
        <5>1. n + i \in 1..N
          BY <1>1, <1>8
        <5> QED BY <1>6, <5>1
      <4>2. [i \in 1..(N - n) |-> asNumber(list[n + i].spend)] = rest
        BY <4>1
      <4> QED BY <1>10, <2>3, <4>2
    <3>3. total(rest) \in Int
      <4>1. N - n \in Nat /\ rest \in [1..(N - n) -> Int]
        <5>1. N - n \in Nat
          BY <1>1, <1>8
        <5>2. \A i \in 1..(N - n) : moved[n + i] \in Int
          BY <1>1, <1>8, <1>15
        <5> QED BY <5>1, <5>2
      <4> HIDE DEF rest
      <4>2. PICK p : Totals(p, rest, N - n)
        BY <4>1, TotalsExist
      <4> QED BY <4>1, <4>2, TotalIsLast
    <3>4. spends \in [1..(n + 1) -> Int] /\ spends[n + 1] = total(rest)
      <4>1. \A i \in 1..n : donut[i].spend \in Int
        <5> TAKE i \in 1..n
        <5>1. i \in 1..N
          BY <1>1, <1>8
        <5> QED BY <1>14, <1>15, <5>1
      <4>2. \A i \in 1..(n + 1) : i \in 1..n \/ i = n + 1
        BY <1>8
      <4>3. \A i \in 1..(n + 1) : donut[i].spend \in Int
        BY <3>2, <3>3, <4>1, <4>2
      <4>4. n + 1 \in 1..(n + 1)
        BY <1>8
      <4> HIDE DEF rest
      <4> QED BY <2>3, <3>2, <4>3, <4>4
    <3>5. Without(spends, n + 1, n + 1) = first
      <4>1. n + 1 - 1 = n /\ \A i \in 1..n : i < n + 1
        BY <1>8
      <4>2. ASSUME NEW i \in 1..n PROVE spends[i] = moved[i]
        <5>1. i \in 1..M
          <6>1. n \in Nat /\ M = n + 1
            BY <1>8, <2>3
          <6> HIDE DEF M
          <6> QED BY <6>1
        <5>2. spends[i] = donut[i].spend
          BY <5>1
        <5> HIDE DEF spends
        <5> QED BY <1>14, <5>2
      <4> HIDE DEF spends, M, rest
      <4>3. Without(spends, n + 1, n + 1) = [i \in 1..n |-> spends[i]]
        BY <1>8, WithoutLast
      <4> QED BY <4>2, <4>3
    <3>6. total(spends) = total(first) + total(rest)
      <4>1. n + 1 \in Nat /\ n + 1 \in 1..(n + 1)
        BY <1>8
      <4> HIDE DEF spends, first, rest
      <4> QED BY <3>4, <3>5, <4>1, TotalWithout
    <3> QED BY <1>15, <2>1, <3>1, <3>6
  <2> QED BY <1>10, <2>2, <2>3
<1>17. Len(donut) <= SliceN + 1
  <2> DEFINE M == Len(donut)
  <2>1. M \in {n, n + 1}
    BY <1>11
  <2> HIDE DEF M
  <2>2. M <= SliceN + 1
    BY <1>8, <2>1
  <2> QED BY <2>2 DEF M
<1>18. ASSUME NEW i \in DOMAIN donut, ~donut[i].isOther
       PROVE  i \in 1..n
  BY <1>12, <1>13, <1>18
<1>19. ASSUME NEW i \in 1..n
       PROVE  Cardinality({m \in 1..N : asNumber(models[m].spend) > donut[i].spend}) < i
  <2> DEFINE larger == {m \in 1..N : asNumber(models[m].spend) > donut[i].spend}
             before == {q[k] : k \in 1..(i - 1)}
  <2>1. i \in Nat /\ i \in 1..N /\ i - 1 \in Nat
    BY <1>1, <1>8
  <2>2. ASSUME NEW m \in 1..N, asNumber(models[m].spend) > donut[i].spend PROVE m \in before
    <3>1. PICK k \in 1..N : q[k] = m
      BY <1>4 DEF Visits
    <3>2. col[q[k]] > col[q[i]]
      <4>1. donut[i].spend = col[q[i]]
        BY <1>14, <2>1 DEF moved
      <4>2. asNumber(models[m].spend) = col[m]
        BY <1>2
      <4> QED BY <2>2, <3>1, <4>1, <4>2
    <3>3. col[q[k]] \in Nat /\ col[q[i]] \in Nat
      BY <1>2, <1>4, <2>1
    <3>4. ~(i < k) /\ i # k
      <4>1. i < k => col[q[k]] <= col[q[i]]
        BY <1>4, <2>1
      <4> QED BY <3>2, <3>3, <4>1
    <3>5. k \in 1..(i - 1)
      BY <1>1, <2>1, <3>4
    <3> QED BY <3>1, <3>5
  <2>3. IsFiniteSet(before) /\ Cardinality(before) <= i - 1
    <3>1. IsFiniteSet(1..(i - 1)) /\ Cardinality(1..(i - 1)) = i - 1
      BY <2>1, FS_Interval
    <3> DEFINE g == [k \in 1..(i - 1) |-> q[k]]
    <3>2. before = {g[k] : k \in 1..(i - 1)} /\ g \in [1..(i - 1) -> before]
      OBVIOUS
    <3>3. IsFiniteSet(before) /\ Cardinality(before) <= Cardinality(1..(i - 1))
      <4>1. g \in Surjection(1..(i - 1), before)
        BY <3>2 DEF Surjection
      <4> HIDE DEF g, before
      <4> QED BY <3>1, <4>1, FS_Surjection
    <3> QED BY <3>1, <3>3
  <2>4. larger \in SUBSET before
    BY <2>2
  <2> HIDE DEF larger, before
  <2>5. IsFiniteSet(larger) /\ Cardinality(larger) <= Cardinality(before)
    BY <2>3, <2>4, FS_Subset
  <2>6. Cardinality(larger) \in Nat /\ Cardinality(before) \in Nat
    BY <2>3, <2>5, FS_CardinalityType
  <2>7. Cardinality(larger) < i
    BY <2>1, <2>3, <2>5, <2>6
  <2> QED BY <2>7 DEF larger
<1>20. ASSUME NEW i \in 1..n, NEW j \in 1..n, displayNames(donut)[i] = displayNames(donut)[j]
       PROVE  donut[i].model = donut[j].model
  <2> DEFINE named == {k \in DOMAIN donut : ~donut[k].isOther}
             provs == {donut[k].model \div 10 : k \in named}
             strip == Cardinality(provs) = 1 /\ provs # {0}
  <2>1. i \in named /\ j \in named
    <3>1. 1..n \subseteq DOMAIN donut
      <4> DEFINE M == Len(donut)
      <4>1. M \in {n, n + 1} /\ DOMAIN donut = 1..M
        BY <1>11
      <4> HIDE DEF M
      <4> QED BY <1>8, <4>1
    <3> QED BY <1>14, <3>1
  <2>2. donut[i].model \in Nat /\ donut[j].model \in Nat
    <3>1. i \in 1..N /\ j \in 1..N
      BY <1>1, <1>8
    <3> QED BY <1>5, <1>14, <3>1 DEF StatsModelRow
  <2>3. /\ displayNames(donut)[i] = IF strip THEN donut[i].model % 10 ELSE donut[i].model
        /\ displayNames(donut)[j] = IF strip THEN donut[j].model % 10 ELSE donut[j].model
    BY <2>1 DEF displayNames
  <2>4. CASE ~strip
    BY <1>20, <2>3, <2>4
  <2>5. CASE strip
    <3>1. IsFiniteSet(provs)
      <4>1. IsFiniteSet(DOMAIN donut)
        <5> DEFINE M == Len(donut)
        <5>1. M \in {n, n + 1} /\ DOMAIN donut = 1..M
          BY <1>11
        <5> HIDE DEF M
        <5>2. M \in Int
          BY <1>8, <5>1
        <5> QED BY <5>1, <5>2, FS_Interval
      <4>2. IsFiniteSet(named)
        BY <4>1, FS_Subset
      <4> HIDE DEF named
      <4> DEFINE g == [k \in named |-> donut[k].model \div 10]
      <4>3. g \in Surjection(named, provs)
        BY DEF Surjection
      <4> HIDE DEF g, provs
      <4> QED BY <4>2, <4>3, FS_Surjection
    <3>2. donut[i].model \div 10 \in provs /\ donut[j].model \div 10 \in provs
      BY <2>1
    <3>3. \E x : provs = {x}
      <4> HIDE DEF provs
      <4> QED BY <2>5, <3>1, FS_Singleton DEF strip
    <3>4. donut[i].model \div 10 = donut[j].model \div 10
      <4> HIDE DEF provs
      <4> QED BY <3>2, <3>3
    <3>5. donut[i].model % 10 = donut[j].model % 10
      <4> HIDE DEF provs
      <4> QED BY <1>20, <2>3, <2>5
    <3> QED BY <2>2, <3>4, <3>5
  <2> QED BY <2>4, <2>5
<1>21. sumOf(models, LAMBDA m : asNumber(m.spend)) = total(col)
  BY <1>1 DEF sumOf, col, N
<1> QED
  <2>1. \A i \in DOMAIN donut : ~donut[i].isOther =>
          Cardinality({m \in DOMAIN models : asNumber(models[m].spend) > donut[i].spend}) < i
    BY <1>1, <1>18, <1>19
  <2>2. \A i, j \in DOMAIN donut :
          ~donut[i].isOther /\ ~donut[j].isOther /\ displayNames(donut)[i] = displayNames(donut)[j]
            => donut[i].model = donut[j].model
    BY <1>18, <1>20
  <2>3. DonutAddsUp(donut, models)
    BY <1>16, <1>17, <1>21, <2>1, <2>2 DEF DonutAddsUp
  <2> QED BY <2>3 DEF donut

(* The bars of the daily charts add up, for any series. *)
LEMMA BarsAreSound ==
  ASSUME NEW series \in Seq(StatsSeriesPoint), NEW metric
  PROVE  BarsAddUp(series, metric)
<1> DEFINE bars == requestBars(series, metric)
           area == spendArea(series)
           req(i) == asNumber(series[i].requests)
           lost(i) == asNumber(series[i].failed)
           failed(i) == Min({req(i), lost(i)})
           point(i) == seriesToRecharts(series)[i]
<1>1. ASSUME NEW i \in DOMAIN series PROVE req(i) \in Nat /\ lost(i) \in Nat
  <2>1. series[i] \in StatsSeriesPoint
    BY ElementOfSeq, LenProperties
  <2> QED BY <2>1 DEF StatsSeriesPoint, asNumber, Figure, Missing
<1>2. ASSUME NEW i \in DOMAIN series
      PROVE  /\ point(i).failed = failed(i)
             /\ point(i).success = Max({0, req(i) - failed(i)})
  BY DEF seriesToRecharts
<1> HIDE DEF req, lost
<1>3. ASSUME NEW i \in DOMAIN series
      PROVE  /\ failed(i) \in Int /\ failed(i) <= req(i)
             /\ Max({0, req(i) - failed(i)}) + failed(i) = req(i)
  <2>1. req(i) \in Int /\ lost(i) \in Int /\ req(i) >= 0
    BY <1>1
  <2>2. failed(i) \in {req(i), lost(i)} /\ failed(i) <= req(i)
    BY <2>1, MinOfTwo
  <2> HIDE DEF failed
  <2>3. 0 \in Int /\ req(i) - failed(i) \in Int
    BY <2>1, <2>2
  <2> DEFINE m == Max({0, req(i) - failed(i)})
  <2>4. m \in {0, req(i) - failed(i)} /\ m >= 0 /\ m >= req(i) - failed(i)
    BY <2>3, MaxOfTwo
  <2> HIDE DEF m
  <2>5. m + failed(i) = req(i)
    BY <2>1, <2>2, <2>4
  <2> QED BY <2>1, <2>2, <2>5 DEF m
<1>4. seriesHasActivity(series) <=> \E i \in DOMAIN series : req(i) > 0
  BY DEF seriesHasActivity, req
<1> HIDE DEF point, failed
<1>5. CASE seriesHasActivity(series)
  <2>1. /\ bars = [i \in DOMAIN series |-> dayBars(metric, point(i))]
        /\ area = [i \in DOMAIN series |-> point(i).spend]
    BY <1>5 DEF requestBars, spendArea, point
  <2> HIDE DEF bars, area
  <2>2. PICK d \in DOMAIN series : req(d) > 0
    BY <1>4, <1>5
  <2>3. bars # <<>> /\ area # <<>>
    BY <2>1, <2>2
  <2>4. req(d) # 0
    BY <1>1, <2>2
  <2>5. ASSUME NEW i \in DOMAIN bars
        PROVE  /\ metric = "requests" => bars[i][1] + bars[i][2] = req(i)
               /\ metric = "failed" => bars[i][1] <= req(i)
    <3>1. i \in DOMAIN series /\ bars[i] = dayBars(metric, point(i))
      BY <2>1
    <3>2. CASE metric = "requests"
      <4>1. bars[i] = <<point(i).success, point(i).failed>>
        BY <3>1, <3>2 DEF dayBars
      <4>2. bars[i][1] = Max({0, req(i) - failed(i)}) /\ bars[i][2] = failed(i)
        BY <1>2, <3>1, <4>1
      <4>3. bars[i][1] + bars[i][2] = req(i)
        BY <1>3, <3>1, <4>2
      <4> QED BY <3>2, <4>3
    <3>3. CASE metric = "failed"
      <4>1. bars[i] = <<point(i).failed>>
        BY <3>1, <3>3 DEF dayBars
      <4>2. bars[i][1] = failed(i)
        <5>1. point(i).failed = failed(i)
          BY <1>2, <3>1
        <5>2. bars[i][1] = point(i).failed
          <6> DEFINE x == point(i).failed
          <6>1. bars[i] = <<x>>
            BY <4>1
          <6> HIDE DEF x
          <6>2. bars[i][1] = x
            BY <6>1
          <6> QED BY <6>2 DEF x
        <5> QED BY <5>1, <5>2
      <4>3. bars[i][1] <= req(i)
        BY <1>3, <3>1, <4>2
      <4> QED BY <3>3, <4>3
    <3> QED BY <3>2, <3>3
  <2> QED BY <2>2, <2>3, <2>4, <2>5 DEF BarsAddUp, bars, area, req
<1>6. CASE ~seriesHasActivity(series)
  <2>1. bars = <<>> /\ area = <<>>
    BY <1>6 DEF requestBars, spendArea
  <2>2. \A i \in DOMAIN series : req(i) = 0
    BY <1>1, <1>4, <1>6
  <2>3. DOMAIN bars = {}
    BY <2>1
  <2> HIDE DEF bars, area
  <2> QED BY <2>1, <2>2, <2>3 DEF BarsAddUp, bars, area, req
<1> QED BY <1>5, <1>6

(* A filter shows the rows of the indices kept and no others. *)
LEMMA FilterShows ==
  ASSUME NEW T, NEW rows \in Seq(T), NEW kept \in SUBSET (DOMAIN rows), NEW f,
         f = rowsAt(rows, kept)
  PROVE  f \in Seq(T) /\ Range(f) = {rows[i] : i \in kept}
<1>1. /\ f \in Seq(T)
      /\ \A n \in DOMAIN f : \E i \in kept : f[n] = rows[i]
      /\ \A i \in kept : \E n \in DOMAIN f : f[n] = rows[i]
  BY RowsAtKeeps
<1> QED BY <1>1 DEF Range

(* Each row of a table comes after the one before it. *)
RowsOrdered(f, rows, column, dir) ==
    \A i \in 2..Len(f) : \E a, b \in DOMAIN rows :
       /\ f[i - 1] = rows[a] /\ f[i] = rows[b]
       /\ compareValues(column[a], column[b], dir) <= 0

(* A sorted table shows the same rows, in order. *)
LEMMA SortShows ==
  ASSUME NEW T, NEW rows \in Seq(T), NEW column \in [DOMAIN rows -> Int], NEW dir, NEW f,
         f = sortedBy(rows, column, dir)
  PROVE  Range(f) = Range(rows) /\ RowsOrdered(f, rows, column, dir)
<1>1. f \in Seq(T) /\ SameRows(f, rows) /\ InOrder(f, rows, column, dir)
  BY SortedByKeeps
<1>2. Range(f) = Range(rows)
  BY <1>1 DEF SameRows, Range
<1>3. Len(f) \in Nat /\ DOMAIN f = 1..Len(f)
  BY <1>1, LenProperties
<1>4. ASSUME NEW i \in 2..Len(f)
      PROVE  \E a, b \in DOMAIN rows : /\ f[i - 1] = rows[a] /\ f[i] = rows[b]
                                       /\ compareValues(column[a], column[b], dir) <= 0
  <2>1. i \in DOMAIN f /\ i - 1 \in DOMAIN f /\ i - 1 < i
    BY <1>3
  <2> QED BY <1>1, <2>1 DEF InOrder
<1> QED BY <1>2, <1>4 DEF RowsOrdered

(* The types of the breakdown: its rows are kept by their kind. *)
LEMMA TypesShow ==
  ASSUME NEW rows \in Seq(StatsModelRow), NEW type
  PROVE  /\ applyUsageTypeFilter(rows, type) \in Seq(StatsModelRow)
         /\ Range(applyUsageTypeFilter(rows, type))
              = {m \in Range(rows) : IF type = "all" THEN m.kind # "protocol"
                                     ELSE m.kind \in {"tool", "protocol"} <=> type = "mcp"}
<1> DEFINE keep(m) == IF type = "all" THEN m.kind # "protocol"
                      ELSE m.kind \in {"tool", "protocol"} <=> type = "mcp"
           kept == {i \in DOMAIN rows : keep(rows[i])}
           f == applyUsageTypeFilter(rows, type)
<1>1. f = rowsAt(rows, kept)
  BY DEF applyUsageTypeFilter, filterRows, isMcpProtocolRow, isMcpModelRow
<1>2. kept \in SUBSET (DOMAIN rows)
  OBVIOUS
<1>3. {rows[i] : i \in kept} = {m \in Range(rows) : keep(m)}
  <2> HIDE DEF keep
  <2> QED BY DEF Range
<1> HIDE DEF f, kept, keep
<1>4. f \in Seq(StatsModelRow) /\ Range(f) = {rows[i] : i \in kept}
  BY <1>1, <1>2, FilterShows
<1>5. f \in Seq(StatsModelRow) /\ Range(f) = {m \in Range(rows) : keep(m)}
  BY <1>3, <1>4
<1> QED BY <1>5 DEF f, keep

(* The tables are sorted by numbers. *)
LEMMA ColumnsAreNumbers ==
  /\ \A col \in UsageSortKey : \A m \in StatsModelRow : modelAccessor(col, m) \in Int
  /\ \A col \in LatencySortKey : \A m \in LatencyByModel : latencyAccessor(col, m) \in Int
<1>1. ASSUME NEW col \in UsageSortKey, NEW m \in StatsModelRow PROVE modelAccessor(col, m) \in Int
  BY DEF UsageSortKey, StatsModelRow, modelAccessor, Figure, Missing
<1>2. ASSUME NEW col \in LatencySortKey, NEW m \in LatencyByModel PROVE latencyAccessor(col, m) \in Int
  <2>1. /\ m.model \in Nat /\ m.requests \in Nat /\ m.failed \in Nat
        /\ m.p50 \in Figure /\ m.p95 \in Figure
    BY DEF LatencyByModel
  <2>2. CASE col = "err"
    <3>1. latencyAccessor(col, m)
            = IF m.requests > 0 THEN (m.failed * 1000) \div m.requests ELSE Missing
      BY <2>2 DEF latencyAccessor
    <3>2. m.failed * 1000 \in Int
      BY <2>1
    <3>3. m.requests > 0 => (m.failed * 1000) \div m.requests \in Int
      BY <2>1, <3>2
    <3> QED BY <3>1, <3>3 DEF Missing
  <2>3. CASE col # "err"
    BY <2>1, <2>3 DEF LatencySortKey, latencyAccessor, Figure, Missing
  <2> QED BY <2>2, <2>3
<1> QED BY <1>1, <1>2

(* A budget that is exceeded is red and has no projection, on any day of   *)
(* any month.                                                              *)
LEMMA BudgetIsSound ==
  ASSUME NEW b \in StatsBudget, budgetState(b) = "over",
         NEW day \in Nat, day >= 1, NEW dim \in Nat
  PROVE  /\ budgetFillClass(b.current, b.max) = "destructive"
         /\ ~projectionShown(b.current, b.max, TRUE, day, dim)
<1> DEFINE c == b.current
           m == b.max
<1>1. c \in Nat /\ m \in Nat /\ c > m
  BY DEF StatsBudget, budgetState, asNumber, Figure, Missing
<1> HIDE DEF c, m
<1>2. budgetFillClass(c, m) = "destructive"
  BY <1>1 DEF budgetFillClass
<1>3. c * day \in Int /\ m * day \in Int /\ c * dim \in Int /\ c * day >= m * day
  <2>1. c * day \in Int /\ m * day \in Int /\ c * dim \in Int
    BY <1>1
  <2>2. (c - m) * day >= 0
    BY <1>1
  <2>3. (c - m) * day = c * day - m * day
    BY <1>1
  <2> QED BY <2>1, <2>2, <2>3
<1>4. ~projectionShown(c, m, TRUE, day, dim)
  <2> DEFINE cd == c * day
             md == m * day
             ce == c * dim
             far == Min({ce, md})
             near == Min({cd, md})
  <2>1. cd \in Int /\ md \in Int /\ ce \in Int /\ cd >= md
    BY <1>3
  <2> HIDE DEF cd, md, ce
  <2>2. far \in {ce, md} /\ far <= md
    BY <2>1, MinOfTwo
  <2>3. near \in {cd, md}
    BY <2>1, MinOfTwo
  <2>4. ~(far > near)
    <3> HIDE DEF far, near
    <3> QED BY <2>1, <2>2, <2>3
  <2> QED BY <2>4 DEF projectionShown, cd, md, ce
<1> QED BY <1>2, <1>4 DEF c, m

(* The rows of the breakdown: filtered by type and by the search, sorted   *)
(* by the column clicked.                                                  *)
LEMMA BreakdownShows ==
  ASSUME PanelInv, NEW models \in Seq(StatsModelRow), models = statsEntry.ans.models
  PROVE  /\ usage.type = "all" /\ ~search =>
              Range(usageRows) = {m \in Range(models) : m.kind # "protocol"}
         /\ \A i \in 2..Len(usageRows) :
              compareValues(modelAccessor(panel.models.key, usageRows[i - 1]),
                            modelAccessor(panel.models.key, usageRows[i]), panel.models.dir) <= 0
<1> DEFINE typed == applyUsageTypeFilter(models, usage.type)
           kept == {i \in DOMAIN typed : ~search \/ typed[i].hit}
           found == rowsAt(typed, kept)
           key == panel.models.key
           column == [i \in DOMAIN found |-> modelAccessor(key, found[i])]
           shown == usageRows
<1>1. shown = sortedBy(found, column, panel.models.dir)
  BY DEF usageRows, sortRows, filterRows
<1>2. key \in UsageSortKey
  BY DEF PanelInv
<1>3. typed \in Seq(StatsModelRow)
  BY TypesShow
<1>4. usage.type = "all" => Range(typed) = {m \in Range(models) : m.kind # "protocol"}
  BY TypesShow
<1> HIDE DEF typed, key
<1>5. kept \in SUBSET (DOMAIN typed)
  OBVIOUS
<1>6. ~search => {typed[i] : i \in kept} = Range(typed)
  BY DEF Range
<1> HIDE DEF kept
<1>7. found \in Seq(StatsModelRow) /\ Range(found) = {typed[i] : i \in kept}
  BY <1>3, <1>5, FilterShows
<1> HIDE DEF found
<1>8. column \in [DOMAIN found -> Int]
  <2>1. \A i \in DOMAIN found : found[i] \in StatsModelRow
    BY <1>7, ElementOfSeq, LenProperties
  <2> QED BY <1>2, <2>1, ColumnsAreNumbers
<1>9. \A i \in DOMAIN found : column[i] = modelAccessor(key, found[i])
  OBVIOUS
<1> HIDE DEF column, shown
<1> DEFINE dir == panel.models.dir
<1> HIDE DEF dir
<1>10. shown = sortedBy(found, column, dir)
  BY <1>1 DEF dir
<1>11. Range(shown) = Range(found) /\ RowsOrdered(shown, found, column, dir)
  BY <1>7, <1>8, <1>10, SortShows
<1>12. ASSUME NEW i \in 2..Len(shown)
       PROVE  compareValues(modelAccessor(key, shown[i - 1]),
                            modelAccessor(key, shown[i]), dir) <= 0
  <2>1. PICK a \in DOMAIN found, b \in DOMAIN found :
          /\ shown[i - 1] = found[a] /\ shown[i] = found[b]
          /\ compareValues(column[a], column[b], dir) <= 0
    BY <1>11 DEF RowsOrdered
  <2>2. column[a] = modelAccessor(key, shown[i - 1]) /\ column[b] = modelAccessor(key, shown[i])
    BY <1>9, <2>1
  <2> QED BY <2>1, <2>2
<1>13. usage.type = "all" /\ ~search => Range(shown) = {m \in Range(models) : m.kind # "protocol"}
  BY <1>4, <1>6, <1>7, <1>11
<1> QED BY <1>12, <1>13 DEF shown, key, dir

(* The rows of the latency table, sorted by the column clicked. *)
LEMMA LatencyShows ==
  ASSUME PanelInv, NEW rows \in Seq(LatencyByModel), rows = latencyEntry.ans.rows
  PROVE  \A i \in 2..Len(latencyRows) :
           compareValues(latencyAccessor(panel.latency.key, latencyRows[i - 1]),
                         latencyAccessor(panel.latency.key, latencyRows[i]), panel.latency.dir) <= 0
<1> DEFINE key == panel.latency.key
           column == [i \in DOMAIN rows |-> latencyAccessor(key, rows[i])]
           shown == latencyRows
<1>1. shown = sortedBy(rows, column, panel.latency.dir)
  BY DEF latencyRows, sortRows
<1>2. key \in LatencySortKey
  BY DEF PanelInv
<1> HIDE DEF key
<1>3. column \in [DOMAIN rows -> Int]
  <2>1. \A i \in DOMAIN rows : rows[i] \in LatencyByModel
    BY ElementOfSeq, LenProperties
  <2> QED BY <1>2, <2>1, ColumnsAreNumbers
<1>4. \A i \in DOMAIN rows : column[i] = latencyAccessor(key, rows[i])
  OBVIOUS
<1> HIDE DEF column, shown
<1> DEFINE dir == panel.latency.dir
<1> HIDE DEF dir
<1>5. RowsOrdered(shown, rows, column, dir)
  <2>1. shown = sortedBy(rows, column, dir)
    BY <1>1 DEF dir
  <2> QED BY <1>3, <2>1, SortShows
<1>6. ASSUME NEW i \in 2..Len(shown)
      PROVE  compareValues(latencyAccessor(key, shown[i - 1]),
                           latencyAccessor(key, shown[i]), dir) <= 0
  <2>1. PICK a \in DOMAIN rows, b \in DOMAIN rows :
          /\ shown[i - 1] = rows[a] /\ shown[i] = rows[b]
          /\ compareValues(column[a], column[b], dir) <= 0
    BY <1>5 DEF RowsOrdered
  <2>2. column[a] = latencyAccessor(key, shown[i - 1]) /\ column[b] = latencyAccessor(key, shown[i])
    BY <1>4, <2>1
  <2> QED BY <2>1, <2>2
<1> QED BY <1>6 DEF shown, key, dir

LEMMA InvFiguresAddUp == Inv => FiguresAddUp
<1> SUFFICES ASSUME RangeInv, CacheInv, PanelInv, StatsBody PROVE FiguresAddUp
  BY DEF Inv, FiguresAddUp
<1> DEFINE ans == statsEntry.ans
           month == {d \in Days : MonthStart(d) = MonthStart(today)}
           day == today - MonthStart(today) + 1
           dim == Cardinality(month)
<1>1. ans \in Answers("stats")
  <2>1. Query("stats", range) \in Queries /\ Query("stats", range).name = "stats"
    BY DEF Query, Queries, Names, Ranged, RangeInv
  <2>2. statsEntry.st = "data"
    BY <2>1, EntryStates DEF StatsBody, Shown, statsEntry
  <2> QED BY <2>1, <2>2, DataAnswersItsQuery DEF statsEntry
<1>2. /\ ans.models \in Seq(StatsModelRow) /\ ans.series \in Seq(StatsSeriesPoint)
      /\ ans.budget \in StatsBudget
  BY <1>1, AnswersAssumption
<1>3. DonutAddsUp(slices, ans.models)
  BY <1>2, DonutIsSound DEF slices
<1>4. BarsAddUp(ans.series, usage.metric)
  BY <1>2, BarsAreSound
<1>5. Range(applyUsageTypeFilter(ans.models, "model"))
        \cup Range(applyUsageTypeFilter(ans.models, "mcp")) = Range(ans.models)
  <2> DEFINE models == ans.models
             f == Range(applyUsageTypeFilter(models, "model"))
             g == Range(applyUsageTypeFilter(models, "mcp"))
  <2>1. models \in Seq(StatsModelRow)
    BY <1>2
  <2> HIDE DEF models
  <2>2. f = {m \in Range(models) : m.kind \notin {"tool", "protocol"}}
    BY <2>1, TypesShow
  <2>3. g = {m \in Range(models) : m.kind \in {"tool", "protocol"}}
    BY <2>1, TypesShow
  <2> HIDE DEF f, g
  <2>4. f \cup g = Range(models)
    BY <2>2, <2>3
  <2> QED BY <2>4 DEF f, g, models
<1>6. /\ usage.type = "all" /\ ~search =>
           Range(usageRows) = {m \in Range(ans.models) : m.kind # "protocol"}
      /\ \A i \in 2..Len(usageRows) :
           compareValues(modelAccessor(panel.models.key, usageRows[i - 1]),
                         modelAccessor(panel.models.key, usageRows[i]), panel.models.dir) <= 0
  BY <1>2, BreakdownShows
<1>7. ASSUME LatencyPanel = "ready"
      PROVE  \A i \in 2..Len(latencyRows) :
               compareValues(latencyAccessor(panel.latency.key, latencyRows[i - 1]),
                             latencyAccessor(panel.latency.key, latencyRows[i]), panel.latency.dir) <= 0
  <2>1. Query("latency", range) \in Queries /\ Query("latency", range).name = "latency"
    BY DEF Query, Queries, Names, Ranged, RangeInv
  <2>2. latencyEntry.st = "data"
    BY <1>7, <2>1, EntryStates DEF LatencyPanel, latencyEntry
  <2>3. latencyEntry.ans \in Answers("latency")
    BY <2>1, <2>2, DataAnswersItsQuery DEF latencyEntry
  <2>4. latencyEntry.ans.rows \in Seq(LatencyByModel)
    BY <2>3, AnswersAssumption
  <2> QED BY <2>4, LatencyShows
<1>8. day \in Nat /\ day >= 1 /\ dim \in Nat
  <2>1. today \in Todays /\ today \in Days
    BY PagesAssumption DEF RangeInv
  <2>2. today \in Int /\ MonthStart(today) \in Int /\ MonthStart(today) <= today
    BY <2>1, PagesAssumption
  <2>3. IsFiniteSet(month)
    BY <2>1, PagesAssumption
  <2> HIDE DEF month
  <2> QED BY <2>2, <2>3, FS_CardinalityType
<1>9. budgetState(ans.budget) = "over" =>
        /\ budgetFillClass(ans.budget.current, ans.budget.max) = "destructive"
        /\ ~projectionShown(ans.budget.current, ans.budget.max, TRUE, day, dim)
  <2> HIDE DEF day, dim
  <2> QED BY <1>2, <1>8, BudgetIsSound
<1> QED
  BY <1>3, <1>4, <1>5, <1>6, <1>7, <1>9 DEF FiguresAddUp

----------------------------------------------------------------------------
LEMMA InvHolds == Spec => []Inv
BY InitEstablishes, StepKeeps, PTL DEF Spec

(* Whatever is clicked on the presets and the calendar, and whatever day   *)
(* it becomes, Stats submits an ordered range, a preset's within the cap.  *)
THEOREM RangeSoundCorrect == Spec => []RangeSound
<1>1. Inv => RangeSound
  BY DEF Inv, RangeInv
<1> QED BY <1>1, InvHolds, PTL

(* Whatever order the answers to the queries of the hooks come in, fail or *)
(* are dropped, a page claims only what was answered to its own question.  *)
THEOREM PanelsTellTruthCorrect == Spec => []PanelsTellTruth
BY InvHolds, InvTellsTruth, PTL

(* Whatever activity the API answers, rows of one id and shared names      *)
(* included, and however the panel is sorted and toggled: TOP API KEYS     *)
(* lists every key but the namesakes of an active one, adds none that the  *)
(* activity has, shows the figures of the activity, in order, and never    *)
(* says "no usage" of activity.                                            *)
THEOREM KeysListedOnceCorrect == Spec => []KeysListedOnce
BY InvHolds, InvListsKeysOnce, PTL

(* Whatever figures the API answers, missing ones included, and however    *)
(* the panels are toggled, searched and sorted: the slices of the donut    *)
(* are worth what the models are worth, the bars of a day are its          *)
(* requests, the breakdown loses no row but by the filters, the tables are *)
(* in the order chosen, and a budget that is exceeded is red without a     *)
(* projection.                                                             *)
THEOREM FiguresAddUpCorrect == Spec => []FiguresAddUp
BY InvHolds, InvFiguresAddUp, PTL
=============================================================================
