---------------------------- MODULE MerchantTools ----------------------------
(* The two tools of the MCP server (app/tools/server.py) and the nodes that  *)
(* call them (app/agent/nodes/metric_query.py, attribution.py): a question   *)
(* is turned into windows and dimensions, and answered from the orders and   *)
(* the traffic of the database, which does not change.  Dates are numbers,   *)
(* rates are tenths of a percent; wording is left out.  No key of the tables *)
(* says so, but every product sold is in the catalogue once, as the data's   *)
(* generator makes it: the joins drop or double an order of any other.       *)
EXTENDS Integers, FiniteSets, Sequences, FiniteSetsExt

CONSTANTS
  Row,          \* the kinds of orders: records of date, hour, streamer, source, product, gmv, refund, reason
  Catalogue,    \* dim_product: sub_category and price_band of every product
  Source,       \* traffic_source
  Month,        \* a sequence of the windows of the months
  HalfMonth,    \* the days of a first half (15)
  Anomalous,    \* the days that no baseline counts (_ANOMALY_DAYS)
  Lookback,     \* the days a refund trend looks back (13)
  TopN,         \* the products a drill-down names (3)
  MaxSame, MaxOrders,  \* bounds: orders of a kind, orders of the ledger
  Traffic,      \* the tables fact_traffic may be: sets of records of date, source, visitors
  AskedDims,    \* the sets of dimensions a question names
  None, Failed  \* NULL or no value, and the result of a tool that raised

VARIABLES
  orders,       \* fact_order: how many orders there are of each kind
  traffic,      \* fact_traffic
  answer        \* what the node's result holds, Failed when the tool raised

tvars == <<orders, traffic, answer>>

Dimension == {"streamer", "traffic_source", "sub_category", "price_band", "hour_bucket"}

ToolsAssumption ==
  /\ AskedDims \subseteq SUBSET Dimension
  /\ \A r \in Row : r.product \in DOMAIN Catalogue /\ r.source \in Source /\ r.hour \in 0..23
  /\ TopN \in Nat \ {0} /\ Lookback \in Nat

-----------------------------------------------------------------------------
(* Aggregates                                                               *)

Sold == {r \in Row : orders[r] > 0}
Within(w) == {r \in Sold : w.start <= r.date /\ r.date <= w.end}
Count(S) == MapThenSumSet(LAMBDA r : orders[r], S)
Gmv(S) == MapThenSumSet(LAMBDA r : orders[r] * r.gmv, S)
Refunds(S) == {r \in S : r.refund}
Dates(S) == {r.date : r \in S}
Tenths(n, d) == IF d = 0 THEN 0 ELSE (2000 * n + d) \div (2 * d)

TrafficIn(w) == {t \in traffic : w.start <= t.date /\ t.date <= w.end}
Visitors(T) == MapThenSumSet(LAMBDA t : t.visitors, T)

\* NULL, as None, when no day is left to average over.
Average(total, days) == IF days = {} THEN None ELSE total \div Cardinality(days)
OrdinaryOrders == {r \in Sold : r.date \notin Anomalous}
BaselineGmv == Average(Gmv(OrdinaryOrders), Dates(OrdinaryOrders))

OneDay(d) == [start |-> d, end |-> d]
\* Raises when there is no order at all.
MaxDay == Max(Dates(Sold))

-----------------------------------------------------------------------------
(* query_metric                                                             *)

Bucket(hour) == CASE hour >= 6 /\ hour < 12 -> "early"
                  [] hour >= 12 /\ hour < 18 -> "middle"
                  [] hour >= 18 -> "late"
                  [] OTHER -> "night"

Value(r, dim) == CASE dim = "streamer" -> r.streamer
                   [] dim = "traffic_source" -> r.source
                   [] dim = "sub_category" -> Catalogue[r.product].sub
                   [] dim = "price_band" -> Catalogue[r.product].band
                   [] dim = "hour_bucket" -> Bucket(r.hour)

KeyOf(r, dims) == [d \in dims |-> Value(r, d)]

\* A group's uv and conversion are given for the traffic sources only.
Group(k, S, w) ==
  LET uv == IF DOMAIN k = {"traffic_source"}
            THEN Visitors({t \in TrafficIn(w) : t.source = k["traffic_source"]}) ELSE None
  IN [key |-> k, orders |-> Count(S), gmv |-> Gmv(S),
      refund |-> Tenths(Count(Refunds(S)), Count(S)), uv |-> uv,
      conversion |-> IF uv = None THEN None ELSE Tenths(Count(S), uv)]

\* An hour bucket without orders is a group of zeros; the night is not.
Buckets(dims) ==
  IF dims = {"hour_bucket"} THEN {[d \in dims |-> b] : b \in {"early", "middle", "late"}} ELSE {}

\* Mutant: the empty buckets are added whether the day has orders in them or not.
GroupedPadded(w, dims) ==
  LET keys == {KeyOf(r, dims) : r \in Within(w)}
  IN {Group(k, {r \in Within(w) : KeyOf(r, dims) = k}, w) : k \in keys}
       \union {Group(k, {}, w) : k \in Buckets(dims)}

Grouped(w, dims) ==
  LET keys == {KeyOf(r, dims) : r \in Within(w)}
  IN {Group(k, {r \in Within(w) : KeyOf(r, dims) = k}, w) : k \in keys}
       \union {Group(k, {}, w) : k \in Buckets(dims) \ keys}

\* With one date missing, both are those of the last day with orders.
Defaulted(w) == w.start = None \/ w.end = None
Window(w) == IF Defaulted(w) THEN OneDay(MaxDay) ELSE w

\* metric only chooses the headline.
QueryMetric(asked, dims) ==
  IF Defaulted(asked) /\ Sold = {} THEN Failed
  ELSE LET w == Window(asked)
           S == Within(w)
           uv == Visitors(TrafficIn(w))
       IN [window |-> w, orders |-> Count(S), gmv |-> Gmv(S), net |-> Gmv(S \ Refunds(S)),
           uv |-> uv, conversion |-> Tenths(Count(S), uv),
           refund |-> Tenths(Count(Refunds(S)), Count(S)), days |-> Cardinality(Dates(S)),
           baseline |-> IF BaselineGmv = None THEN 0 ELSE BaselineGmv,
           groups |-> IF dims = {} THEN None ELSE Grouped(w, dims)]

-----------------------------------------------------------------------------
(* attribute_anomaly                                                        *)

DayMetrics(w) ==
  LET uv == Visitors(TrafficIn(w))
  IN [orders |-> Count(Within(w)), gmv |-> Gmv(Within(w)), uv |-> uv,
      conversion |-> Tenths(Count(Within(w)), uv)]

OfProduct(S, p) == {r \in S : r.product = p}

\* The sequences of the TopN first of P by their weight; ties leave them open.
Tops(P, weight) ==
  LET n == Min({TopN, Cardinality(P)})
  IN {s \in [1..n -> P] :
        /\ \A i, j \in 1..n : i # j => s[i] # s[j]
        /\ \A i, j \in 1..n : i < j => weight[s[i]] >= weight[s[j]]
        /\ \A p \in P \ {s[i] : i \in 1..n} : \A i \in 1..n : weight[s[i]] >= weight[p]}

\* How a product's share of the window compares with its usual one, up to the
\* factor all products share: a product never sold before counts as half an order.
Jump(p, w) ==
  LET usual == Count(OfProduct(OrdinaryOrders, p))
  IN IF usual = 0 THEN 2000 * Count(OfProduct(Within(w), p))
     ELSE (1000 * Count(OfProduct(Within(w), p))) \div usual

\* Conversion below 0.6 of the usual 4.2 %.
Crashed(m) == 10000 * m.orders < 252 * m.uv \/ m.uv = 0

\* The first suspect, the baseline and the buyers' share are NULL or missing
\* without orders of the window and of ordinary days.
GmvDrop(w) ==
  IF Within(w) = {} \/ OrdinaryOrders = {} THEN {Failed}
  ELSE {[split |-> DayMetrics(w), trend |-> <<>>, drill |-> top, reason |-> None,
         cause |-> IF Crashed(DayMetrics(w)) THEN top[1] ELSE None] :
          top \in Tops({r.product : r \in Within(w)},
                       [p \in {r.product : r \in Within(w)} |-> Jump(p, w)])}

OrdinaryTraffic == {t \in traffic : t.date \notin Anomalous}
OrdinaryDays == {t.date : t \in OrdinaryTraffic}
\* More than 1.8 times the usual visitors, of which there are some.
Surged(uv) == /\ Visitors(OrdinaryTraffic) > 0
              /\ 10 * uv * Cardinality(OrdinaryDays) > 18 * Visitors(OrdinaryTraffic)

\* The conversion of each source of the day, and the paid one, or the worst.
BySource(w) ==
  {[source |-> t.source, visitors |-> t.visitors,
    conversion |-> Tenths(Count({r \in Within(w) : r.source = t.source}), t.visitors)] :
     t \in TrafficIn(w)}

UvSurge(w) ==
  LET uv == Visitors(TrafficIn(w))
      by == BySource(w)
      paid == {r \in by : r.source = "paid"}
      worst == {r \in by : \A q \in by : r.conversion <= q.conversion}
  IN IF OrdinaryTraffic = {} THEN {Failed}
     ELSE {[split |-> DayMetrics(w), trend |-> <<>>, drill |-> by, reason |-> None, cause |-> c] :
             c \in IF ~ Surged(uv) THEN {None}
                   ELSE {r.source : r \in IF paid # {} THEN paid ELSE worst}}

Trend(w) ==
  LET days == Dates(Within(w))
      Of(d) == Within(OneDay(d))
  IN [d \in days |-> [orders |-> Count(Of(d)), refund |-> Tenths(Count(Refunds(Of(d))), Count(Of(d))),
                      gross |-> Gmv(Of(d)), net |-> Gmv(Of(d) \ Refunds(Of(d)))]]

\* A peak below 15 % has no cause; the reason is that of all the product's refunds.
RefundSurge(w) ==
  LET trend == Trend(w)
      refunds == Refunds(Within(w))
      calm == \A d \in DOMAIN trend : trend[d].refund < 150
      refundsOf == [p \in {r.product : r \in refunds} |-> Count(OfProduct(refunds, p))]
      Told(p) == OfProduct(Refunds(Sold), p)
      Times(p, x) == Count({r \in Told(p) : r.reason = x})
      Reasons(p) == {r.reason : r \in {q \in Told(p) :
                       \A o \in Told(p) : Times(p, q.reason) >= Times(p, o.reason)}}
  IN UNION {{[split |-> None, trend |-> trend, drill |-> top,
              cause |-> IF calm THEN None ELSE top[1], reason |-> x] :
               x \in IF calm THEN {None} ELSE Reasons(top[1])} :
              top \in Tops(DOMAIN refundsOf, refundsOf)}

\* A refund surge is looked for over the days before the date too.
AttributionWindow(type, date) ==
  IF type = "refund_surge" THEN [start |-> date - Lookback, end |-> date] ELSE OneDay(date)

Branch(type, w) == CASE type = "gmv_drop" -> GmvDrop(w)
                     [] type = "uv_surge" -> UvSurge(w)
                     [] type = "refund_surge" -> RefundSurge(w)

AttributeAnomaly(type, date) ==
  IF date = None /\ Sold = {} THEN {Failed}
  ELSE LET w == AttributionWindow(type, IF date = None THEN MaxDay ELSE date)
       IN {IF a = Failed THEN a ELSE [type |-> type, window |-> w, found |-> a] :
             a \in Branch(type, w)}

-----------------------------------------------------------------------------
(* The nodes                                                                *)

\* The halves of a month, or the months a question names when it names several.
Periods(months, halves) ==
  IF halves /\ months # <<>>
  THEN LET m == Month[months[1]]
       IN <<[start |-> m.start, end |-> m.start + HalfMonth - 1],
            [start |-> m.start + HalfMonth, end |-> m.end]>>
  ELSE IF Len(months) >= 2 THEN [i \in DOMAIN months |-> Month[months[i]]] ELSE <<>>

\* Each period is a call of its own, without dimensions.
ComparePeriods(months, halves) ==
  LET periods == Periods(months, halves)
  IN /\ answer = None
     /\ periods # <<>>
     /\ answer' = [task |-> "periods",
                   window |-> [start |-> periods[1].start, end |-> periods[Len(periods)].end],
                   halves |-> halves, months |-> months,
                   parts |-> [i \in DOMAIN periods |-> QueryMetric(periods[i], {})]]
     /\ UNCHANGED <<orders, traffic>>

\* One call with the router's window and the dimensions the question names.
MetricNode(window, dims) ==
  /\ answer = None
  /\ answer' = [task |-> "metric", dims |-> dims, asked |-> window, found |-> QueryMetric(window, dims)]
  /\ UNCHANGED <<orders, traffic>>

\* What a question's words, by their topics, ask about; refunds come first.
AnomalyType(words) ==
  IF "refunds" \in words THEN "refund_surge"
  ELSE IF {"visitors", "rise"} \subseteq words THEN "uv_surge"
  ELSE IF {"sales", "fall"} \subseteq words THEN "gmv_drop" ELSE None

\* The date is the window's end, else its start; an unknown anomaly is no call.
AttributionNode(words, window) ==
  LET type == AnomalyType(words) IN
  /\ answer = None
  /\ IF type = None
     THEN answer' = [task |-> "unknown"]
     ELSE LET date == IF window.end # None THEN window.end ELSE window.start
          IN \E a \in AttributeAnomaly(type, date) :
               answer' = [task |-> "attribution", asked |-> type, date |-> date, found |-> a]
  /\ UNCHANGED <<orders, traffic>>

-----------------------------------------------------------------------------

Days == UNION {Month[i].start..Month[i].end : i \in DOMAIN Month}
AskedWindows == [start : Days \union {None}, end : Days \union {None}]
AskedWords == {{"refunds", "rise"}, {"visitors", "rise"}, {"visitors", "sales", "fall"}, {"visitors"}}
AskedMonths == UNION {[1..n -> DOMAIN Month] : n \in 0..2}

\* Whatever the generated database holds, the answer comes from it.
ToolsInit ==
  /\ orders \in {f \in [Row -> 0..MaxSame] : MapThenSumSet(LAMBDA r : f[r], Row) <= MaxOrders}
  /\ traffic \in Traffic
  /\ answer = None

ToolsNext ==
  \/ \E months \in AskedMonths, halves \in BOOLEAN : ComparePeriods(months, halves)
  \/ \E w \in AskedWindows, dims \in AskedDims : MetricNode(w, dims)
  \/ \E w \in AskedWindows, words \in AskedWords : AttributionNode(words, w)

ToolsSpec == ToolsInit /\ [][ToolsNext]_tvars

-----------------------------------------------------------------------------
(* What an answer says agrees with what the same database says elsewhere    *)

Sum(f) == MapThenSumSet(LAMBDA i : f[i], DOMAIN f)

Told(task) == answer # None /\ answer.task = task
Found(task) == Told(task) /\ answer.found # Failed

\* The groups of a metric are disjoint and make up its total, whatever the dimensions
\* bucket, or join while the catalogue is complete, and no source has visitors the total does not count
\* (_query_metric_grouped).
GroupsAddUp ==
  Found("metric") /\ answer.dims # {} =>
    LET gs == answer.found.groups IN
    /\ \A g, h \in gs : g # h => g.key # h.key
    /\ MapThenSumSet(LAMBDA g : g.orders, gs) = answer.found.orders
    /\ MapThenSumSet(LAMBDA g : g.gmv, gs) = answer.found.gmv
    /\ answer.dims = {"traffic_source"} =>
         MapThenSumSet(LAMBDA g : g.uv, gs) <= answer.found.uv
    /\ answer.dims = {"hour_bucket"} => Cardinality(gs) \in {3, 4}

\* The two halves of a month make up the month: no day is in both or in neither
\* (_parse_periods).
HalvesMakeTheMonth ==
  Told("periods") /\ answer.halves =>
    LET whole == QueryMetric(Month[answer.months[1]], {})
        parts == answer.parts
    IN /\ answer.window = whole.window
       /\ \A x \in {"orders", "gmv", "net", "uv", "days"} : parts[1][x] + parts[2][x] = whole[x]

\* An attribution starts from the numbers query_metric gives for its window
\* (_day_metrics, _attr_refund_surge).
AttributionAgrees ==
  Found("attribution") =>
    LET a == answer.found
        m == QueryMetric(a.window, {})
        trend == a.found.trend
    IN /\ a.type # "refund_surge" =>
            \A x \in {"orders", "gmv", "uv", "conversion"} : a.found.split[x] = m[x]
       /\ a.type = "refund_surge" =>
            /\ Cardinality(DOMAIN trend) = m.days
            /\ Sum([d \in DOMAIN trend |-> trend[d].orders]) = m.orders
            /\ Sum([d \in DOMAIN trend |-> trend[d].gross]) = m.gmv
            /\ Sum([d \in DOMAIN trend |-> trend[d].net]) = m.net

\* A cause is named from the window: a product it sold and whose jump nothing it sold
\* exceeds, a product it took most refunds of, a source that had visitors; and a refund
\* cause comes with a reason (the branches of attribute_anomaly).
CauseIsInTheWindow ==
  Found("attribution") /\ answer.found.found.cause # None =>
    LET a == answer.found
        c == a.found.cause
        in == Within(a.window)
    IN /\ a.type = "gmv_drop" =>
            /\ OfProduct(in, c) # {}
            /\ \A r \in in : Jump(r.product, a.window) <= Jump(c, a.window)
       /\ a.type = "refund_surge" =>
            /\ Refunds(OfProduct(in, c)) # {}
            /\ \A r \in in : Count(Refunds(OfProduct(in, r.product))) <= Count(Refunds(OfProduct(in, c)))
            /\ \E r \in Sold : r.product = c /\ r.refund /\ r.reason = a.found.reason
       /\ a.type = "uv_surge" => Visitors({t \in TrafficIn(a.window) : t.source = c}) > 0

\* A tool raises only for want of data: never for a day of a ledger that has orders on
\* that day and on an ordinary one, and visitors on an ordinary one; a question without
\* dates is then answered for a day that has orders (_max_day).
DataIsEnough ==
  /\ Told("metric") /\ Sold # {} =>
       /\ answer.found # Failed
       /\ Defaulted(answer.asked) => answer.found.orders > 0
  /\ Told("attribution") /\ OrdinaryOrders # {} /\ OrdinaryTraffic # {} /\ answer.found = Failed =>
       answer.asked = "gmv_drop" /\ answer.date # None /\ Within(OneDay(answer.date)) = {}
=============================================================================
