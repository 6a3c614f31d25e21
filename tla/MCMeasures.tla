------------------------------ MODULE MCMeasures ------------------------------
(***************************************************************************)
(* The indicators, the measures of a run and the limit entries against     *)
(* what is expected of them, over bounded inputs.  MCPipeline extends this *)
(* module, so its run evaluates every assumption here.  A name that begins *)
(* with Allows states what the code lets happen and a reader may not       *)
(* expect.                                                                 *)
(***************************************************************************)
EXTENDS MCAlgorithms, Functions

Entry == INSTANCE LimitEntry
Alpha == INSTANCE AlphaSeries
Meter == INSTANCE Metrics
Known == INSTANCE IndicatorRegistry

-----------------------------------------------------------------------------
(***************************************************************************)
(* Limit entries.  A client posts, prices move, the router is polled.      *)
(***************************************************************************)
LOCAL Order(client, side, limit) ==
  [client |-> client, symbol |-> "btc", side |-> side, qty |-> 1, type |-> "limit",
   reference |-> 100, limit |-> limit, timeout |-> 2]
LOCAL NoOrders == [key \in {} |-> Missing]
LOCAL Ops == {"post", "poll", "wait"}

\* A run of operations, at the prices of their moments: what rests, what was sent,
\* and what was posted.
LOCAL Desk(ops, prices, OrderOf(_)) ==
  FoldLeftDomain(LAMBDA d, k :
      LET price == prices[k]
          done == CASE ops[k] = "post" -> Entry!Submit(d.book, OrderOf(k), d.now, price)
                    [] ops[k] = "poll" -> Entry!Poll(d.book, d.now, [s \in {"btc"} |-> price])
                    [] ops[k] = "wait" -> [book |-> d.book, sent |-> {}]
      IN [book |-> done.book, sent |-> d.sent \union done.sent, now |-> d.now + 1,
          posted |-> d.posted \union (IF ops[k] = "post" THEN {k} ELSE {})],
      [book |-> NoOrders, sent |-> {}, now |-> 0, posted |-> {}], ops)
LOCAL OwnId(k) == Order(k, IF k % 2 = 1 THEN "buy" ELSE "sell", 100)
LOCAL NoId(k) == Order(Missing, "buy", 100 - k)

\* Every order that was posted under its own id rests or was sent, once; what was
\* sent as maker was no worse than its limit, and after a poll nothing is overdue.
ASSUME EveryLimitResolves ==
  \A ops \in [1..4 -> Ops], prices \in [1..4 -> {Missing, 90, 110}] :
    LET d == Desk(ops, prices, OwnId)
    IN /\ {d.book[key].req.client : key \in DOMAIN d.book} \union {o.client : o \in d.sent} = d.posted
       /\ Cardinality(DOMAIN d.book) + Cardinality(d.sent) = Cardinality(d.posted)
       /\ \A o \in d.sent : o.type = "limit" => o.reference = o.limit
       /\ ops[4] = "poll" => \A key \in DOMAIN d.book : 3 - d.book[key].created < 2

\* An order posted without an id is lost when another took its key: the key is made
\* of how many rest and of the moment.
ASSUME AllowsLostLimit ==
  LET first == Entry!Submit(NoOrders, NoId(1), 7, 120)
      second == Entry!Submit(first.book, NoId(2), 7, 120)
      reached == Entry!Poll(second.book, 7, [s \in {"btc"} |-> 99])
      third == Entry!Submit(reached.book, NoId(30), 7, 120)
  IN /\ Cardinality(DOMAIN second.book) = 2 /\ Cardinality(reached.sent) = 1
     /\ Cardinality(DOMAIN third.book) = 1

\* A market order that times out without a price is sent at the price of its posting.
ASSUME AllowsStaleFallback ==
  \E price \in {90, 110} :
    \E o \in Desk(<<"post", "wait", "wait", "poll">>, <<price, price, price, Missing>>, OwnId).sent :
      o.type = "market" /\ o.reference = 100

-----------------------------------------------------------------------------
(***************************************************************************)
(* Indicators over positioning.                                            *)
(***************************************************************************)
LOCAL Levels == {Missing, 0, 1, 3}
LOCAL Tape == [1..4 -> Levels]
LOCAL Cut(series, i) == SubSeq(series, 1, i)

\* What an indicator says of a bar it says whatever the later bars hold.
ASSUME IndicatorsLookBack ==
  \A x \in Tape, y \in {<<0, 1, 3, 0>>, <<3, Missing, 1, 1>>}, i \in 1..3, window \in 1..3 :
    /\ Cut(Alpha!LiqCascade(x, y, window, 2), i) = Alpha!LiqCascade(Cut(x, i), Cut(y, i), window, 2)
    /\ Cut(Alpha!OiDivergence(y, x, 1, -1), i) = Alpha!OiDivergence(Cut(y, i), Cut(x, i), 1, -1)
    /\ Cut(Alpha!FlowImbalance(x, y, window, 20, 1), i)
         = Alpha!FlowImbalance(Cut(x, i), Cut(y, i), window, 20, 1)
    /\ Cut(Alpha!ExtremeActivation(x, 90, 0), i) = Alpha!ExtremeActivation(Cut(x, i), 90, 0)

\* A bar's funding flag is of a settlement that was made by its opening.
ASSUME FundingIsKnownByThen ==
  \A rates \in [1..3 -> {1, 2, 4}], later \in {0, 9} :
    LET times == <<2, 4, 6>>
        flags == Alpha!FundingExtreme(<<1, 2, 3, 5, 7>>, rates, times, 90, 0)
    IN /\ flags[1] = 0
       /\ Cut(Alpha!FundingExtreme(<<1, 2, 3, 5>>, [rates EXCEPT ![3] = later], times, 90, 0), 4) = Cut(flags, 4)

\* The first change of all stands above every one so far: a fall counts as a rise to
\* the extreme.
ASSUME AllowsFirstChangeExtreme ==
  \A first \in 1..3, second \in 1..3 : Alpha!ExtremeActivation(<<first, second>>, 99, 0) = <<0, 1>>

\* Buyers and sellers in each other's places turn the sign of the pressure, and no
\* share of a volume is more than all of it.
ASSUME PressureHasASign ==
  \A x \in Tape, y \in {<<0, 1, 3, 0>>, <<3, Missing, 1, 1>>, <<Missing, 0, 0, 3>>}, threshold \in {0, 3} :
    LET net == Alpha!LiqCascade(x, y, 2, threshold)
        flow == Alpha!FlowImbalance([k \in 1..4 |-> IF x[k] = Missing THEN Missing ELSE Min({x[k], 2})],
                                    <<3, 2, 3, 0>>, 2, 0, 1)
    IN /\ \A k \in 1..4 : net[k] = -Alpha!LiqCascade(y, x, 2, threshold)[k]
       /\ \A k \in 1..4 : flow[k] \in -100..100

-----------------------------------------------------------------------------
(***************************************************************************)
(* Measures.                                                               *)
(***************************************************************************)
LOCAL Curves == UNION {[1..n -> {0, 60, 100, 140}] : n \in 0..4}
LOCAL Records == UNION {[1..n -> {-20, 0, 30}] : n \in 0..4}

\* One pass over the curve, as the code makes it, finds the deepest fall and the
\* longest stretch under water.
LOCAL Pass(equity) ==
  FoldLeft(LAMBDA at, e :
      LET peak == Max({at.peak, e})
          under == peak > 0 /\ e < peak
          cur == IF under THEN at.cur + 1 ELSE 0
      IN [peak |-> peak, cur |-> cur, bars |-> Max({at.bars, cur}),
          depth |-> IF peak > 0 THEN Max({at.depth, (100 * (peak - e)) \div peak}) ELSE at.depth],
      [peak |-> 0, cur |-> 0, bars |-> 0, depth |-> 0], equity)
ASSUME DrawdownInOnePass ==
  \A equity \in Curves :
    LET found == Meter!MaxDrawdown(equity)
    IN found.depth = Pass(equity).depth /\ found.bars = Pass(equity).bars

\* A trade that gains never lowers a record's share of wins, its profit factor or its
\* mean; a record is the same in any order.
ASSUME WinsHelp ==
  \A pnls \in Records :
    LET more == Append(pnls, 30)
        before == Meter!ProfitFactor(pnls)
        after == Meter!ProfitFactor(more)
    IN /\ Meter!WinRate(more) >= Meter!WinRate(pnls)
       /\ Meter!Expectancy(more) >= Meter!Expectancy(pnls)
       /\ \A pf \in before : pf > 0 => \A new \in after : new >= pf
       /\ before = {} => after = {}
       /\ Meter!ComputeMetrics(<<100>>, Reverse(pnls), 0, 50) = Meter!ComputeMetrics(<<100>>, pnls, 0, 50)

LOCAL Measures == [sharpe : {-100, 0, 150, 400}, pf : {{}, {0}, {100}, {250}}, maxDd : {0, 25, 26, 60},
                  winRate : {0, 55}, squashed : {0, 50}, trades : {29, 30}]

\* The score is a percentage, is never lowered by a better measure, and the filters
\* let through nothing it would rank below the same run with more losses.
ASSUME ScoreIsMonotone ==
  \A m \in Measures :
    /\ Meter!CompositeScore(m) \in 0..100
    /\ Meter!CompositeScore([m EXCEPT !.sharpe = 400]) >= Meter!CompositeScore(m)
    /\ Meter!CompositeScore([m EXCEPT !.pf = {}]) >= Meter!CompositeScore(m)
    /\ Meter!CompositeScore([m EXCEPT !.maxDd = 0]) >= Meter!CompositeScore(m)
    /\ Meter!PassesHardFilters(m) => Meter!PassesHardFilters([m EXCEPT !.pf = {}, !.maxDd = 0])

\* A run that never traded outscores one that made a profit through a drawdown.
ASSUME AllowsIdleOutscoring ==
  LET idle == Meter!ComputeMetrics(<<100, 100>>, <<>>, 0, 50)
      busy == Meter!ComputeMetrics(<<100, 60, 110>>, <<-40, 50>>, 0, 55)
  IN Meter!CompositeScore(idle) > Meter!CompositeScore(busy)

LOCAL Matrices == [1..2 -> [1..4 -> {-1, 0, 2}]]

\* The blocks cut the rows without a gap or an overlap, none two rows longer.
ASSUME BlocksCutTheRows ==
  \A rows \in 2..7, splits \in {2, 4} : rows >= splits =>
    /\ UNION {Meter!BlockRows(rows, splits, b) : b \in 1..splits} = 1..rows
    /\ Meter!Sums([b \in 1..splits |-> Cardinality(Meter!BlockRows(rows, splits, b))], 1..splits) = rows

\* The winner's rank out of sample counts its ties: of copies of one series none is
\* below the median, and the number is the best there is ...
ASSUME AllowsIdenticalConfigsPass ==
  \A m \in Matrices : m[1] = m[2] => Meter!PboCscv(m, 4, 2) = 0

\* ... and which of two that are equal in sample is first may decide the number.
ASSUME AllowsOrderOfConfigs ==
  \E m \in Matrices : Meter!PboCscv(m, 4, 2) # Meter!PboCscv(<<m[2], m[1]>>, 4, 2)

\* Neither the order of the blocks in time nor a common factor of the returns matters.
ASSUME OverfittingHasNoUnit ==
  \A m \in Matrices :
    LET swapped == [c \in 1..2 |-> <<m[c][3], m[c][4], m[c][1], m[c][2]>>]
        doubled == [c \in 1..2 |-> [t \in 1..4 |-> 2 * m[c][t]]]
    IN /\ Meter!Computable(m, 4, 2) /\ ~Meter!Computable(<<m[1]>>, 4, 2) /\ ~Meter!Computable(m, 4, 3)
       /\ Meter!PboCscv(swapped, 4, 2) = Meter!PboCscv(m, 4, 2)
       /\ Meter!PboCscv(doubled, 4, 2) = Meter!PboCscv(m, 4, 2)
       /\ Meter!PboCscv(m, 4, 4) \in 0..100

-----------------------------------------------------------------------------
(***************************************************************************)
(* The registry, the cache and the plugins.                                *)
(***************************************************************************)
LOCAL Words == {<<"k">>, <<"d">>, <<"k", 1>>}

\* Repeated names are told apart, as long as none looks like one that was numbered.
ASSUME ColumnsAreTold ==
  \A items \in UNION {[1..n -> {<<"k">>, <<"d">>}] : n \in 0..4} : IsInjective(Known!Dedupe(items))
ASSUME AllowsColumnsAlike == \E items \in [1..3 -> Words] : ~IsInjective(Known!Dedupe(items))

\* A declared column is there whatever the library called its own.
ASSUME DeclaredAreThere ==
  \A columns \in [1..2 -> {<<"k", "14">>, <<"k", "3">>, <<"d", "3">>, <<"3">>}] :
    LET names == Known!Dedupe([k \in 1..2 |-> Known!StableName(columns[k], {"3", "14"})])
        frame == [name \in ToSet(names) |-> 0]
    IN /\ DOMAIN Known!Declared(frame, <<<<"k">>, <<"d">>>>) = {<<"k">>, <<"d">>}
       /\ Cardinality(ToSet(names)) = 2

\* The default of a parameter may lie outside of the range that is searched for it.
ASSUME AllowsDefaultOutside ==
  /\ \E n \in -5..5 : n \notin Known!FallbackSpec(n, "int").choices
  /\ \A n \in 2..40 : n \in Known!FallbackSpec(n, "int").choices

\* The rules suggested are ones the grammar has, but for one.
LOCAL Primitives == {"threshold_cross", "line_cross", "slope", "band_touch", "regime", "pattern"}
ASSUME AllowsTemplateWithoutRule ==
  LET suggested == UNION {Known!SignalTemplates(c, n) : n \in 1..3,
                     c \in {"pattern", "momentum", "trend", "overlap", "price", "volatility", "volume",
                            "statistic", "cycle", "other"}}
  IN suggested \ Primitives = {"midline_cross"} /\ Primitives \subseteq suggested

LOCAL DefOf(source, outputs) ==
  [source |-> source, category |-> "trend", group |-> "Overlap", inputs |-> {"close"}, outputs |-> outputs,
   imports |-> TRUE, complete |-> TRUE, params |-> [n \in {"length", "fast"} |-> [default |-> 14]]]

\* A name has one meaning: the plugin's before TA-Lib's before pandas-ta's, which
\* never has one of TA-Lib's.
ASSUME OneMeaning ==
  \A ours, talib, pta \in SUBSET {"sma", "zscore", "rsi"}, excluded \in SUBSET {"rsi"} :
    LET c == Known!CustomDefs([id \in ours |-> DefOf("custom", <<"x">>)])
        t == Known!TalibDefs([id \in talib |-> DefOf("talib", <<"x">>)], {"Math"})
        p == Known!PandasTaDefs([id \in pta |-> DefOf("pandas_ta", <<"x">>)], talib, excluded)
        all == Known!BuildRegistry(c, t, p)
    IN /\ DOMAIN all = ours \union talib \union (pta \ excluded)
       /\ \A id \in DOMAIN all :
            all[id].source = IF id \in ours THEN "custom" ELSE IF id \in talib THEN "talib" ELSE "pandas_ta"
       /\ Known!ListIndicators(all, "trend", Missing) = DOMAIN all
       /\ Known!ListIndicators(all, Missing, "custom") = ours

\* What an indicator is computed with are its own parameters and no others, and two
\* requests share an entry exactly when these are the same.
ASSUME EntriesAreByEffect ==
  \A a, b \in [{"length", "fast", "typo"} -> {7, 14}] :
    LET def == DefOf("custom", <<"x">>)
    IN /\ Known!CacheKey("x", def, a) = Known!CacheKey("x", def, b)
             <=> a["length"] = b["length"] /\ a["fast"] = b["fast"]
       /\ Known!CacheKey("x", def, <<>>) = Known!CacheKey("x", def, [n \in {"typo", "fast"} |-> 14])

LOCAL BarsOf(stamps, bars) == [k \in 1..Len(stamps) |-> [ts |-> stamps[k], bar |-> bars[k]]]
LOCAL NoEntries == [key \in {} |-> <<>>]
LOCAL Twice(first, second) ==
  LET Raw(bars) == [k \in DOMAIN bars |-> bars[k].bar]
      once == Known!ComputeIndicator(NoEntries, "key", first, Raw(first), TRUE, 0, 9)
  IN Known!ComputeIndicator(once.cache, "key", second, Raw(second), TRUE, 0, 9).rows

\* Bars appended to a series are computed ...
ASSUME AppendedBarsAreComputed ==
  \A n \in 0..3, m \in 0..3, bars \in [1..3 -> {1, 2}] : n <= m =>
    LET rows == Twice(BarsOf(Cut(<<2, 4, 6>>, n), bars), BarsOf(Cut(<<2, 4, 6>>, m), bars))
    IN Len(rows) = m /\ \A k \in 1..m : rows[k].value = bars[k]

\* ... but a bar that was corrected, or one that was filled in while another went, is
\* not: an entry is fresh by its length and its last stamp.
ASSUME AllowsStaleSeries ==
  /\ Twice(BarsOf(<<2, 4>>, <<1, 1>>), BarsOf(<<2, 4>>, <<2, 1>>))[1].value = 1
  /\ Twice(BarsOf(<<2, 4>>, <<1, 1>>), BarsOf(<<3, 4>>, <<1, 1>>))[1].ts = 2

\* The table of definitions keeps what the registry has lost.
ASSUME AllowsGhostRow ==
  LET whole == [id \in {"sma", "zscore"} |-> DefOf("custom", <<"x">>)]
      fewer == [id \in {"sma"} |-> DefOf("talib", <<"y">>)]
      table == Known!SyncIndicatorDefs(Known!SyncIndicatorDefs([id \in {} |-> 0], whole), fewer)
  IN table["sma"] = fewer["sma"] /\ DOMAIN table \ DOMAIN fewer = {"zscore"}

LOCAL Modules == {[imports |-> TRUE, registers |-> {"volume_spike"}], [imports |-> FALSE, registers |-> {"gap"}]}

\* A reload reflects additions and deletions, in the process that was asked: a rule the API
\* takes since is unknown to the worker that backtests and trades it, and one it has
\* dropped is still known there.
ASSUME AllowsStaleAtTheBot ==
  LET started == Known!Started(Modules)
      added   == Modules \union {[imports |-> TRUE, registers |-> {"gap_fill"}]}
  IN /\ started["api"] = {"volume_spike"} /\ started["worker"] = {"volume_spike"}
     /\ LET reloaded == Known!ReloadPlugins(started, added)
        IN "gap_fill" \in reloaded["api"] \ reloaded["worker"]
     /\ Known!ReloadPlugins(started, {})["worker"] = {"volume_spike"}
     /\ Known!ReloadPlugins(started, {})["api"] = {}

\* The last producer of a kind is the one that is asked.
ASSUME LastProducerWins ==
  \A kind \in {"genetic", "wfo_reopt"} :
    LET now == Known!RegisterGenerator(Known!Reserved, kind, "proposes")
    IN now[kind] = "proposes" /\ \A other \in DOMAIN now \ {kind} : now[other] = "refuses"
==============================================================================
