--------------------------- MODULE IndicatorRegistry ---------------------------
(***************************************************************************)
(* What indicators and plugin primitives there are, and the cache of       *)
(* computed series (backend/app/indicators, strategy/plugin_loader.py,     *)
(* strategy/generator.py).                                                 *)
(*                                                                         *)
(* A registry is a function from ids to definitions [source, category,     *)
(* outputs, params].  A column's name is a sequence of words and numbers.  *)
(***************************************************************************)
EXTENDS Integers, Sequences, FiniteSets, FiniteSetsExt, SequencesExt, Functions, TLC

CONSTANT Missing

-----------------------------------------------------------------------------
(***************************************************************************)
(* Names of columns.  Values of parameters are stripped from them, so that *)
(* two columns may come out alike; a repeated one gets a number.           *)
(***************************************************************************)
StableName(column, numbers) ==
  LET words == SelectSeq(column, LAMBDA word : word \notin numbers)
  IN IF words = <<>> THEN column ELSE words

Seen(items, k) == Cardinality({j \in 1..(k - 1) : items[j] = items[k]})
Dedupe(items) ==
  [k \in DOMAIN items |-> IF Seen(items, k) = 0 THEN items[k] ELSE Append(items[k], Seen(items, k))]

\* The frame a library returns, cut to the declared columns: one that it lacks is empty.
Declared(frame, outputs) ==
  [column \in ToSet(outputs) |-> IF column \in DOMAIN frame THEN frame[column] ELSE Missing]

-----------------------------------------------------------------------------
(* Specifications of parameters: the range a search sweeps; floats in hundredths. *)
FallbackSpec(default, kind) ==
  CASE kind = "bool" -> [default |-> default, choices |-> {0, 1}]
    [] kind = "int"  -> [default |-> default,
                         choices |-> (IF default = 0 THEN 1 ELSE Max({2, default \div 2}))
                                       ..Max({100, 3 * default})]
    [] kind = "float" -> [default |-> default,
                          choices |-> IF default = 0 THEN 0..100 ELSE (default \div 4)..(4 * default)]

\* The curated range where the name is known, with the library's own default.
SpecFor(curated, name, default, kind) ==
  IF name \in DOMAIN curated THEN [curated[name] EXCEPT !.default = default]
  ELSE FallbackSpec(default, kind)

EffectiveParams(def, asked) ==
  [name \in DOMAIN def.params |->
     IF name \in DOMAIN asked THEN asked[name] ELSE def.params[name].default]

-----------------------------------------------------------------------------
(* The rules a kind of indicator suggests, by the number of its columns. *)
SignalTemplates(category, columns) ==
  CASE category = "pattern"                          -> {"pattern"}
    [] category = "momentum" /\ columns > 1          -> {"threshold_cross", "slope"}
    [] category = "momentum" /\ columns <= 1         -> {"threshold_cross", "midline_cross", "slope"}
    [] category \in {"trend", "overlap", "price"}    -> {"line_cross", "slope"}
    [] category = "volatility" /\ columns >= 3       -> {"band_touch"}
    [] category = "volatility" /\ columns < 3        -> {"slope", "regime"}
    [] category \in {"volume", "statistic"}          -> {"slope", "threshold_cross"}
    [] category = "cycle"                            -> {"regime", "threshold_cross"}
    [] OTHER                                         -> {"slope"}

-----------------------------------------------------------------------------
(***************************************************************************)
(* The registry.  TA-Lib's functions but for those that work on no price;  *)
(* pandas-ta's that are not TA-Lib's, do not repaint and compute           *)
(* something new on a probe; plugins over both.                            *)
(***************************************************************************)
Inputs == {"open", "high", "low", "close", "volume"}
TalibDefs(functions, skipped) ==
  Restrict(functions, {id \in DOMAIN functions :
                         functions[id].group \notin skipped /\ functions[id].inputs \subseteq Inputs})

PandasTaDefs(probed, talib, excluded) ==
  Restrict(probed, {id \in DOMAIN probed : /\ id \notin talib \union excluded
                                           /\ probed[id].outputs # <<>>
                                           /\ ~(ToSet(probed[id].outputs) \subseteq Inputs)})

\* A plugin that fails to import or lacks a part of the contract is left out.
CustomDefs(plugins) ==
  Restrict(plugins, {id \in DOMAIN plugins : plugins[id].imports /\ plugins[id].complete})

BuildRegistry(custom, talib, pandasTa) == custom @@ talib @@ pandasTa

ListIndicators(registry, category, source) ==
  {id \in DOMAIN registry : /\ category \in {Missing, registry[id].category}
                            /\ source \in {Missing, registry[id].source}}

\* The table is written over, row by row; nothing is taken out of it.
SyncIndicatorDefs(table, registry) == registry @@ table

-----------------------------------------------------------------------------
(***************************************************************************)
(* The cache.  A series of bars is a sequence of [ts, bar]; raw is what    *)
(* the source computes of them now.  An entry holds rows [ts, value].      *)
(***************************************************************************)
IsFresh(cached, bars) ==
  /\ Len(cached) = Len(bars)
  /\ bars # <<>> => Last(cached).ts = Last(bars).ts

CacheKey(id, def, asked) == <<id, EffectiveParams(def, asked)>>

ComputeIndicator(cache, key, bars, raw, useCache, from, to) ==
  LET hit == useCache /\ key \in DOMAIN cache /\ IsFresh(cache[key], bars)
      rows == IF hit THEN cache[key]
              ELSE [k \in DOMAIN bars |-> [ts |-> bars[k].ts, value |-> raw[k]]]
  IN [cache |-> IF useCache THEN (key :> rows) @@ cache ELSE cache,
      rows  |-> SelectSeq(rows, LAMBDA row : from <= row.ts /\ row.ts <= to)]

-----------------------------------------------------------------------------
(***************************************************************************)
(* Plugin primitives.  A registry of a process is emptied and filled again *)
(* from the modules, of which one that fails keeps what it had registered  *)
(* before it did.  The API and the worker load at their start; the request *)
(* to load again reaches the API only.                                     *)
(***************************************************************************)
LoadPlugins(modules) == UNION {m.registers : m \in {n \in modules : n.imports}}

Started(modules) == [process \in {"api", "worker"} |-> LoadPlugins(modules)]
ReloadPlugins(registries, modules) == [registries EXCEPT !["api"] = LoadPlugins(modules)]

\* Producers are by kind, the last one registered; two kinds are there to refuse.
RegisterGenerator(generators, kind, generator) == (kind :> generator) @@ generators
Reserved == [kind \in {"genetic", "rl"} |-> "refuses"]
==============================================================================
