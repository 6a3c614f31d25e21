------------------------------- MODULE Discovery -------------------------------
(***************************************************************************)
(* The scan for strategies (backend/app/discovery): single scans, the      *)
(* elimination of indicators that say the same, combinations by role, the  *)
(* ranking of what was validated and the check of the finalists.           *)
(*                                                                         *)
(* A scan is a record [id, category, symbol, tf, score, entries], entries  *)
(* the bars the indicator would enter at on that cell.  Indicators are     *)
(* numbered in the order of their names.                                   *)
(***************************************************************************)
EXTENDS Integers, Sequences, FiniteSets, FiniteSetsExt, SequencesExt

Triggers == {"momentum", "overlap", "price", "pattern"}
Filters  == {"trend", "cycle", "statistic", "volume"}
RoleFor(category) ==
  IF category \in Triggers THEN {"trigger"}
  ELSE IF category \in Filters THEN {"filter"}
  ELSE IF category = "volatility" THEN {"exit"} ELSE {}

\* The indicators asked for that are available; but for a list of ids, only
\* those that can play a role.
CandidateIds(registry, selection) ==
  {id \in DOMAIN registry :
     /\ registry[id].available
     /\ CASE selection.by = "ids"        -> id \in selection.ids
          [] selection.by = "categories" -> /\ registry[id].category \in selection.categories
                                            /\ RoleFor(registry[id].category) # {}
          [] OTHER                       -> RoleFor(registry[id].category) # {}}

\* scanned[<<id, cell>>] is {} where the scan fails or has no data.
RunSingleScan(registry, selection, cells, scanned) ==
  {s \in UNION {scanned[<<id, cell>>] : id \in CandidateIds(registry, selection), cell \in cells} :
     RoleFor(s.category) # {}}

-----------------------------------------------------------------------------
(***************************************************************************)
(* Stage 2.  An indicator's vector is pooled over the cells it was scanned *)
(* on, in order; items are [id, score, vector].  rho[<<a, b>>] is the      *)
(* correlation of two vectors of the same length, in percent.              *)
(***************************************************************************)
Better(a, b) == a.score > b.score \/ (a.score = b.score /\ a.id < b.id)

Pooled(scans, id, cells) ==
  LET own == {s \in scans : s.id = id}
      scanned == SelectSeq(cells, LAMBDA cell : \E s \in own : <<s.symbol, s.tf>> = cell)
      Of(cell) == CHOOSE s \in own : <<s.symbol, s.tf>> = cell
  IN [id |-> id,
      score |-> MapThenSumSet(LAMBDA s : s.score, own) \div Cardinality(own),
      vector |-> FlattenSeq([k \in DOMAIN scanned |-> Of(scanned[k]).entries])]

Correlated(a, b, threshold, rho) ==
  /\ Len(a.vector) = Len(b.vector)
  /\ \/ rho[<<a.vector, b.vector>>] > threshold
     \/ -rho[<<a.vector, b.vector>>] > threshold

\* The best item left takes the seat, and those that say the same lose theirs.
Survivors(items, threshold, rho) ==
  LET keep[rest \in SUBSET items] ==
        IF rest = {} THEN {}
        ELSE LET rep == CHOOSE a \in rest : \A b \in rest \ {a} : Better(a, b)
             IN {rep} \union keep[{b \in rest \ {rep} : ~Correlated(rep, b, threshold, rho)}]
  IN keep[items]

-----------------------------------------------------------------------------
(***************************************************************************)
(* Stage 3.  One trigger, one filter and one exit of the same cell, from   *)
(* the best of each role; the best combinations go on.                     *)
(***************************************************************************)
FirstOf(order, k) == ToSet(SubSeq(order, 1, Min({k, Len(order)})))
Best(scans, k) == FirstOf(SetToSortSeq(scans, Better), k)

OfRole(scans, role, cell) ==
  {s \in scans : RoleFor(s.category) = {role} /\ <<s.symbol, s.tf>> = cell}

ComboKey(c) == <<c.trigger.id, c.filter.id, c.exit.id, c.trigger.symbol, c.trigger.tf>>
Score3(c) == c.trigger.score + c.filter.score + c.exit.score

Combos(scans, cell, pool) ==
  [trigger : Best(OfRole(scans, "trigger", cell), pool),
   filter  : Best(OfRole(scans, "filter", cell), pool),
   exit    : Best(OfRole(scans, "exit", cell), pool)]

\* place[key] is the place of a combination's key among the keys as text.
BuildCombos(scans, cells, pool, top, place) ==
  LET all == UNION {Combos(scans, cell, pool) : cell \in cells}
      Before(a, b) == Score3(a) > Score3(b) \/ (Score3(a) = Score3(b) /\ place[ComboKey(a)] < place[ComboKey(b)])
  IN [tried |-> Cardinality(all), kept |-> FirstOf(SetToSortSeq(all, Before), top)]

-----------------------------------------------------------------------------
(***************************************************************************)
(* The rules of a combination, by group of clauses <<primitive, operand,   *)
(* direction>>: the trigger's own, and the filter's slope over three bars. *)
(***************************************************************************)
Primitive(category, oscillator) ==
  IF category = "pattern" THEN <<"pattern", "bullish", "bearish">>
  ELSE IF category \in {"overlap", "price"} THEN <<"line_cross", "up", "down">>
  ELSE IF oscillator THEN <<"threshold_cross", "up", "down">> ELSE <<"slope", "up", "down">>

Masked(direction, rules) ==
  [g \in DOMAIN rules |->
     IF \/ direction = "long" /\ g \in {"short_entry", "short_exit"}
        \/ direction = "short" /\ g \in {"long_entry", "long_exit"}
     THEN {} ELSE rules[g]]

StandaloneRules(category, oscillator, operand, direction) ==
  LET p == Primitive(category, oscillator)
      rising == {<<p[1], operand, p[2]>>}
      falling == {<<p[1], operand, p[3]>>}
  IN Masked(direction, [long_entry |-> rising, long_exit |-> falling,
                        short_entry |-> falling, short_exit |-> rising])

FilterConfirm(operand, direction) ==
  Masked(direction, [long_entry |-> {<<"slope", operand, "up">>}, long_exit |-> {},
                     short_entry |-> {<<"slope", operand, "down">>}, short_exit |-> {}])

ComboRules(combo, oscillator, direction) ==
  LET own == StandaloneRules(combo.trigger.category, oscillator, "trig", direction)
      confirm == FilterConfirm("filt", direction)
  IN [g \in DOMAIN own |-> own[g] \union confirm[g]]

-----------------------------------------------------------------------------
(***************************************************************************)
(* Stage 6.  Entries are ranked by their score out of sample; the first    *)
(* few are run on a second engine.  alarms[e] is {} where that fails.      *)
(***************************************************************************)
RankEntries(entries, place) ==
  SetToSortSeq(entries,
    LAMBDA a, b : a.oos > b.oos \/ (a.oos = b.oos /\ place[ComboKey(a.combo)] < place[ComboKey(b.combo)]))

CrossValidate(ranked, topK, alarms) ==
  UNION {alarms[ranked[k]] : k \in {r \in DOMAIN ranked : r <= topK}}

\* What a scan returns: everything ranked, not only what survived.
ScanResult(entries, tried, topK, place, alarms) ==
  LET ranked == RankEntries(entries, place)
  IN [leaderboard |-> ranked, combosTried |-> tried,
      candidates |-> {k \in DOMAIN ranked : ranked[k].survived},
      alarms |-> CrossValidate(ranked, topK, alarms)]
==============================================================================
