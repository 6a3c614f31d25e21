--------------------------------- MODULE Rules ---------------------------------
(***************************************************************************)
(* The rule clauses of a strategy and the signals they make                *)
(* (indicators/signals.py, backtest/rules.py), and the same rules read at  *)
(* the last bar by the bot (bot/signals.py).                               *)
(*                                                                         *)
(* A series is a sequence of integers with Missing where an indicator has  *)
(* no value yet.  The name of an operand is <<field>>, <<key>> or          *)
(* <<key, output>>.  A clause is a record of a primitive and its arguments.*)
(***************************************************************************)
EXTENDS Integers, Sequences

CONSTANT Missing

\* shift: what is not there is missing, and nothing compares with it.
At(x, i) == IF i \in DOMAIN x THEN x[i] ELSE Missing
Over(a, b)   == a # Missing /\ b # Missing /\ a > b
AtMost(a, b) == a # Missing /\ b # Missing /\ a <= b

CrossUp(a, b, i)   == Over(At(a, i), At(b, i)) /\ AtMost(At(a, i - 1), At(b, i - 1))
CrossDown(a, b, i) == CrossUp(b, a, i)

LineCross(a, b, direction, i) ==
  \/ direction # "down" /\ CrossUp(a, b, i)
  \/ direction # "up" /\ CrossDown(a, b, i)

\* A level is a line that does not move.
ThresholdCross(x, level, direction, i) ==
  LineCross(x, [k \in DOMAIN x |-> level], direction, i)

Slope(x, lookback, direction, eps, i) ==
  LET now == At(x, i)
      ago == At(x, i - lookback)
  IN /\ now # Missing /\ ago # Missing
     /\ CASE direction = "up"   -> now - ago > eps
          [] direction = "down" -> now - ago < -eps
          [] OTHER              -> now - ago \in -eps..eps

BandTouch(price, upper, lower, touch, i) ==
  CASE touch = "touch_upper"  -> AtMost(At(upper, i), At(price, i))
    [] touch = "touch_lower"  -> AtMost(At(price, i), At(lower, i))
    [] touch = "break_upper"  -> CrossUp(price, upper, i)
    [] touch = "break_lower"  -> CrossDown(price, lower, i)
    [] touch = "revert_upper" -> CrossDown(price, upper, i)
    [] OTHER                  -> CrossUp(price, lower, i)

Regime(x, op, low, high, i) ==
  CASE op = "gt"      -> Over(At(x, i), low)
    [] op = "ge"      -> AtMost(low, At(x, i))
    [] op = "lt"      -> Over(low, At(x, i))
    [] op = "le"      -> AtMost(At(x, i), low)
    [] op = "between" -> AtMost(low, At(x, i)) /\ AtMost(At(x, i), high)

\* A missing value is not zero either: "any" fires on it.
Pattern(x, direction, i) ==
  CASE direction = "bullish" -> Over(At(x, i), 0)
    [] direction = "bearish" -> Over(0, At(x, i))
    [] OTHER                 -> At(x, i) # 0

-----------------------------------------------------------------------------
(***************************************************************************)
(* Operands.  The only output of an indicator goes by its key too, and an  *)
(* indicator hides a price field of its name.                              *)
(***************************************************************************)
ResolveOperands(prices, frames) ==
  LET full  == {<<key, out>> : key \in DOMAIN frames, out \in UNION {DOMAIN frames[k] : k \in DOMAIN frames}}
      named == {n \in full : n[2] \in DOMAIN frames[n[1]]}
      sole  == {n \in named : DOMAIN frames[n[1]] = {n[2]}}
      keys  == {<<m[1]>> : m \in sole}
  IN [n \in named \union keys \union {<<field>> : field \in DOMAIN prices} |->
        IF n \in named THEN frames[n[1]][n[2]]
        ELSE IF n \in keys THEN frames[n[1]][CHOOSE out \in DOMAIN frames[n[1]] : TRUE]
        ELSE prices[n[1]]]

OperandArgs(primitive) ==
  CASE primitive = "line_cross" -> {"a", "b"}
    [] primitive = "band_touch" -> {"price", "upper", "lower"}
    [] primitive = "pattern"    -> {"series"}
    [] primitive \in {"threshold_cross", "slope", "regime"} -> {"x"}
    [] OTHER -> {}

Groups == {"long_entry", "long_exit", "short_entry", "short_exit"}
Clauses(rules) == UNION {{rules[g][k] : k \in DOMAIN rules[g]} : g \in Groups}

UnknownOperands(rules, ops) ==
  UNION {{c[arg] : arg \in OperandArgs(c.primitive) \cap DOMAIN c} : c \in Clauses(rules)}
    \ DOMAIN ops

BuildClause(c, ops, i) ==
  CASE c.primitive = "threshold_cross" -> ThresholdCross(ops[c.x], c.level, c.direction, i)
    [] c.primitive = "line_cross" -> LineCross(ops[c.a], ops[c.b], c.direction, i)
    [] c.primitive = "slope"      -> Slope(ops[c.x], c.lookback, c.direction, c.eps, i)
    [] c.primitive = "band_touch" -> BandTouch(ops[c.price], ops[c.upper], ops[c.lower], c.touch, i)
    [] c.primitive = "regime"     -> Regime(ops[c.x], c.op, c.low, c.high, i)
    [] c.primitive = "pattern"    -> Pattern(ops[c.series], c.direction, i)

\* A group without clauses never fires.
Combine(clauses, ops, i) ==
  clauses # <<>> /\ \A k \in DOMAIN clauses : BuildClause(clauses[k], ops, i)

Allowed(direction) ==
  CASE direction = "long"  -> {"long_entry", "long_exit"}
    [] direction = "short" -> {"short_entry", "short_exit"}
    [] OTHER               -> Groups

BuildSignals(rules, ops, direction, n) ==
  [g \in Groups |-> {i \in 1..n : g \in Allowed(direction) /\ Combine(rules[g], ops, i)}]

-----------------------------------------------------------------------------
(***************************************************************************)
(* The bot reads the rules at the last bar, with the reasons that fired    *)
(* and the values they read.                                               *)
(***************************************************************************)
ClauseOperands(c, ops) == {c[arg] : arg \in OperandArgs(c.primitive)} \cap DOMAIN ops

NoSignal == <<>>

EvaluateLatest(rules, direction, prices, frames, n) ==
  LET ops     == ResolveOperands(prices, frames)
      verdict == [g \in Groups |-> g \in Allowed(direction) /\ Combine(rules[g], ops, n)]
      read    == UNION {ClauseOperands(c, ops) : c \in Clauses(rules)} \union {<<"close">>}
  IN IF n = 0 THEN NoSignal
     ELSE [verdict  |-> verdict,
           reason   |-> [g \in {h \in Groups : verdict[h]} |-> rules[g]],
           snapshot |-> [name \in read |-> At(ops[name], n)]]
==============================================================================
