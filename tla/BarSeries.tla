----------------------------- MODULE BarSeries ------------------------------
(***************************************************************************)
(* Series of bars by their opening times, as backend/app/data/gaps.py,     *)
(* timeframes.py and parquet_store.py handle them.  A file is a function   *)
(* from the opening times it holds to what is stored for them.             *)
(***************************************************************************)
EXTENDS Integers, FiniteSets, FiniteSetsExt, TLC

FirstBar(S) == Min(S)
LastBar(S)  == Max(S)

OnGrid_Nearest(t, step) == ((t + step \div 2) \div step) * step

\* Floor a time to the grid: the bar, the poll slot or the minute it is in.
OnGrid(t, step) == (t \div step) * step

\* The end of the last bar that is closed at `now`: no bar from there on is fetched.
ClosedUntil(now, step) == (OnGrid(now, step) - step) + step

\* Neighbours in the series, and the whole number of bars between them,
\* rounded so that a stamp a little off the grid opens no gap.
Neighbours(S) == {p \in S \X S : p[1] < p[2] /\ \A t \in S : t <= p[1] \/ p[2] <= t}
Spacing(a, b, step) == ((b - a) + step \div 2) \div step

\* The first and the last missing bar of every hole inside the series.
FindGaps(S, step) ==
  {<<p[1] + step, p[2] - step>> : p \in {q \in Neighbours(S) : Spacing(q[1], q[2], step) > 1}}

\* How many bars the gaps are; never less than one each.
CountMissing(gaps, step) ==
  MapThenSumSet(LAMBDA g : Max({1, ((g[2] - g[1]) + step \div 2) \div step + 1}), gaps)

\* How many bars an unbroken series has between its ends.
ExpectedCount(first, last, step) ==
  IF last < first THEN 0 ELSE (last - first) \div step + 1

\* The last of S on or before t, as a set of at most one: a backward join.
AsOf(S, t) == {u \in S : u <= t /\ \A v \in S : v <= t => v <= u}

\* _merge_write: the union of both, the new row wherever they meet.
Merge(old, new) ==
  [t \in DOMAIN old \cup DOMAIN new |-> IF t \in DOMAIN new THEN new[t] ELSE old[t]]

\* A series of one row.
OneRow(t, v) == [u \in {t} |-> v]

NoBars == [t \in {} |-> TRUE]
=============================================================================
