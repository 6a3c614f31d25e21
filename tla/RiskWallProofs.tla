--------------------------- MODULE RiskWallProofs ---------------------------
(***************************************************************************)
(* RiskWall keeps its types, holds no more symbols than allowed or given   *)
(* back by a restart, and asks for the kill switch exactly at the drawdown, halts, cools down and *)
(* keeps to the exposure limits of the portfolio, for every account,       *)
(* every set of limits and any number of restarts.  Then what Portfolio    *)
(* computes for the strategies in front of it.                             *)
(***************************************************************************)
EXTENDS RiskWall, FiniteTheorems, TLAPS

(* The day of an hour.                                                     *)
LEMMA TodayNat == ASSUME now \in Nat PROVE Today \in Nat
  <1> DEFINE d == DayHours
  <1>1. d \in Nat \ {0}
    BY LimitsAssumption
  <1> HIDE DEF d
  <1>2. now \div d \in Nat
    BY <1>1
  <1> QED BY <1>2 DEF Today, d

(* The higher of two numbers is one of them, and below neither.            *)
LEMMA HigherType ==
  ASSUME NEW x \in Int, NEW y \in Int
  PROVE  /\ Higher(x, y) \in {x, y}
         /\ x <= Higher(x, y) /\ y <= Higher(x, y)
  BY DEF Higher

-----------------------------------------------------------------------------
(* What a decision leaves in the state of the wall.                        *)
LEMMA AskedType ==
  ASSUME TypeOK, Asked
  PROVE  /\ peak' \in Equities \union {0}
         /\ day' \in Nat \union {-1}
         /\ dayStart' \in Equities \union {0}
         /\ seen' \subseteq Equities
         /\ equity' \in Equities
         /\ now' \in 0 .. Horizon
         /\ rebuilds' \in 0 .. MaxRebuilds
         /\ restored' \in 0 .. Cardinality(Symbols)
  <1>1. equity \in Nat /\ peak \in Nat /\ now \in Nat
    BY AccountAssumption, BoundsAssumption DEF TypeOK
  <1>2. PeakNow \in Equities \union {0}
    BY <1>1, HigherType DEF PeakNow, TypeOK
  <1>3. Today \in Nat
    BY <1>1, TodayNat
  <1> QED
    BY <1>2, <1>3 DEF Asked, DayStartNow, TypeOK

(* Registering a result keeps the streak and the cooldown well typed.      *)
LEMMA RegisterType ==
  ASSUME TypeOK, NEW lost \in BOOLEAN, RegisterTradeResult(lost)
  PROVE  /\ losses' \in 0 .. LossStreak - 1
         /\ cooldownUntil' \in Nat /\ streak' \in Nat
         /\ coolEnd' \in Nat /\ coolEver' \in Nat
  <1>1. losses' \in 0 .. LossStreak - 1
    BY LimitsAssumption DEF RegisterTradeResult, LossesAfter, Armed, TypeOK
  <1>2. now + CooldownHours \in Nat
    BY LimitsAssumption, BoundsAssumption DEF TypeOK
  <1>3. cooldownUntil' \in Nat /\ streak' \in Nat
    BY <1>2 DEF RegisterTradeResult, TypeOK
  <1>4. coolEnd' \in Nat
    BY <1>2 DEF RegisterTradeResult, TypeOK
  <1>5. coolEver' \in Nat
    BY <1>4, HigherType DEF RegisterTradeResult, TypeOK
  <1> QED
    BY <1>1, <1>3, <1>4, <1>5

(* An opening order keeps the types.                                       *)
LEMMA OpenType ==
  ASSUME TypeOK, NEW s \in Symbols, NEW q \in Int, NEW fits \in BOOLEAN,
         SubmitOpen(s, q, fits)
  PROVE  TypeOK'
  <1>1. Asked
    BY DEF SubmitOpen, AsksKill, PortfolioRejects, DailyLossHalts, LimitRejects, Opens
  <1>2. Today \in Nat
    BY TodayNat, BoundsAssumption DEF TypeOK
  <1>3. /\ haltedDay' \in Nat \union {-1}
        /\ lossDay' \in [Limits -> Nat \union {-1}]
    BY <1>2 DEF SubmitOpen, AsksKill, PortfolioRejects, DailyLossHalts, LimitRejects, Opens,
                TypeOK, Limits
  <1>4. pos' \in [Symbols -> -MaxNotional .. MaxNotional] /\ verdict' \in Verdicts
    <2>1. CASE Opens(s, q)
      BY <2>1, BoundsAssumption DEF Opens, TypeOK, Verdicts, Abs
    <2>2. CASE ~Opens(s, q)
      BY <2>2 DEF SubmitOpen, AsksKill, PortfolioRejects, DailyLossHalts, LimitRejects, Rejects,
                  TypeOK, Verdicts
    <2> QED
      BY <2>1, <2>2
  <1>5. UNCHANGED <<losses, cooldownUntil, streak, coolEnd, coolEver>>
    BY DEF SubmitOpen, AsksKill, PortfolioRejects, DailyLossHalts, LimitRejects, Opens, Rejects
  <1>6. trades' \in [Symbols -> SUBSET Sides]
    <2>1. CASE Opens(s, q)
      BY <2>1 DEF Opens, TypeOK, Sides
    <2>2. CASE ~Opens(s, q)
      BY <2>2 DEF SubmitOpen, AsksKill, PortfolioRejects, DailyLossHalts, LimitRejects, Rejects,
                  TypeOK
    <2> QED
      BY <2>1, <2>2
  <1> QED
    BY <1>1, <1>3, <1>4, <1>5, <1>6, AskedType DEF TypeOK

(* A closing order keeps the types.                                        *)
LEMMA CloseType ==
  ASSUME TypeOK, NEW s \in Symbols, NEW side \in Sides, NEW lost \in BOOLEAN,
         SubmitClose(s, side, lost)
  PROVE  TypeOK'
  <1>1. Asked
    BY DEF SubmitClose, AsksKill
  <1>2. haltedDay' = haltedDay /\ lossDay' = lossDay
    BY DEF SubmitClose, AsksKill
  <1>3. CASE verdict' = "closed"
    <2>1. /\ pos' = [pos EXCEPT ![s] = @ - side * Abs(@)]
          /\ Abs(pos[s] - side * Abs(pos[s])) <= MaxNotional
          /\ RegisterTradeResult(lost)
          /\ Settled(s, side)
      BY <1>3 DEF SubmitClose, AsksKill, Rejects
    <2> DEFINE left == pos[s] - side * Abs(pos[s])
    <2>2. left \in Int
      BY DEF TypeOK, Sides, Abs
    <2>3. left \in -MaxNotional .. MaxNotional
      <3> HIDE DEF left
      <3> QED BY <2>1, <2>2, BoundsAssumption DEF Abs, left
    <2>4. pos' \in [Symbols -> -MaxNotional .. MaxNotional]
      <3>1. pos' = [pos EXCEPT ![s] = left]
        BY <2>1
      <3> HIDE DEF left
      <3> QED BY <3>1, <2>3 DEF TypeOK
    <2>5. trades' \in [Symbols -> SUBSET Sides]
      BY <2>1 DEF Settled, TypeOK
    <2> QED
      BY <1>1, <1>2, <1>3, <2>1, <2>4, <2>5, AskedType, RegisterType DEF TypeOK, Verdicts
  <1>4. CASE verdict' # "closed"
    <2>1. /\ UNCHANGED <<pos, trades, losses, cooldownUntil, streak, coolEnd, coolEver>>
          /\ verdict' \in Verdicts
      BY <1>4 DEF SubmitClose, AsksKill, Rejects, Verdicts
    <2> QED
      BY <1>1, <1>2, <2>1, AskedType DEF TypeOK
  <1> QED
    BY <1>3, <1>4

(* A price move keeps the types.                                           *)
LEMMA MarketType ==
  ASSUME TypeOK, NEW e \in Equities, NEW s \in Symbols, NEW n \in Notionals, Market(e, s, n)
  PROVE  TypeOK'
  <1>1. n \in Nat /\ n <= MaxNotional
    BY AccountAssumption DEF Market
  <1>2. pos' \in [Symbols -> -MaxNotional .. MaxNotional]
    BY <1>1, BoundsAssumption DEF Market, TypeOK
  <1> QED
    BY <1>2 DEF Market, TypeOK, riskState, history, Verdicts

(* An hour keeps the types.                                                *)
LEMMA HourType == ASSUME TypeOK, Hour PROVE TypeOK'
  BY BoundsAssumption DEF Hour, TypeOK, riskState, history, Verdicts

(* Building the wall keeps the types of what it builds.                    *)
LEMMA RebuildType ==
  ASSUME TypeOK, NEW seed \in Equities \union {0}, Rebuild(seed)
  PROVE  /\ peak' \in Equities \union {0} /\ day' \in Nat \union {-1}
         /\ dayStart' \in Equities \union {0} /\ haltedDay' \in Nat \union {-1}
         /\ losses' \in 0 .. LossStreak - 1 /\ cooldownUntil' \in Nat
         /\ verdict' \in Verdicts /\ seen' \subseteq Equities
         /\ lossDay' \in [Limits -> Nat \union {-1}]
         /\ streak' \in Nat /\ coolEnd' \in Nat /\ coolEver' \in Nat
         /\ rebuilds' \in 0 .. MaxRebuilds /\ now' \in 0 .. Horizon
         /\ trades' \in [Symbols -> SUBSET Sides]
  BY BoundsAssumption, LimitsAssumption
  DEF Rebuild, Fresh, TypeOK, Verdicts

(* Arming the live wall keeps the types.                                   *)
LEMMA RearmType ==
  ASSUME TypeOK, NEW seed \in Equities \union {0}, Rearm(seed)
  PROVE  TypeOK'
  <1>1. Rebuild(seed) /\ equity' = equity /\ pos' = pos /\ restored' = restored
    BY DEF Rearm
  <1> QED
    BY <1>1, RebuildType DEF TypeOK

(* What a restart gives back of a symbol is a position.                    *)
LEMMA RestoredType ==
  ASSUME TypeOK, NEW s \in Symbols
  PROVE  Restored(s) \subseteq -MaxNotional .. MaxNotional
  <1> SUFFICES ASSUME NEW side \in Sides, NEW lot \in Lots
               PROVE  /\ side * lot \in -MaxNotional .. MaxNotional
                      /\ 0 \in -MaxNotional .. MaxNotional
    BY BoundsAssumption DEF Restored, TypeOK
  <1>1. lot \in Nat /\ lot <= MaxNotional /\ MaxNotional \in Nat
    BY AccountAssumption, BoundsAssumption
  <1>2. side = 1 \/ side = -1
    BY DEF Sides
  <1>3. CASE side = 1
    BY <1>1, <1>3
  <1>4. CASE side = -1
    BY <1>1, <1>4
  <1> QED
    BY <1>2, <1>3, <1>4

(* A restart keeps the types, and counts what it gave back.                *)
LEMMA RestartType ==
  ASSUME TypeOK, NEW e \in Equities, NEW seed \in Equities \union {0}, Restart(e, seed)
  PROVE  TypeOK' /\ restored' = Cardinality(Held')
  <1>1. Rebuild(seed) /\ equity' = e /\ restored' = Cardinality(Held')
    BY DEF Restart
  <1>2. pos' \in [Symbols -> -MaxNotional .. MaxNotional]
    <2>1. \A s \in Symbols : pos'[s] \in -MaxNotional .. MaxNotional
      BY RestoredType DEF Restart
    <2>2. pos' = [s \in Symbols |-> pos'[s]]
      BY DEF Restart
    <2> QED
      BY <2>1, <2>2
  <1>3. restored' \in 0 .. Cardinality(Symbols)
    <2>1. Held' \subseteq Symbols
      BY DEF Held
    <2>2. /\ Cardinality(Held') <= Cardinality(Symbols)
          /\ Cardinality(Held') \in Nat /\ Cardinality(Symbols) \in Nat
      BY <2>1, AccountAssumption, FS_Subset, FS_CardinalityType
    <2> QED
      BY <1>1, <2>2
  <1> QED
    BY <1>1, <1>2, <1>3, RebuildType DEF TypeOK

(* Every variable keeps its type; the streak of losses stays under the     *)
(* length that arms a cooldown (risk.py:108-115, 292-300).                 *)
THEOREM WallTypeCorrect == Spec => []TypeOK
  <1>1. Init => TypeOK
    <2>1. Cardinality(Symbols) \in Nat
      BY AccountAssumption, FS_CardinalityType
    <2> QED
      BY <2>1, BoundsAssumption, LimitsAssumption DEF Init, TypeOK, Verdicts
  <1>2. TypeOK /\ [Next]_vars => TypeOK'
    <2> SUFFICES ASSUME TypeOK, [Next]_vars
                 PROVE  TypeOK'
      OBVIOUS
    <2>1. CASE UNCHANGED vars
      BY <2>1 DEF vars, TypeOK
    <2>2. ASSUME NEW s \in Symbols, NEW side \in Sides, NEW lot \in Lots,
                 NEW fits \in BOOLEAN, SubmitOpen(s, side * lot, fits)
          PROVE  TypeOK'
      <3>1. side * lot \in Int
        BY AccountAssumption DEF Sides
      <3> QED
        BY <2>2, <3>1, OpenType
    <2> QED
      BY <2>1, <2>2, CloseType, MarketType, HourType, RearmType, RestartType DEF Next
  <1> QED
    BY <1>1, <1>2, PTL DEF Spec
-----------------------------------------------------------------------------
(* A step that holds no new symbol, or one more when there is room for it. *)
LEMMA HeldFinite ==
  ASSUME NEW T \in SUBSET Symbols
  PROVE  IsFiniteSet(T) /\ Cardinality(T) \in Nat
  BY AccountAssumption, FS_Subset, FS_CardinalityType

(* A step that opens no new symbol keeps the number of positions.          *)
LEMMA NoneAdded ==
  ASSUME TypeOK, PositionsBounded, Held' \subseteq Held, restored' = restored
  PROVE  PositionsBounded'
  <1>1. IsFiniteSet(Held) /\ Cardinality(Held) \in Nat
    BY HeldFinite DEF Held
  <1>2. Cardinality(Held') <= Cardinality(Held)
    BY <1>1, FS_Subset
  <1>3. Cardinality(Held') \in Nat
    BY HeldFinite DEF Held
  <1>4. Higher(MaxPositions, restored) \in Int
    <2>1. Cardinality(Symbols) \in Nat
      BY AccountAssumption, FS_CardinalityType
    <2> QED
      BY <2>1, LimitsAssumption DEF Higher, TypeOK
  <1> QED
    BY <1>1, <1>2, <1>3, <1>4 DEF PositionsBounded, Higher

(* A step that opens one symbol while there is room keeps it bounded.      *)
LEMMA OneAdded ==
  ASSUME TypeOK', NEW s \in Symbols, Held' \subseteq Held \union {s},
         Cardinality(Held) < MaxPositions
  PROVE  PositionsBounded'
  <1>1. IsFiniteSet(Held) /\ Cardinality(Held) \in Nat
    BY HeldFinite DEF Held
  <1>2. IsFiniteSet(Held \union {s}) /\ Cardinality(Held \union {s}) <= Cardinality(Held) + 1
    <2> DEFINE H == Held
    <2>1. IsFiniteSet(H) /\ Cardinality(H) \in Nat
      BY <1>1
    <2> HIDE DEF H
    <2>2. /\ IsFiniteSet(H \union {s})
          /\ Cardinality(H \union {s}) = IF s \in H THEN Cardinality(H) ELSE Cardinality(H) + 1
      BY <2>1, FS_AddElement
    <2>3. Cardinality(H \union {s}) <= Cardinality(H) + 1
      BY <2>1, <2>2
    <2> QED
      BY <2>2, <2>3 DEF H
  <1>3. Cardinality(Held') <= Cardinality(Held \union {s})
    BY <1>2, FS_Subset
  <1>4. Cardinality(Held') \in Nat /\ Cardinality(Held \union {s}) \in Nat
    BY HeldFinite, <1>2, FS_CardinalityType DEF Held
  <1>5. Cardinality(Held') <= MaxPositions
    BY <1>1, <1>2, <1>3, <1>4, LimitsAssumption
  <1>6. restored' \in Nat
    <2>1. Cardinality(Symbols) \in Nat
      BY AccountAssumption, FS_CardinalityType
    <2> QED
      BY <2>1 DEF TypeOK
  <1> QED
    BY <1>4, <1>5, <1>6, HigherType, LimitsAssumption DEF PositionsBounded, Higher

(* The account holds no more symbols than max_concurrent_positions, or     *)
(* than its last restart gave back, whatever nets, is closed against or    *)
(* repriced since (risk.py:253-260, engine.py:137-143).                    *)
THEOREM PositionsAreBounded == Spec => []PositionsBounded
  <1>1. Init => PositionsBounded
    <2>1. Init => Held = {}
      BY DEF Init, Held
    <2> QED
      BY <2>1, FS_EmptySet, LimitsAssumption DEF Init, PositionsBounded, Higher
  <1>2. TypeOK /\ TypeOK' /\ PositionsBounded /\ [Next]_vars => PositionsBounded'
    <2> SUFFICES ASSUME TypeOK, TypeOK', PositionsBounded, [Next]_vars
                 PROVE  PositionsBounded'
      OBVIOUS
    <2>1. CASE pos' = pos /\ restored' = restored
      BY <2>1, NoneAdded DEF Held
    <2>2. ASSUME NEW s \in Symbols, NEW q, Opens(s, q)
          PROVE  PositionsBounded'
      <3>1. Held' \subseteq Held \union {s} /\ restored' = restored
        BY <2>2 DEF Opens, Asked, Held, TypeOK
      <3>2. CASE s \in Held
        BY <3>1, <3>2, NoneAdded
      <3>3. CASE s \notin Held
        <4>1. ~(Cardinality(Held) >= MaxPositions)
          BY <2>2, <3>3 DEF Opens, WallPasses, Full
        <4>2. Cardinality(Held) < MaxPositions
          BY <4>1, HeldFinite, LimitsAssumption DEF Held
        <4> QED
          BY <4>2, <3>1, OneAdded
      <3> QED
        BY <3>2, <3>3
    <2>3. ASSUME NEW s \in Symbols, NEW side \in Sides, NEW lost \in BOOLEAN,
                 SubmitClose(s, side, lost)
          PROVE  PositionsBounded'
      <3>1. Held' \subseteq Held /\ restored' = restored
        BY <2>3 DEF SubmitClose, AsksKill, Asked, Rejects, Held, TypeOK
      <3> QED
        BY <3>1, NoneAdded
    <2>4. ASSUME NEW e \in Equities, NEW s \in Symbols, NEW n \in Notionals, Market(e, s, n)
          PROVE  PositionsBounded'
      <3>1. Held' \subseteq Held /\ restored' = restored
        BY <2>4 DEF Market, history, Held, TypeOK
      <3> QED
        BY <3>1, NoneAdded
    <2>5. ASSUME NEW s \in Symbols, NEW side \in Sides, NEW lot \in Lots,
                 NEW fits \in BOOLEAN, SubmitOpen(s, side * lot, fits)
          PROVE  PositionsBounded'
      <3>1. \/ Opens(s, side * lot)
            \/ pos' = pos /\ restored' = restored
        BY <2>5 DEF SubmitOpen, AsksKill, PortfolioRejects, DailyLossHalts, LimitRejects, Rejects,
                    Asked
      <3> QED
        BY <3>1, <2>1, <2>2
    <2>6. ASSUME NEW e \in Equities, NEW seed \in Equities \union {0}, Restart(e, seed)
          PROVE  PositionsBounded'
      <3>1. restored' = Cardinality(Held') /\ restored' \in Int
        BY <2>6, RestartType, HeldFinite DEF Held
      <3> QED
        BY <3>1, LimitsAssumption DEF PositionsBounded, Higher
    <2> QED
      BY <2>1, <2>3, <2>4, <2>5, <2>6 DEF Next, vars, Hour, Rearm, account, history
  <1> QED
    BY <1>1, <1>2, WallTypeCorrect, PTL DEF Spec
-----------------------------------------------------------------------------
(* What makes the kill verdict exact: the peak is the highest of the       *)
(* equities met since the wall was built and of the seed.                  *)
PeakIsHighest ==
  /\ seen = {} => peak = 0
  /\ seen # {} => peak \in seen /\ \A e \in seen : e <= peak

(* Every step keeps the peak the highest of the equities met.              *)
LEMMA PeakKept ==
  ASSUME TypeOK, PeakIsHighest, Asked
  PROVE  PeakIsHighest'
  <1>1. equity \in Nat \ {0} /\ peak \in Nat /\ seen \subseteq Nat
    BY AccountAssumption DEF TypeOK
  <1>2. peak' = PeakNow /\ seen' = seen \union {equity}
    BY DEF Asked
  <1>3. PeakNow \in {peak, equity} /\ peak <= PeakNow /\ equity <= PeakNow
    BY <1>1, HigherType DEF PeakNow
  <1>4. CASE seen = {}
    BY <1>1, <1>2, <1>3, <1>4 DEF PeakIsHighest
  <1>5. CASE seen # {}
    BY <1>1, <1>2, <1>3, <1>5 DEF PeakIsHighest
  <1> QED
    BY <1>4, <1>5

(* The peak is the highest equity a decision has met since the seed.       *)
LEMMA PeakInvariant == Spec => []PeakIsHighest
  <1>1. Init => PeakIsHighest
    BY DEF Init, PeakIsHighest
  <1>2. TypeOK /\ PeakIsHighest /\ [Next]_vars => PeakIsHighest'
    <2> SUFFICES ASSUME TypeOK, PeakIsHighest, [Next]_vars
                 PROVE  PeakIsHighest'
      OBVIOUS
    <2>1. CASE UNCHANGED <<peak, seen>>
      BY <2>1 DEF PeakIsHighest
    <2>2. CASE Asked
      BY <2>2, PeakKept
    <2>3. ASSUME NEW seed \in Equities \union {0}, Rebuild(seed)
          PROVE  PeakIsHighest'
      <3>1. seed \in Nat
        BY AccountAssumption
      <3> QED
        BY <2>3, <3>1 DEF Rebuild, Fresh, PeakIsHighest
    <2>4. ASSUME NEW s \in Symbols, NEW q, NEW fits \in BOOLEAN, SubmitOpen(s, q, fits)
          PROVE  Asked
      BY <2>4 DEF SubmitOpen, AsksKill, PortfolioRejects, DailyLossHalts, LimitRejects, Opens
    <2>5. ASSUME NEW s \in Symbols, NEW side \in Sides, NEW lost \in BOOLEAN,
                 SubmitClose(s, side, lost)
          PROVE  Asked
      BY <2>5 DEF SubmitClose, AsksKill
    <2>6. ASSUME NEW e \in Equities, NEW s \in Symbols, NEW n \in Notionals,
                 Market(e, s, n) \/ Hour \/ UNCHANGED vars
          PROVE  UNCHANGED <<peak, seen>>
      BY <2>6 DEF Market, Hour, riskState, history, vars
    <2>7. CASE UNCHANGED vars \/ Hour
      BY <2>7, <2>1 DEF Hour, riskState, history, vars
    <2> QED
      BY <2>1, <2>2, <2>3, <2>4, <2>5, <2>6, <2>7 DEF Next, Rearm, Restart
  <1> QED
    BY <1>1, <1>2, WallTypeCorrect, PTL DEF Spec

(* What has fallen from one base has fallen from every higher one.         *)
LEMMA FallenMonotone ==
  ASSUME NEW pct \in 0 .. 100, NEW x \in Nat, NEW low \in Nat, NEW high \in Nat,
         low <= high, FallenBy(pct, x, low)
  PROVE  FallenBy(pct, x, high)
  <1> DEFINE kept == 100 - pct
  <1>1. kept \in Nat
    OBVIOUS
  <1>2. kept * low <= kept * high
    <2> HIDE DEF kept
    <2>1. high = low + (high - low) /\ high - low \in Nat
      OBVIOUS
    <2>2. kept * (high - low) \in Nat
      BY <1>1, <2>1
    <2>3. kept * high = kept * low + kept * (high - low)
      BY <1>1, <2>1
    <2> QED
      BY <1>1, <2>2, <2>3
  <1>3. kept * low \in Int /\ kept * high \in Int
    BY <1>1
  <1>4. 100 * x <= kept * low
    BY DEF FallenBy
  <1> HIDE DEF kept
  <1>5. 100 * x <= kept * high
    BY <1>2, <1>3, <1>4
  <1> QED
    BY <1>5 DEF FallenBy, kept

(* The kill switch is asked for exactly when some equity met since the     *)
(* wall was built, or its seed, stands a ceiling above the equity of the   *)
(* decision (risk.py:184-203, limits.py:96-113).                          *)
THEOREM KillIsExact == Spec => KillExactlyAtDrawdown
  <1> DEFINE Deep(e) == \/ FallenBy(PortfolioDrawdownPct, equity, e)
                        \/ FallenBy(DrawdownPct, equity, e)
  <1>1. TypeOK /\ PeakIsHighest /\ [Next]_vars =>
          [verdict' # "none" =>
             (verdict' = "kill" <=>
                \E e \in seen' : \/ FallenBy(PortfolioDrawdownPct, equity, e)
                                \/ FallenBy(DrawdownPct, equity, e))]_vars
    <2> SUFFICES ASSUME TypeOK, PeakIsHighest, Next, verdict' # "none"
                 PROVE  verdict' = "kill" <=> \E e \in seen' : Deep(e)
      OBVIOUS
    <2>1. Asked /\ (verdict' = "kill" <=> Drawdown)
      <3>1. ASSUME NEW s \in Symbols, NEW q, NEW fits \in BOOLEAN, SubmitOpen(s, q, fits)
            PROVE  Asked /\ (verdict' = "kill" <=> Drawdown)
        BY <3>1 DEF SubmitOpen, AsksKill, PortfolioRejects, DailyLossHalts, LimitRejects,
                    Opens, Rejects
      <3>2. ASSUME NEW s \in Symbols, NEW side \in Sides, NEW lost \in BOOLEAN,
                   SubmitClose(s, side, lost)
            PROVE  Asked /\ (verdict' = "kill" <=> Drawdown)
        BY <3>2 DEF SubmitClose, AsksKill, Rejects
      <3> QED
        BY <3>1, <3>2 DEF Next, Market, Hour, Rearm, Restart, Rebuild
    <2>2. PeakIsHighest'
      BY <2>1, PeakKept
    <2>3. /\ peak' = PeakNow /\ equity \in seen'
          /\ seen' \subseteq Nat /\ equity \in Nat
      BY <2>1, AskedType, AccountAssumption DEF Asked, TypeOK
    <2>4. peak' \in seen' /\ \A e \in seen' : e <= peak'
      BY <2>2, <2>3 DEF PeakIsHighest
    <2>5. Drawdown <=> Deep(peak')
      BY <2>3 DEF Drawdown
    <2>6. ASSUME NEW e \in seen', Deep(e)
          PROVE  Deep(peak')
      BY <2>3, <2>4, <2>6, FallenMonotone, LimitsAssumption
    <2> QED
      BY <2>1, <2>4, <2>5, <2>6
  <1> QED
    BY <1>1, WallTypeCorrect, PeakInvariant, PTL DEF Spec, KillExactlyAtDrawdown
-----------------------------------------------------------------------------
(* The daily halt: once reported, it is in the state until a restart.      *)
HaltRecorded == lossDay["strategy"] = haltedDay

(* After the wall has reported its daily loss nothing opens for the rest   *)
(* of that day (risk.py:219-233).                                          *)
THEOREM HaltIsHeld == Spec => HaltHolds
  <1>1. Init => HaltRecorded
    BY DEF Init, HaltRecorded, Limits
  <1>2. TypeOK /\ HaltRecorded /\ [Next]_vars => HaltRecorded'
    <2> SUFFICES ASSUME TypeOK, HaltRecorded, [Next]_vars
                 PROVE  HaltRecorded'
      OBVIOUS
    <2>1. CASE UNCHANGED <<lossDay, haltedDay>>
      BY <2>1 DEF HaltRecorded
    <2>2. ASSUME NEW s \in Symbols, NEW q, NEW fits \in BOOLEAN, SubmitOpen(s, q, fits)
          PROVE  HaltRecorded'
      BY <2>2 DEF SubmitOpen, AsksKill, PortfolioRejects, DailyLossHalts, LimitRejects, Opens,
                  HaltRecorded, TypeOK, Limits
    <2>3. ASSUME NEW s \in Symbols, NEW side \in Sides, NEW lost \in BOOLEAN,
                 SubmitClose(s, side, lost)
          PROVE  UNCHANGED <<lossDay, haltedDay>>
      BY <2>3 DEF SubmitClose, AsksKill
    <2>4. ASSUME NEW seed \in Equities \union {0}, Rebuild(seed)
          PROVE  HaltRecorded'
      BY <2>4 DEF Rebuild, Fresh, HaltRecorded, Limits
    <2>5. ASSUME NEW e \in Equities, NEW s \in Symbols, NEW n \in Notionals, Market(e, s, n)
          PROVE  UNCHANGED <<lossDay, haltedDay>>
      BY <2>5 DEF Market, riskState, history
    <2>6. CASE Hour \/ UNCHANGED vars
      BY <2>6, <2>1 DEF Hour, riskState, history, vars
    <2> QED
      BY <2>1, <2>2, <2>3, <2>4, <2>5, <2>6 DEF Next, Rearm, Restart
  <1>3. HaltRecorded /\ [Next]_vars => [verdict' = "opened" => lossDay["strategy"] # Today]_vars
    <2> SUFFICES ASSUME HaltRecorded, Next, verdict' = "opened"
                 PROVE  haltedDay # Today
      BY DEF HaltRecorded
    <2>1. PICK s, q : Opens(s, q)
      BY DEF Next, SubmitOpen, SubmitClose, Market, Hour, Rearm, Restart, Rebuild, AsksKill,
             PortfolioRejects, DailyLossHalts, LimitRejects, Rejects
    <2> QED
      BY <2>1 DEF Opens, WallPasses, Halted
  <1> QED
    BY <1>1, <1>2, <1>3, WallTypeCorrect, PTL DEF Spec, HaltHolds
-----------------------------------------------------------------------------
(* Division with a rest: the rest is unique, and counts up to the divisor. *)
LEMMA QuotientUnique ==
  ASSUME NEW n \in Nat \ {0}, NEW q \in Int, NEW r \in 0 .. n - 1,
         NEW p \in Int, NEW t \in 0 .. n - 1, n * q + r = n * p + t
  PROVE  r = t
  <1>1. CASE q < p
    <2>1. p = q + (p - q) /\ p - q >= 1 /\ p - q \in Int
      BY <1>1
    <2>2. n * (p - q) >= n /\ n * (p - q) \in Int
      BY <2>1
    <2>3. n * p = n * q + n * (p - q)
      BY <2>1
    <2> QED BY <2>2, <2>3
  <1>2. CASE p < q
    <2>1. q = p + (q - p) /\ q - p >= 1 /\ q - p \in Int
      BY <1>2
    <2>2. n * (q - p) >= n /\ n * (q - p) \in Int
      BY <2>1
    <2>3. n * q = n * p + n * (q - p)
      BY <2>1
    <2> QED BY <2>2, <2>3
  <1>3. CASE p = q
    BY <1>3
  <1> QED BY <1>1, <1>2, <1>3

(* What a quotient leaves over is below the divisor.                       *)
LEMMA DivisionRest ==
  ASSUME NEW n \in Nat \ {0}, NEW k \in Nat
  PROVE /\ k % n \in 0 .. n-1 /\ k \div n \in Nat
        /\ k = n * (k \div n) + (k % n)
  OBVIOUS

(* The rest of the next number is one more, or zero.                       *)
LEMMA NextRest ==
  ASSUME NEW n \in Nat \ {0}, NEW k \in Nat
  PROVE  (k + 1) % n = IF (k % n) + 1 >= n THEN 0 ELSE (k % n) + 1
  <1> DEFINE q == k \div n
             r == k % n
             p == (k + 1) \div n
             t == (k + 1) % n
  <1>1. r \in 0 .. n - 1 /\ q \in Nat /\ k = n * q + r
    BY DivisionRest
  <1>2. t \in 0 .. n - 1 /\ p \in Nat /\ k + 1 = n * p + t
    <2> DEFINE m == k + 1
    <2>1. m \in Nat
      OBVIOUS
    <2> HIDE DEF m
    <2>2. m % n \in 0 .. n - 1 /\ m \div n \in Nat /\ m = n * (m \div n) + (m % n)
      BY <2>1, DivisionRest
    <2> QED BY <2>2 DEF m
  <1> HIDE DEF q, r, p, t
  <1>3. CASE r + 1 >= n
    <2>1. k + 1 = n * (q + 1) + 0
      <3>1. n * (q + 1) = n * q + n
        BY <1>1
      <3> QED BY <3>1, <1>1, <1>3
    <2>2. t = 0
      BY <2>1, <1>1, <1>2, QuotientUnique
    <2> QED BY <2>2, <1>3 DEF r, t
  <1>4. CASE r + 1 < n
    <2>1. k + 1 = n * q + (r + 1) /\ r + 1 \in 0 .. n - 1
      BY <1>1, <1>4
    <2>2. t = r + 1
      BY <2>1, <1>1, <1>2, QuotientUnique
    <2> QED BY <2>2, <1>4, <1>1 DEF r, t
  <1> QED BY <1>3, <1>4, <1>1

(* The streak the wall counts is the streak of losses since it was built,  *)
(* up to the length that arms a cooldown.                                  *)
StreakCounted == losses = streak % LossStreak /\ cooldownUntil = coolEnd

(* Every step keeps the counter of losses the rest of the streak.          *)
LEMMA StreakKept ==
  ASSUME TypeOK, StreakCounted, NEW lost \in BOOLEAN, RegisterTradeResult(lost)
  PROVE  StreakCounted'
  <1> DEFINE n == LossStreak
  <1>1. n \in Nat \ {0} /\ streak \in Nat
    BY LimitsAssumption DEF TypeOK
  <1>2. (streak + 1) % n = IF (streak % n) + 1 >= n THEN 0 ELSE (streak % n) + 1
    <2> HIDE DEF n
    <2> QED BY <1>1, NextRest
  <1>3. 0 % n = 0
    <2> HIDE DEF n
    <2> QED BY <1>1
  <1> QED
    BY <1>1, <1>2, <1>3 DEF RegisterTradeResult, LossesAfter, Armed, StreakCounted, TypeOK

(* Every LossStreak losses in a row, nothing opens for CooldownHours       *)
(* (risk.py:235-241, 292-300).                                             *)
THEOREM CooldownIsHeld == Spec => CooldownHolds
  <1>1. Init => StreakCounted
    <2> DEFINE n == LossStreak
    <2>1. n \in Nat \ {0}
      BY LimitsAssumption
    <2> HIDE DEF n
    <2>2. 0 % n = 0
      BY <2>1
    <2> QED
      BY <2>2 DEF Init, StreakCounted, n
  <1>2. TypeOK /\ StreakCounted /\ [Next]_vars => StreakCounted'
    <2> SUFFICES ASSUME TypeOK, StreakCounted, [Next]_vars
                 PROVE  StreakCounted'
      OBVIOUS
    <2>1. CASE UNCHANGED <<losses, cooldownUntil, streak, coolEnd>>
      BY <2>1 DEF StreakCounted
    <2>2. ASSUME NEW s \in Symbols, NEW q, NEW fits \in BOOLEAN, SubmitOpen(s, q, fits)
          PROVE  UNCHANGED <<losses, cooldownUntil, streak, coolEnd>>
      BY <2>2 DEF SubmitOpen, AsksKill, PortfolioRejects, DailyLossHalts, LimitRejects, Opens,
                  Rejects
    <2>3. ASSUME NEW s \in Symbols, NEW side \in Sides, NEW lost \in BOOLEAN,
                 SubmitClose(s, side, lost)
          PROVE  StreakCounted'
      BY <2>1, <2>3, StreakKept DEF SubmitClose, AsksKill, Rejects
    <2>4. ASSUME NEW seed \in Equities \union {0}, Rebuild(seed)
          PROVE  StreakCounted'
      <3> DEFINE n == LossStreak
      <3>1. n \in Nat \ {0}
        BY LimitsAssumption
      <3> HIDE DEF n
      <3>2. 0 % n = 0
        BY <3>1
      <3> QED
        BY <2>4, <3>2 DEF Rebuild, Fresh, StreakCounted, n
    <2>5. ASSUME NEW e \in Equities, NEW s \in Symbols, NEW n \in Notionals, Market(e, s, n)
          PROVE  UNCHANGED <<losses, cooldownUntil, streak, coolEnd>>
      BY <2>5 DEF Market, riskState, history
    <2>6. CASE Hour \/ UNCHANGED vars
      BY <2>6, <2>1 DEF Hour, riskState, history, vars
    <2> QED
      BY <2>1, <2>2, <2>3, <2>4, <2>5, <2>6 DEF Next, Rearm, Restart
  <1>3. TypeOK /\ StreakCounted /\ [Next]_vars => [verdict' = "opened" => now >= coolEnd]_vars
    <2> SUFFICES ASSUME TypeOK, StreakCounted, Next, verdict' = "opened"
                 PROVE  now >= coolEnd
      OBVIOUS
    <2>1. PICK s, q : Opens(s, q)
      BY DEF Next, SubmitOpen, SubmitClose, Market, Hour, Rearm, Restart, Rebuild, AsksKill,
             PortfolioRejects, DailyLossHalts, LimitRejects, Rejects
    <2>2. now \in Nat /\ coolEnd \in Nat
      BY BoundsAssumption DEF TypeOK
    <2> QED
      BY <2>1, <2>2 DEF Opens, WallPasses, Cooling, StreakCounted
  <1> QED
    BY <1>1, <1>2, <1>3, WallTypeCorrect, PTL DEF Spec, CooldownHolds
-----------------------------------------------------------------------------
(* The portfolio's ceilings after a fill: gross and net exposure are sums  *)
(* over the symbols, of which an order moves one summand.                  *)
Longs(p) == [s \in Symbols |-> IF p[s] > 0 THEN p[s] ELSE 0]
Shorts(p) == [s \in Symbols |-> IF p[s] < 0 THEN -p[s] ELSE 0]

(* The long exposure of the positions p is the total of their long sides.  *)
LEMMA LongTotal ==
  ASSUME NEW p
  PROVE  MapThenSumSet(LAMBDA s : IF p[s] > 0 THEN p[s] ELSE 0, Symbols) = Total(Longs(p), Symbols)
  <1> DEFINE Step(f, s) ==
               IF s = {} THEN 0
               ELSE (IF p[AnyOf(s)] > 0 THEN p[AnyOf(s)] ELSE 0) + f[RestOf(s)]
             Is(f) == f = [s \in SUBSET Symbols |-> Step(f, s)]
             c == CHOOSE f : Is(f)
  <1>1. MapThenSumSet(LAMBDA s : IF p[s] > 0 THEN p[s] ELSE 0, Symbols) = c[Symbols]
    BY DEF MapThenSumSet, MapThenFoldSet, RestOf, AnyOf
  <1>2. \A f : \A s \in SUBSET Symbols : Step(f, s) = SumStep(f, Longs(p), s)
    BY AnyOfIn DEF SumStep, Longs
  <1>3. \A f : Is(f) <=> IsSum(f, Longs(p), Symbols)
    BY <1>2 DEF IsSum
  <1>4. \E f : Is(f)
    <2>1. \E f : IsSum(f, Longs(p), Symbols)
      BY AccountAssumption, SumExists
    <2> QED BY <1>3, <2>1
  <1> HIDE DEF Is
  <1>5. Is(c)
    BY <1>4
  <1> HIDE DEF c
  <1> QED
    BY <1>1, <1>3, <1>5, AccountAssumption, TotalIsSum

(* The short exposure, likewise.                                           *)
LEMMA ShortTotal ==
  ASSUME NEW p
  PROVE  MapThenSumSet(LAMBDA s : IF p[s] < 0 THEN -p[s] ELSE 0, Symbols) = Total(Shorts(p), Symbols)
  <1> DEFINE Step(f, s) ==
               IF s = {} THEN 0
               ELSE (IF p[AnyOf(s)] < 0 THEN -p[AnyOf(s)] ELSE 0) + f[RestOf(s)]
             Is(f) == f = [s \in SUBSET Symbols |-> Step(f, s)]
             c == CHOOSE f : Is(f)
  <1>1. MapThenSumSet(LAMBDA s : IF p[s] < 0 THEN -p[s] ELSE 0, Symbols) = c[Symbols]
    BY DEF MapThenSumSet, MapThenFoldSet, RestOf, AnyOf
  <1>2. \A f : \A s \in SUBSET Symbols : Step(f, s) = SumStep(f, Shorts(p), s)
    BY AnyOfIn DEF SumStep, Shorts
  <1>3. \A f : Is(f) <=> IsSum(f, Shorts(p), Symbols)
    BY <1>2 DEF IsSum
  <1>4. \E f : Is(f)
    <2>1. \E f : IsSum(f, Shorts(p), Symbols)
      BY AccountAssumption, SumExists
    <2> QED BY <1>3, <2>1
  <1> HIDE DEF Is
  <1>5. Is(c)
    BY <1>4
  <1> HIDE DEF c
  <1> QED
    BY <1>1, <1>3, <1>5, AccountAssumption, TotalIsSum

(* Gross and net exposure, before and after a step.                        *)
LEMMA Exposures ==
  /\ Gross = Total(Longs(pos), Symbols) + Total(Shorts(pos), Symbols)
  /\ Net = Total(Longs(pos), Symbols) - Total(Shorts(pos), Symbols)
  /\ Gross' = Total(Longs(pos'), Symbols) + Total(Shorts(pos'), Symbols)
  /\ Net' = Total(Longs(pos'), Symbols) - Total(Shorts(pos'), Symbols)
  BY LongTotal, ShortTotal
     DEF Gross, Net, Long, Short, MapThenSumSet, MapThenFoldSet

(* A fill of q moves the net exposure by q, and the gross by no more.      *)
LEMMA FillMovesExposure ==
  ASSUME TypeOK, NEW s \in Symbols, NEW q \in Int, pos' = [pos EXCEPT ![s] = @ + q]
  PROVE  /\ Gross \in Int /\ Net \in Int
         /\ Gross' \in Int /\ Gross' <= Gross + Abs(q)
         /\ Net' = Net + q
  <1>1. \A u \in Symbols : pos[u] \in Int /\ pos'[u] \in Int
    BY BoundsAssumption DEF TypeOK
  <1>2. pos'[s] = pos[s] + q /\ \A u \in Symbols \ {s} : pos'[u] = pos[u]
    BY DEF TypeOK
  <1>3. /\ \A u \in Symbols : Longs(pos)[u] \in Int /\ Longs(pos')[u] \in Int
        /\ \A u \in Symbols : Shorts(pos)[u] \in Int /\ Shorts(pos')[u] \in Int
        /\ \A u \in Symbols \ {s} : Longs(pos')[u] = Longs(pos)[u]
        /\ \A u \in Symbols \ {s} : Shorts(pos')[u] = Shorts(pos)[u]
    BY <1>1, <1>2 DEF Longs, Shorts
  <1> DEFINE long == Total(Longs(pos), Symbols)
             short == Total(Shorts(pos), Symbols)
             longAfter == Total(Longs(pos'), Symbols)
             shortAfter == Total(Shorts(pos'), Symbols)
  <1>4. /\ longAfter = long + (Longs(pos')[s] - Longs(pos)[s])
        /\ shortAfter = short + (Shorts(pos')[s] - Shorts(pos)[s])
    <2> DEFINE L == Longs(pos)
               M == Longs(pos')
               G == Shorts(pos)
               H == Shorts(pos')
    <2>1. /\ \A u \in Symbols : L[u] \in Int /\ M[u] \in Int /\ G[u] \in Int /\ H[u] \in Int
          /\ \A u \in Symbols \ {s} : M[u] = L[u] /\ H[u] = G[u]
      BY <1>3
    <2> HIDE DEF L, M, G, H
    <2>2. Total(M, Symbols) = Total(L, Symbols) + (M[s] - L[s])
      BY <2>1, AccountAssumption, TotalMoves
    <2>3. Total(H, Symbols) = Total(G, Symbols) + (H[s] - G[s])
      BY <2>1, AccountAssumption, TotalMoves
    <2> QED
      BY <2>2, <2>3 DEF L, M, G, H
  <1>5. long \in Int /\ short \in Int
    BY <1>3, AccountAssumption, TotalType
  <1>6. /\ Gross = long + short /\ Net = long - short
        /\ Gross' = longAfter + shortAfter /\ Net' = longAfter - shortAfter
    BY Exposures
  <1> HIDE DEF long, short, longAfter, shortAfter
  <1>7. /\ Longs(pos')[s] - Longs(pos)[s] = IF pos[s] + q > 0
              THEN (IF pos[s] > 0 THEN q ELSE pos[s] + q)
              ELSE (IF pos[s] > 0 THEN -pos[s] ELSE 0)
        /\ Shorts(pos')[s] - Shorts(pos)[s] = IF pos[s] + q < 0
              THEN (IF pos[s] < 0 THEN -q ELSE -(pos[s] + q))
              ELSE (IF pos[s] < 0 THEN pos[s] ELSE 0)
    BY <1>1, <1>2 DEF Longs, Shorts
  <1> QED
    BY <1>1, <1>4, <1>5, <1>6, <1>7 DEF Abs

(* Once filled and netted, an opening order leaves the account within the  *)
(* portfolio's ceilings, for any number of symbols (limits.py:138-171).    *)
THEOREM OpenedIsWithinPortfolio == Spec => OpenedWithinPortfolio
  <1>1. ASSUME TypeOK, Next, verdict' = "opened"
        PROVE  /\ \A u \in Symbols : pos'[u] # pos[u] => ~Over(SymbolPct, Abs(pos'[u]))
               /\ ~Over(GrossPct, Gross')
               /\ Over(DirectionPct, Abs(Net')) => Abs(Net') < Abs(Net)
    <2>1. PICK s \in Symbols, side \in Sides, lot \in Lots : Opens(s, side * lot)
      BY <1>1 DEF Next, SubmitOpen, SubmitClose, Market, Hour, Rearm, Restart, Rebuild, AsksKill,
                  PortfolioRejects, DailyLossHalts, LimitRejects, Rejects
    <2> DEFINE q == side * lot
    <2>2. q \in Int \ {0}
      BY AccountAssumption DEF Sides
    <2> HIDE DEF q
    <2>3. pos' = [pos EXCEPT ![s] = @ + q] /\ ~Exposed(s, q)
      BY <1>1, <2>1 DEF Opens, PortfolioPasses, q
    <2>4. /\ Gross \in Int /\ Net \in Int /\ Net' = Net + q
          /\ Gross' \in Int /\ Gross' <= Gross + Abs(q)
      BY <1>1, <2>2, <2>3, FillMovesExposure
    <2>5. equity \in Int /\ {SymbolPct, GrossPct, DirectionPct} \subseteq Nat
      BY <1>1, AccountAssumption, LimitsAssumption DEF TypeOK
    <2>6. ASSUME NEW u \in Symbols, pos'[u] # pos[u]
          PROVE  ~Over(SymbolPct, Abs(pos'[u]))
      <3>1. u = s /\ pos'[u] = pos[s] + q
        BY <1>1, <2>3, <2>6 DEF TypeOK
      <3> QED
        BY <2>3, <3>1 DEF Exposed
    <2>7. ~Over(GrossPct, Gross')
      <3>1. ~Over(GrossPct, Gross + Abs(q))
        BY <2>3 DEF Exposed
      <3>2. GrossPct * equity \in Int /\ Abs(q) \in Int
        BY <2>2, <2>5 DEF Abs
      <3> QED
        BY <2>4, <3>1, <3>2 DEF Over
    <2>8. ASSUME Over(DirectionPct, Abs(Net')) PROVE Abs(Net') < Abs(Net)
      <3>1. ~(q > 0 <=> Net + q >= 0)
        BY <2>3, <2>4, <2>8 DEF Exposed
      <3> QED
        BY <2>2, <2>4, <3>1 DEF Abs
    <2> QED
      BY <2>6, <2>7, <2>8
  <1>2. TypeOK /\ [Next]_vars =>
          [verdict' = "opened" =>
             /\ \A s \in Symbols : pos'[s] # pos[s] => ~Over(SymbolPct, Abs(pos'[s]))
             /\ ~Over(GrossPct, Gross')
             /\ Over(DirectionPct, Abs(Net')) => Abs(Net') < Abs(Net)]_vars
    BY <1>1
  <1> QED
    BY <1>2, WallTypeCorrect, PTL DEF Spec, OpenedWithinPortfolio
-----------------------------------------------------------------------------
(***************************************************************************)
(* The operators of Portfolio: netting, the attribution of a pnl, shares   *)
(* by inverse volatility and the correlation gate, for any finite set of   *)
(* strategies and legs.                                                    *)
(***************************************************************************)
Port == INSTANCE Portfolio

(* Any legs: two of them are told apart by strategy, side or notional.     *)
AreLegs(legs) ==
  /\ IsFiniteSet(legs)
  /\ \A l \in legs : l.side \in {1, -1} /\ l.notional \in Nat

Amounts(legs) == [l \in legs |-> l.side * l.notional]
Sizes(legs) == [l \in legs |-> l.notional]

(* Net and gross are sums over the legs.                                   *)
LEMMA NetTotal ==
  ASSUME NEW legs, IsFiniteSet(legs)
  PROVE  Port!Net(legs) = Total(Amounts(legs), legs)
  <1> DEFINE Step(f, s) ==
               IF s = {} THEN 0 ELSE AnyOf(s).side * AnyOf(s).notional + f[RestOf(s)]
             Is(f) == f = [s \in SUBSET legs |-> Step(f, s)]
             c == CHOOSE f : Is(f)
  <1>1. Port!Net(legs) = c[legs]
    BY DEF Port!Net, Port!Signed, Port!MapThenSumSet, Port!MapThenFoldSet, RestOf, AnyOf
  <1>2. \A f : \A s \in SUBSET legs : Step(f, s) = SumStep(f, Amounts(legs), s)
    BY AnyOfIn DEF SumStep, Amounts
  <1>3. \A f : Is(f) <=> IsSum(f, Amounts(legs), legs)
    BY <1>2 DEF IsSum
  <1>4. \E f : Is(f)
    <2>1. \E f : IsSum(f, Amounts(legs), legs)
      BY SumExists
    <2> QED BY <1>3, <2>1
  <1> HIDE DEF Is
  <1>5. Is(c)
    BY <1>4
  <1> HIDE DEF c
  <1> QED
    BY <1>1, <1>3, <1>5, TotalIsSum

(* The gross sum is the total of the sizes.                                *)
LEMMA GrossTotal ==
  ASSUME NEW legs, IsFiniteSet(legs)
  PROVE  Port!Gross(legs) = Total(Sizes(legs), legs)
  <1> DEFINE Step(f, s) ==
               IF s = {} THEN 0 ELSE AnyOf(s).notional + f[RestOf(s)]
             Is(f) == f = [s \in SUBSET legs |-> Step(f, s)]
             c == CHOOSE f : Is(f)
  <1>1. Port!Gross(legs) = c[legs]
    BY DEF Port!Gross, Port!MapThenSumSet, Port!MapThenFoldSet, RestOf, AnyOf
  <1>2. \A f : \A s \in SUBSET legs : Step(f, s) = SumStep(f, Sizes(legs), s)
    BY AnyOfIn DEF SumStep, Sizes
  <1>3. \A f : Is(f) <=> IsSum(f, Sizes(legs), legs)
    BY <1>2 DEF IsSum
  <1>4. \E f : Is(f)
    <2>1. \E f : IsSum(f, Sizes(legs), legs)
      BY SumExists
    <2> QED BY <1>3, <2>1
  <1> HIDE DEF Is
  <1>5. Is(c)
    BY <1>4
  <1> HIDE DEF c
  <1> QED
    BY <1>1, <1>3, <1>5, TotalIsSum

(* So is what some of the legs amount to.                                  *)
LEMMA AmountsInt ==
  ASSUME NEW legs, AreLegs(legs)
  PROVE  /\ \A l \in legs : Amounts(legs)[l] \in Int
         /\ \A part \in SUBSET legs : /\ Port!Net(part) = Total(Amounts(legs), part)
                                      /\ Port!Net(part) \in Int
  <1>1. \A l \in legs : Amounts(legs)[l] \in Int
    BY DEF AreLegs, Amounts
  <1>2. ASSUME NEW part \in SUBSET legs
        PROVE  Port!Net(part) = Total(Amounts(legs), part) /\ Port!Net(part) \in Int
    <2>1. IsFiniteSet(part) /\ IsFiniteSet(legs)
      BY FS_Subset DEF AreLegs
    <2>2. Port!Net(part) = Total(Amounts(part), part)
      BY <2>1, NetTotal
    <2>3. \A l \in part : Amounts(part)[l] = Amounts(legs)[l]
      BY DEF Amounts
    <2>4. Total(Amounts(part), part) = Total(Amounts(legs), part)
      BY <2>1, <2>3, TotalSame
    <2>5. Total(Amounts(legs), part) \in Int
      BY <1>1, <2>1, TotalType
    <2> QED BY <2>2, <2>4, <2>5
  <1> QED BY <1>1, <1>2

\* What is traded for a net position is never more than its legs would trade one by one,
\* and less as soon as one of them is on the other side (portfolio/netting.py).
THEOREM NettingSaves ==
  ASSUME NEW legs, AreLegs(legs)
  PROVE  LET net   == Port!Net(legs)
             gross == Port!Gross(legs)
         IN /\ net \in Int /\ gross \in Nat
            /\ net <= gross /\ -net <= gross
            /\ (\E l \in legs : l.side = -1 /\ l.notional > 0) => net < gross
            /\ (\E l \in legs : l.side = 1 /\ l.notional > 0) => -net < gross
  <1> DEFINE signed == Amounts(legs)
             whole  == Sizes(legs)
             minus  == [l \in legs |-> -(l.side * l.notional)]
             short  == [l \in legs |-> IF l.side = -1 THEN 2 * l.notional ELSE 0]
             long   == [l \in legs |-> IF l.side = 1 THEN 2 * l.notional ELSE 0]
  <1>1. \A l \in legs : /\ signed[l] \in Int /\ whole[l] \in Nat /\ minus[l] \in Int
                        /\ short[l] \in Nat /\ long[l] \in Nat
                        /\ whole[l] = signed[l] + short[l] /\ whole[l] = minus[l] + long[l]
                        /\ minus[l] = (-1) * signed[l]
                        /\ l.side = -1 => short[l] = 2 * l.notional
                        /\ l.side = 1 => long[l] = 2 * l.notional
    BY DEF AreLegs, Amounts, Sizes
  <1>2. IsFiniteSet(legs)
    BY DEF AreLegs
  <1>3. Port!Net(legs) = Total(signed, legs) /\ Port!Gross(legs) = Total(whole, legs)
    BY <1>2, NetTotal, GrossTotal
  <1> HIDE DEF signed, whole, minus, short, long
  <1>4. /\ Total(whole, legs) = Total(signed, legs) + Total(short, legs)
        /\ Total(whole, legs) = Total(minus, legs) + Total(long, legs)
    <2>1. Total(whole, legs) = Total(signed, legs) + Total(short, legs)
      BY <1>1, <1>2, TotalAdds
    <2>2. \A l \in legs : minus[l] \in Int /\ long[l] \in Int /\ whole[l] = minus[l] + long[l]
      BY <1>1
    <2>3. Total(whole, legs) = Total(minus, legs) + Total(long, legs)
      BY <1>2, <2>2, TotalAdds
    <2> QED BY <2>1, <2>3
  <1>5. Total(minus, legs) = (-1) * Total(signed, legs)
    BY <1>1, <1>2, TotalScaled
  <1>6. /\ Total(signed, legs) \in Int /\ Total(whole, legs) \in Nat
        /\ Total(short, legs) \in Nat /\ \A l \in legs : short[l] <= Total(short, legs)
        /\ Total(long, legs) \in Nat /\ \A l \in legs : long[l] <= Total(long, legs)
    <2>1. Total(signed, legs) \in Int
      BY <1>1, <1>2, TotalType
    <2> QED BY <1>1, <1>2, <2>1, TotalCovers
  <1>7. ASSUME NEW l \in legs, l.side = -1, l.notional > 0 PROVE Total(short, legs) > 0
    <2>1. short[l] = 2 * l.notional /\ l.notional \in Nat /\ short[l] <= Total(short, legs)
      BY <1>1, <1>6, <1>7 DEF AreLegs
    <2> QED BY <1>6, <1>7, <2>1
  <1>8. ASSUME NEW l \in legs, l.side = 1, l.notional > 0 PROVE Total(long, legs) > 0
    <2>1. long[l] = 2 * l.notional /\ l.notional \in Nat /\ long[l] <= Total(long, legs)
      BY <1>1, <1>6, <1>8 DEF AreLegs
    <2> QED BY <1>6, <1>8, <2>1
  <1> QED
    BY <1>3, <1>4, <1>5, <1>6, <1>7, <1>8

\* What the strategies hold of a symbol adds up to what is held net: no leg is counted for
\* two of them, and none for nobody.
THEOREM HoldingsAddUp ==
  ASSUME NEW legs, AreLegs(legs)
  PROVE  /\ IsFiniteSet(Port!Holders(legs))
         /\ \A s : Port!Held(legs, s) \in Int
         /\ Total([s \in Port!Holders(legs) |-> Port!Held(legs, s)], Port!Holders(legs)) = Port!Net(legs)
  <1> DEFINE label == [l \in legs |-> l.strategy]
             H == Port!Holders(legs)
  <1>1. IsFiniteSet(legs)
    BY DEF AreLegs
  <1>2. H = {label[l] : l \in legs}
    BY DEF Port!Holders
  <1>3. IsFiniteSet(H)
    <2>1. label \in Surjection(legs, H)
      <3>1. label \in [legs -> H]
        BY <1>2
      <3> QED BY <1>2, <3>1 DEF Surjection
    <2> HIDE DEF label, H
    <2> QED BY <1>1, <2>1, FS_Surjection
  <1>4. \A s : Port!Held(legs, s) = Total(Amounts(legs), {l \in legs : label[l] = s})
               /\ Port!Held(legs, s) \in Int
    <2> TAKE s
    <2>1. {l \in legs : label[l] = s} = {l \in legs : l.strategy = s}
      OBVIOUS
    <2>2. {l \in legs : l.strategy = s} \in SUBSET legs
      OBVIOUS
    <2> HIDE DEF label
    <2> QED BY <2>1, <2>2, AmountsInt DEF Port!Held
  <1>5. \A l \in legs : label[l] \in H
    BY <1>2
  <1> HIDE DEF H, label
  <1>6. Total([s \in H |-> Total(Amounts(legs), {l \in legs : label[l] = s})], H)
          = Total(Amounts(legs), legs)
    BY <1>1, <1>3, <1>5, AmountsInt, TotalByLabel
  <1>7. [s \in H |-> Port!Held(legs, s)] = [s \in H |-> Total(Amounts(legs), {l \in legs : label[l] = s})]
    BY <1>4
  <1>8. Port!Net(legs) = Total(Amounts(legs), legs)
    BY AmountsInt
  <1>9. Total([s \in H |-> Port!Held(legs, s)], H) = Port!Net(legs)
    BY <1>6, <1>7, <1>8
  <1> QED
    BY <1>3, <1>4, <1>9 DEF H

(* What is divided by when nothing is held net: all that is held.          *)
LEMMA HeldTotal ==
  ASSUME NEW legs, AreLegs(legs), Port!Net(legs) = 0
  PROVE  /\ Port!Denominator(legs) \in Nat
         /\ Port!Denominator(legs) = 0 => \A s \in Port!Holders(legs) : Port!Held(legs, s) = 0
  <1> DEFINE H == Port!Holders(legs)
             size == [s \in H |-> Port!Magnitude(Port!Held(legs, s))]
             Step(f, t) ==
               IF t = {} THEN 0 ELSE Port!Magnitude(Port!Held(legs, AnyOf(t))) + f[RestOf(t)]
             Is(f) == f = [t \in SUBSET H |-> Step(f, t)]
             c == CHOOSE f : Is(f)
  <1>1. IsFiniteSet(H) /\ \A s \in H : Port!Held(legs, s) \in Int
    BY HoldingsAddUp
  <1>2. Port!Denominator(legs) = c[H]
    BY DEF Port!Denominator, Port!MapThenSumSet, Port!MapThenFoldSet, RestOf, AnyOf
  <1>3. \A s \in H : size[s] \in Nat /\ (size[s] = 0 => Port!Held(legs, s) = 0)
    BY <1>1 DEF Port!Magnitude
  <1>4. \A f : \A t \in SUBSET H : Step(f, t) = SumStep(f, size, t)
    BY AnyOfIn DEF SumStep
  <1>5. \A f : Is(f) <=> IsSum(f, size, H)
    <2> HIDE DEF H, size, Step
    <2> QED BY <1>4 DEF IsSum
  <1> HIDE DEF H, size
  <1>6. \E f : Is(f)
    <2>1. \E f : IsSum(f, size, H)
      BY <1>1, SumExists
    <2> HIDE DEF Is
    <2> QED BY <1>5, <2>1
  <1> HIDE DEF Is
  <1>7. Is(c)
    BY <1>6
  <1> HIDE DEF c
  <1>8. c[H] = Total(size, H)
    BY <1>1, <1>5, <1>7, TotalIsSum
  <1>9. Total(size, H) \in Nat /\ \A s \in H : size[s] <= Total(size, H)
    BY <1>1, <1>3, TotalCovers
  <1> QED
    BY <1>2, <1>3, <1>8, <1>9 DEF H

\* The pnl of a shared close is handed out whole, to whichever side the net position is:
\* the shares of the strategies make it up, but for less than one unit each of rounding
\* down.  When the strategies hedge one another completely nothing is handed out, unless
\* each of them is flat, and then it is shared equally (portfolio/netting.py).
THEOREM PnlIsHandedOut ==
  ASSUME NEW legs, AreLegs(legs), legs # {}, NEW pnl \in Int
  PROVE  LET holders == Port!Holders(legs)
             shares  == Total(Port!AttributePnl(pnl, legs), holders)
             part    == IF Port!Net(legs) = 0 /\ Port!Denominator(legs) # 0 THEN 0 ELSE pnl
         IN part - Cardinality(holders) < shares /\ shares <= part
  <1> DEFINE H == Port!Holders(legs)
             n == Port!Net(legs)
             q == Port!Denominator(legs)
             k == Cardinality(H)
             part == IF n = 0 /\ q # 0 THEN 0 ELSE pnl
             held == [s \in H |-> Port!Held(legs, s)]
             handed == Port!AttributePnl(pnl, legs)
  <1>1. IsFiniteSet(H) /\ Total(held, H) = n /\ n \in Int
    BY HoldingsAddUp, AmountsInt
  <1>2. \A s \in H : held[s] \in Int
    BY HoldingsAddUp
  <1>3. q \in Int /\ (n # 0 => q = n)
    <2>1. CASE n # 0
      BY <1>1, <2>1 DEF Port!Denominator
    <2>2. CASE n = 0
      BY <2>2, HeldTotal
    <2> QED BY <2>1, <2>2
  <1>4. k \in Nat /\ k > 0
    <2>1. H # {}
      BY DEF Port!Holders
    <2> HIDE DEF H
    <2> QED BY <1>1, <2>1, FS_EmptySet, FS_CardinalityType
  (* One over d of dues that add up to d times the part.                   *)
  <1>5. ASSUME NEW d \in Int, d > 0, NEW due, \A s \in H : due[s] \in Int,
               Total(due, H) = d * part
        PROVE  LET shares == Total([s \in H |-> due[s] \div d], H)
               IN part - k < shares /\ shares <= part
    <2> DEFINE shares == Total([s \in H |-> due[s] \div d], H)
    <2>1. part \in Int
      BY <1>1
    <2> HIDE DEF H, part
    <2>2. /\ shares \in Int
          /\ d * shares <= d * part /\ d * part <= d * shares + (d - 1) * k
      BY <1>1, <1>5, SharesFallShort
    <2> HIDE DEF shares, k
    <2>3. shares <= part
      BY <1>5, <2>1, <2>2
    <2>4. part < shares + k
      <3>1. (d - 1) * k < d * k
        BY <1>4, <1>5
      <3>2. d * shares + d * k = d * (shares + k) /\ d * k \in Int /\ (d - 1) * k \in Int
            /\ d * part \in Int /\ d * shares \in Int
        BY <1>4, <1>5, <2>1, <2>2
      <3>3. d * part < d * (shares + k)
        BY <2>2, <3>1, <3>2
      <3> QED BY <1>4, <1>5, <2>1, <2>2, <3>3
    <2> QED BY <1>4, <2>1, <2>2, <2>3, <2>4 DEF shares
  <1>6. CASE q = 0
    <2> DEFINE due == [s \in H |-> pnl]
               one == [s \in H |-> 1]
    <2>1. handed = [s \in H |-> due[s] \div k]
      <3>1. Port!Cardinality(H) = k
        BY DEF Port!Cardinality, Cardinality
      <3> HIDE DEF k
      <3> QED BY <1>6, <3>1 DEF Port!AttributePnl
    <2>2. \A s \in H : due[s] \in Int /\ one[s] \in Int /\ one[s] = 1 /\ due[s] = pnl * one[s]
      OBVIOUS
    <2>3. part = pnl
      BY <1>6
    <2> HIDE DEF H, part, due, one, handed
    <2>4. Total(due, H) = pnl * Total(one, H)
      <3>1. \A s \in H : one[s] \in Int /\ due[s] = pnl * one[s]
        BY <2>2
      <3>2. IsFiniteSet(H) /\ H \in SUBSET H
        BY <1>1
      <3> HIDE DEF n, q, k
      <3> QED BY <3>1, <3>2, TotalScaled
    <2>5. Total(one, H) = k
      BY <1>1, <2>2, TotalOfOnes
    <2>6. Total(due, H) = k * part
      BY <1>4, <2>3, <2>4, <2>5
    <2> QED BY <1>4, <1>5, <2>1, <2>2, <2>6 DEF H, part, handed
  <1>7. CASE q # 0
    <2> DEFINE signed == IF q > 0 THEN pnl ELSE -pnl
               d == IF q > 0 THEN q ELSE -q
               due == [s \in H |-> signed * Port!Held(legs, s)]
    <2>1. handed = [s \in H |-> due[s] \div d]
      BY <1>3, <1>7 DEF Port!AttributePnl, Port!Magnitude
    <2>2. signed \in Int /\ d \in Int /\ d > 0
      BY <1>3, <1>7
    <2>3. \A s \in H : due[s] = signed * held[s]
      OBVIOUS
    <2>4. signed * n = d * part
      BY <1>1, <1>3, <1>7
    <2> HIDE DEF H, part, due, signed, d, held, handed
    <2>5. \A s \in H : due[s] \in Int
      BY <1>2, <2>2, <2>3
    <2>6. Total(due, H) = signed * Total(held, H)
      <3>1. \A s \in H : held[s] \in Int /\ due[s] = signed * held[s]
        BY <1>2, <2>3
      <3>2. IsFiniteSet(H) /\ H \in SUBSET H
        BY <1>1
      <3> HIDE DEF n, q, k
      <3> QED BY <2>2, <3>1, <3>2, TotalScaled
    <2>7. Total(due, H) = d * part
      BY <1>1, <2>4, <2>6
    <2> QED BY <1>5, <2>1, <2>2, <2>5, <2>7 DEF H, part, handed
  <1> QED
    BY <1>6, <1>7

(* The sum of a function's values.                                         *)
LEMMA SumFunctionTotal ==
  ASSUME NEW f
  PROVE  Port!SumFunction(f) = Total(f, DOMAIN f)
  BY DEF Port!SumFunction, Port!SumFunctionOnSet, Port!FoldFunctionOnSet, Port!MapThenFoldSet,
         Total, MapThenSumSet, MapThenFoldSet

\* Shares by inverse volatility are shares: none is negative, together they are no more than
\* the whole, and a calmer strategy never has less than a wilder one.
THEOREM SharesOfTheWhole ==
  ASSUME NEW S, IsFiniteSet(S), NEW vol \in [S -> Nat]
  PROVE  LET w == Port!InverseVol(vol)
         IN /\ \A s \in S : w[s] \in 0..100
            /\ Total(w, S) <= 100
            /\ \A s, t \in S : 0 < vol[s] /\ vol[s] <= vol[t] => w[t] <= w[s]
  <1> DEFINE w == Port!InverseVol(vol)
             inv == [s \in S |-> Port!OneOver(vol[s])]
             d == Total(inv, S)
             due == [s \in S |-> 100 * inv[s]]
  <1>1. \A s \in S : inv[s] \in Nat
    <2> TAKE s \in S
    <2>1. vol[s] \in Nat /\ (vol[s] > 0 => 1200 \div vol[s] \in Nat)
      OBVIOUS
    <2> QED BY <2>1 DEF Port!OneOver, Port!Unit
  <1>2. d \in Nat /\ \A s \in S : inv[s] <= d
    <2> HIDE DEF inv
    <2> QED BY <1>1, TotalCovers
  <1>3. w = [s \in S |-> IF d = 0 THEN 0 ELSE (100 * inv[s]) \div d]
    <2>1. DOMAIN vol = S /\ DOMAIN inv = S
      OBVIOUS
    <2>2. Port!SumFunction(inv) = d
      BY <2>1, SumFunctionTotal
    <2> QED BY <2>1, <2>2 DEF Port!InverseVol
  <1>4. CASE d = 0
    <2>1. \A s \in S : w[s] = 0
      BY <1>3, <1>4
    <2>2. Total(w, S) = 0
      <3> HIDE DEF w
      <3> QED BY <2>1, TotalOfZeros
    <2> QED BY <2>1, <2>2
  <1>5. CASE d > 0
    <2>1. w = [s \in S |-> due[s] \div d]
      BY <1>3, <1>5
    <2>2. \A s \in S : inv[s] \in Int /\ due[s] \in Nat /\ due[s] = 100 * inv[s] /\ due[s] <= 100 * d
      <3> TAKE s \in S
      <3>1. due[s] = 100 * inv[s] /\ inv[s] \in Nat /\ inv[s] <= d
        BY <1>1, <1>2
      <3> HIDE DEF due, inv, d
      <3> QED BY <1>2, <3>1
    <2> HIDE DEF due, d
    <2>3. Total(due, S) = 100 * d
      <3> HIDE DEF inv
      <3>1. Total(due, S) = 100 * Total(inv, S)
        BY <2>2, TotalScaled
      <3> QED BY <3>1 DEF d
    <2>4. Total(w, S) \in Int /\ d * Total(w, S) <= 100 * d
      BY <1>2, <1>5, <2>1, <2>2, <2>3, SharesFallShort
    <2>5. Total(w, S) <= 100
      BY <1>2, <1>5, <2>4
    <2>6. \A s \in S : w[s] = due[s] \div d /\ w[s] \in 0..100
      <3> TAKE s \in S
      <3>1. w[s] = due[s] \div d
        BY <2>1
      <3>2. w[s] \in Int /\ d * w[s] <= due[s] /\ due[s] < d * w[s] + d
        BY <1>2, <1>5, <2>2, <3>1, RoundedDown
      <3> DEFINE k == w[s]
      <3>3. k \in Int /\ d * k <= due[s] /\ due[s] < d * k + d /\ due[s] \in Nat /\ due[s] <= 100 * d
        BY <2>2, <3>2
      <3> HIDE DEF k
      <3>4. d * k <= d * 100 /\ 0 < d * (k + 1)
        BY <1>2, <3>3
      <3>5. k <= 100 /\ 0 <= k
        BY <1>2, <1>5, <3>3, <3>4
      <3> QED BY <3>1, <3>3, <3>5 DEF k
    <2>7. ASSUME NEW s \in S, NEW t \in S, 0 < vol[s], vol[s] <= vol[t]
          PROVE  w[t] <= w[s]
      <3>1. inv[s] = 1200 \div vol[s] /\ inv[t] = 1200 \div vol[t]
        BY <2>7 DEF Port!OneOver, Port!Unit
      <3>2. inv[t] <= inv[s]
        <4> DEFINE a == vol[s]
                   b == vol[t]
                   x == 1200 \div a
                   y == 1200 \div b
        <4>0. a \in Nat /\ b \in Nat /\ 0 < a /\ a <= b
          BY <2>7
        <4> HIDE DEF a, b
        <4>1. x \in Int /\ 1200 < a * x + a
          BY <4>0, RoundedDown
        <4>2. y \in Int /\ b * y <= 1200 /\ 1200 < b * y + b
          BY <4>0, RoundedDown
        <4> HIDE DEF x, y
        <4>3. y >= 0
          <5>1. 0 < b * (y + 1)
            BY <4>0, <4>2
          <5> QED BY <4>0, <4>2, <5>1
        <4>4. a * y <= b * y
          BY <4>0, <4>2, <4>3
        <4>5. a * y < a * (x + 1)
          <5>1. a * y \in Int /\ b * y \in Int /\ a * x \in Int /\ a * (x + 1) = a * x + a
            BY <4>0, <4>1, <4>2
          <5> QED BY <4>0, <4>1, <4>2, <4>4, <5>1
        <4>6. y < x + 1
          BY <4>0, <4>1, <4>2, <4>5
        <4>7. y <= x
          BY <4>1, <4>2, <4>6
        <4> QED BY <3>1, <4>7 DEF x, y, a, b
      <3>3. due[t] <= due[s]
        <4> HIDE DEF inv
        <4> QED BY <2>2, <3>2
      <3> DEFINE p == due[s] \div d
                 q == due[t] \div d
      <3>4. p \in Int /\ q \in Int /\ due[s] < d * p + d /\ d * q <= due[t]
        BY <1>2, <1>5, <2>2, RoundedDown
      <3> HIDE DEF p, q
      <3>5. d * q < d * (p + 1)
        BY <1>2, <2>2, <3>3, <3>4
      <3>6. q < p + 1
        BY <1>2, <1>5, <3>4, <3>5
      <3> QED BY <2>6, <3>4, <3>6 DEF p, q
    <2> QED BY <2>5, <2>6, <2>7
  <1> QED BY <1>2, <1>4, <1>5

\* The correlation gate never rewards correlation, and takes a perfect clone out.
THEOREM GateNeverRewards ==
  ASSUME NEW threshold \in 0..99, NEW rho \in Nat, NEW more \in Nat, rho <= more
  PROVE  /\ Port!GateFactor(rho, threshold) \in 0..100
         /\ Port!GateFactor(more, threshold) <= Port!GateFactor(rho, threshold)
         /\ more >= 100 => Port!GateFactor(more, threshold) = 0
  <1> DEFINE d == 100 - threshold
             F(r) == (100 * (100 - r)) \div d
  <1>1. d \in Nat /\ d > 0 /\ d <= 100
    OBVIOUS
  <1>2. ASSUME NEW r \in Nat, threshold < r, r < 100
        PROVE  F(r) \in Int /\ 0 <= F(r) /\ F(r) <= 100 /\ d * F(r) <= 100 * (100 - r)
               /\ 100 * (100 - r) < d * F(r) + d
    <2> DEFINE x == 100 * (100 - r)
    <2>1. x \in Int /\ 0 <= x /\ x <= 100 * d
      BY <1>2
    <2> HIDE DEF d
    <2>2. F(r) \in Int /\ d * F(r) <= x /\ x < d * F(r) + d
      BY <1>1, <2>1, RoundedDown
    <2> HIDE DEF x
    <2> DEFINE y == F(r)
    <2>3. y \in Int /\ d * y <= x /\ x < d * y + d
      BY <2>2
    <2> HIDE DEF y
    <2>4. 0 < d * (y + 1) /\ d * y <= 100 * d
      BY <1>1, <2>1, <2>3
    <2>5. 0 <= y /\ y <= 100
      BY <1>1, <2>3, <2>4
    <2> QED BY <2>3, <2>5 DEF x, y
  <1>3. \A r \in Nat : Port!GateFactor(r, threshold) =
          IF r <= threshold THEN 100 ELSE IF r >= 100 THEN 0 ELSE F(r)
    BY DEF Port!GateFactor
  <1>4. ASSUME threshold < rho, more < 100 PROVE F(more) <= F(rho)
    <2> DEFINE x == F(rho)
               y == F(more)
    <2>1. x \in Int /\ y \in Int /\ d * y <= 100 * (100 - more) /\ 100 * (100 - rho) < d * x + d
      BY <1>2, <1>4
    <2> HIDE DEF x, y, d
    <2>2. d * y < d * (x + 1)
      BY <1>1, <2>1
    <2>3. y < x + 1
      BY <1>1, <2>1, <2>2
    <2> QED BY <2>1, <2>3 DEF x, y
  <1> DEFINE G(r) == Port!GateFactor(r, threshold)
  <1> HIDE DEF F, G
  <1>5. \A r \in Nat : /\ r <= threshold => G(r) = 100
                       /\ threshold < r /\ r < 100 => G(r) = F(r) /\ G(r) \in 0..100
                       /\ r >= 100 => G(r) = 0
    <2> TAKE r \in Nat
    <2>1. G(r) = IF r <= threshold THEN 100 ELSE IF r >= 100 THEN 0 ELSE F(r)
      BY <1>3 DEF G
    <2>2. threshold < r /\ r < 100 => F(r) \in Int /\ 0 <= F(r) /\ F(r) <= 100
      BY <1>2
    <2> QED BY <2>1, <2>2
  <1>6. \A r \in Nat : G(r) \in 0..100
    BY <1>5
  <1>7. G(more) <= G(rho)
    <2>1. CASE rho <= threshold \/ more >= 100
      BY <1>5, <1>6, <2>1
    <2>2. CASE threshold < rho /\ more < 100
      BY <1>4, <1>5, <2>2
    <2> QED BY <2>1, <2>2
  <1> QED BY <1>5, <1>6, <1>7 DEF G
=============================================================================
