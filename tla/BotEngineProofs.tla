--------------------------- MODULE BotEngineProofs --------------------------
(***************************************************************************)
(* What holds of the trading loop for every set of strategies, versions,   *)
(* symbols and lots, and any number of bars, commands and faults.          *)
(***************************************************************************)
EXTENDS BotEngine, TLAPS

(* What the actions of the world, of the operator, of the kill switch and  *)
(* of the evaluations that send no order leave alone.                      *)
Quiet ==
  /\ UNCHANGED <<book, session, committed, unsaved, astray>>
  /\ loop' = "down" <=> loop = "down"
  /\ loop' # "tick" => loop # "tick"

(* A command touches the control plane only, and is counted.               *)
LEMMA ControlKeeps ==
  ASSUME Control
  PROVE  /\ UNCHANGED <<bar, rewound, loop, globalRead, listed, todo, killHandled, armed,
                        processed, acted, broken, book, session, paused, committed, faults,
                        unsaved, astray>>
         /\ controls < MaxControls /\ controls' = controls + 1
  BY DEF Control, SetGlobalMode, SetStrategyMode, AddVersion, Propose, Approve, Retire, Engage,
         Clear, GateMoves, Operate, operator, control, market, list, memory, tables, history

(* What it makes the watch of the switches remember.                       *)
LEMMA ControlWatch ==
  ASSUME TypeOK, Control
  PROVE  /\ wasLive' \subseteq Strategies \union {Global}
         /\ wasLive \subseteq wasLive'
  <1>1. CASE Watched
    BY <1>1 DEF Watched, LiveNow, TypeOK
  <1>2. CASE UNCHANGED wasLive
    BY <1>2 DEF TypeOK
  <1> QED
    BY <1>1, <1>2 DEF Control, SetGlobalMode, SetStrategyMode, AddVersion, Propose, Approve,
                      Retire, Engage, Clear, GateMoves

(* A command keeps the types.                                              *)
LEMMA ControlType ==
  ASSUME TypeOK, Control
  PROVE  TypeOK'
  <1>1. globalMode' \in Modes /\ engaged' \in BOOLEAN /\ gate' \in BOOLEAN
    BY DEF Control, SetGlobalMode, SetStrategyMode, AddVersion, Propose, Approve, Retire, Engage,
           Clear, GateMoves, Operate, operator, control, TypeOK
  <1>5. stratMode' \in [Strategies -> Modes]
    BY VersionsAssumption
    DEF Control, SetGlobalMode, SetStrategyMode, AddVersion, Propose, Approve, Retire, Engage,
        Clear, GateMoves, Operate, operator, control, TypeOK, Modes
  <1>2. active' \in [Strategies -> Versions]
    BY VersionsAssumption
    DEF Control, SetGlobalMode, SetStrategyMode, AddVersion, Propose, Approve, Retire, Engage,
        Clear, GateMoves, Operate, operator, control, TypeOK
  <1>3. status' \in [Versions -> Statuses]
    BY VersionsAssumption
    DEF Control, SetGlobalMode, SetStrategyMode, AddVersion, Propose, Approve, Retire, Engage,
        Clear, GateMoves, Operate, operator, control, TypeOK, Statuses
  <1>4. controls' \in 0 .. MaxControls
    BY ControlKeeps, BoundsAssumption DEF TypeOK
  <1> QED
    BY <1>1, <1>2, <1>3, <1>4, <1>5, ControlKeeps, ControlWatch DEF TypeOK

(* A commit keeps the types of the tables and of the history.              *)
LEMMA CommitType ==
  ASSUME TypeOK, Commit
  PROVE  /\ session' \subseteq Trades /\ committed' \subseteq Trades /\ paused' \subseteq Strategies
         /\ stratMode' \in [Strategies -> Modes]
         /\ unsaved' \subseteq Books \X Symbols /\ astray' \subseteq Books \X Symbols
  BY DEF TypeOK, Commit, Modes

(* So does a rollback.                                                     *)
LEMMA RollbackType ==
  ASSUME TypeOK, Rollback
  PROVE  /\ session' \subseteq Trades /\ committed' \subseteq Trades /\ paused' \subseteq Strategies
         /\ stratMode' \in [Strategies -> Modes]
         /\ unsaved' \subseteq Books \X Symbols /\ astray' \subseteq Books \X Symbols
  BY DEF TypeOK, Rollback

(* Starting the process, with or without rehydrate, keeps the types.       *)
LEMMA StartType ==
  ASSUME TypeOK, Start
  PROVE  TypeOK'
  <1>1. CASE Rehydrate
    <2>1. PICK net \in [Symbols -> UNION {Restorable(sym) : sym \in Symbols}] :
            /\ \A sym \in Symbols : net[sym] \in Restorable(sym)
            /\ book' = [book EXCEPT !["paper"] = net]
      BY <1>1 DEF Rehydrate
    <2>2. ASSUME NEW sym \in Symbols
          PROVE  Restorable(sym) \subseteq Int
      <3>1. \A t \in committed : t.side \in Int /\ t.qty \in Int
        BY DEF TypeOK, Trades, Sides
      <3>2. \A t \in committed : t.side * t.qty \in Int
        BY <3>1
      <3> QED
        BY <3>2 DEF Restorable
    <2>3. net \in [Symbols -> Int]
      BY <2>1, <2>2
    <2>4. book' \in [Books -> [Symbols -> Int]]
      BY <2>1, <2>3 DEF TypeOK, Books
    <2> QED
      BY <1>1, <2>4 DEF Start, Rehydrate, TypeOK, control, operator, market, list, memory, tables
  <1>2. CASE RehydrateFails
    BY <1>2 DEF Start, RehydrateFails, TypeOK, control, operator, market, list, memory, tables, Books, Trades
  <1> QED
    BY <1>1, <1>2 DEF Start

(* A crash keeps the types.                                                *)
LEMMA CrashType ==
  ASSUME TypeOK, Crash
  PROVE  TypeOK'
  <1>1. Rollback
    BY DEF Crash
  <1>2. book' \in [Books -> [Symbols -> Int]]
    BY DEF Crash, TypeOK, Books
  <1>3. processed' \in [Versions -> Nat] /\ faults' \in 0 .. MaxFaults
    BY BoundsAssumption DEF Crash, TypeOK
  <1> QED
    BY <1>1, <1>2, <1>3, RollbackType DEF Crash, TickOver, TypeOK, operator, Modes

(* Handling the kill switch between ticks keeps the types.                 *)
LEMMA KillType ==
  ASSUME TypeOK, KillSeen \/ KillSeenAndRefused
  PROVE  TypeOK'
  <1>1. HandleKill
    BY DEF KillSeen, KillSeenAndRefused
  <1>2. loop' \in Stages \union {"idle", "dead", "down"} /\ faults' \in 0 .. MaxFaults
    BY BoundsAssumption DEF KillSeen, KillSeenAndRefused, TypeOK
  <1> QED
    BY <1>1, <1>2 DEF HandleKill, TypeOK, control, operator, market, list, tables, history

(* The stages of a tick up to its list keep the types.                     *)
LEMMA ListType ==
  ASSUME TypeOK,
         TickBegin \/ CheckWall \/ ListStrategies \/ (\E i \in Items : ReadVersion(i))
  PROVE  TypeOK'
  <1>1. CASE TickBegin
    BY <1>1 DEF TickBegin, LiveNow, Stages, TypeOK, control, operator, market,
                tables, history
  <1>2. CASE CheckWall
    BY <1>2 DEF CheckWall, Stages, TypeOK, control, operator, market, list, tables, history
  <1>3. CASE ListStrategies
    BY <1>3 DEF ListStrategies, LoadActive, Stages, TypeOK, control, operator, market, memory,
                tables, history
  <1>4. ASSUME NEW i \in Items, ReadVersion(i)
        PROVE  TypeOK'
    BY <1>4 DEF ReadVersion, Takes, Stages, TypeOK, control, operator, market, memory, tables,
                history
  <1> QED
    BY <1>1, <1>2, <1>3, <1>4

(* The failure and the end of a tick keep the types.                       *)
LEMMA TickType ==
  ASSUME TypeOK, TickAborts \/ DbFails \/ TickEnd
  PROVE  TypeOK'
  <1>1. CASE TickAborts
    BY <1>1, BoundsAssumption
    DEF TickAborts, TickOver, Modes, TypeOK, control, operator, market, memory, tables, history
  <1>2. CASE DbFails
    BY <1>2, BoundsAssumption
    DEF DbFails, TypeOK, control, operator, market, list, memory, tables, history
  <1>3. CASE TickEnd
    BY <1>3, CommitType, RollbackType
    DEF TickEnd, TickOver, Modes, TypeOK, operator, market, memory
  <1> QED
    BY <1>1, <1>2, <1>3

(* A new bar and lost bars keep the types.                                 *)
LEMMA NewBarType ==
  ASSUME TypeOK, NEW sym \in Symbols, NewBar(sym)
  PROVE  TypeOK'
  BY DEF NewBar, TypeOK, control, operator, market, list, memory, tables, history

LEMMA BarsLostType ==
  ASSUME TypeOK, NEW sym \in Symbols, NEW last \in 1 .. bar[sym], BarsLost(sym, last)
  PROVE  TypeOK'
  <1>1. last \in Nat
    BY DEF TypeOK
  <1> QED
    BY <1>1, BoundsAssumption
    DEF BarsLost, TypeOK, control, operator, list, memory, tables, history
-----------------------------------------------------------------------------
(* The evaluations: what they do to the list and to the bars.              *)
LEMMA EvaluatingType ==
  ASSUME TypeOK, NEW i \in Items, Evaluating(i)
  PROVE  todo' \subseteq Items
  BY DEF Evaluating, TypeOK

(* Taking a bar keeps the list and the bars acted on well typed.           *)
LEMMA TakesBarType ==
  ASSUME TypeOK, NEW i \in Items, TakesBar(i)
  PROVE  /\ todo' \subseteq Items /\ processed' \in [Versions -> Nat]
         /\ acted' \subseteq Versions \X Nat
  <1>1. i.version \in Versions /\ SymbolOf[i.version] \in Symbols
    BY VersionsAssumption DEF Items
  <1>2. bar[SymbolOf[i.version]] \in Nat
    BY <1>1 DEF TypeOK
  <1> QED
    BY <1>1, <1>2, EvaluatingType DEF TakesBar, Mark, TypeOK

(* A fill keeps the books and the unsaved fills well typed.                *)
LEMMA FillType ==
  ASSUME TypeOK, NEW i \in Items, NEW q \in Int, Fill(i, q)
  PROVE  /\ book' \in [Books -> [Symbols -> Int]]
         /\ unsaved' \subseteq Books \X Symbols
  <1>1. i.book \in Books /\ SymbolOf[i.version] \in Symbols
    BY VersionsAssumption DEF Items
  <1> QED
    BY <1>1 DEF Fill, TypeOK

(* The row of an opening fill is a trade, and its fill is not zero.        *)
LEMMA NewTradeType ==
  ASSUME NEW i \in Items, NEW side \in Sides, NEW lot \in Lots
  PROVE  NewTrade(i, side, lot) \in Trades /\ side * lot \in Int /\ side * lot # 0
  <1>1. /\ i.book \in Books /\ i.version \in Versions
        /\ StrategyOf[i.version] \in Strategies /\ SymbolOf[i.version] \in Symbols
    BY VersionsAssumption DEF Items
  <1>2. lot \in Nat \ {0}
    BY LotsAssumption
  <1>3. NewTrade(i, side, lot) \in Trades
    BY <1>1, <1>2 DEF NewTrade, Trades
  <1> QED
    BY <1>2, <1>3 DEF Sides

(* A close trades a whole number.                                          *)
LEMMA CloseQtyType ==
  ASSUME TypeOK, NEW i \in Items, NEW t \in Trades
  PROVE  CloseQty(i, t) \in Int
  <1>1. book[i.book][t.symbol] \in Int /\ t.side \in Sides
    BY DEF TypeOK, Items, Trades
  <1> DEFINE held == book[i.book][t.symbol]
  <1> HIDE DEF held
  <1>2. -t.side * Abs(held) \in Int
    BY <1>1 DEF Abs, Sides, held
  <1> QED
    BY <1>2 DEF CloseQty, held

(* An opening order keeps the types.                                       *)
LEMMA OpenType ==
  ASSUME TypeOK, NEW i \in Items, NEW side \in Sides, NEW lot \in Lots, Open(i, side, lot)
  PROVE  TypeOK'
  <1>1. TakesBar(i) /\ Fill(i, side * lot)
    BY DEF Open, Acts
  <1>2. session' \subseteq Trades
    BY NewTradeType DEF Open, TypeOK
  <1> QED
    BY <1>1, <1>2, TakesBarType, FillType, NewTradeType
    DEF Open, Acts, TakesBar, Evaluating, TypeOK, control, operator, market

(* A closing order keeps the types.                                        *)
LEMMA CloseType ==
  ASSUME TypeOK, NEW i \in Items, Close(i)
  PROVE  TypeOK'
  <1>1. TakesBar(i)
    BY DEF Close, Acts
  <1>2. PICK t \in OpenTrade(session, i.book, StrategyOf[i.version], SymbolOf[i.version]) :
          Fill(i, CloseQty(i, t)) /\ session' = session \ {t}
    BY DEF Close
  <1>3. t \in Trades
    BY <1>2 DEF OpenTrade, TypeOK
  <1>4. book' \in [Books -> [Symbols -> Int]] /\ unsaved' \subseteq Books \X Symbols
    BY <1>2, <1>3, CloseQtyType, FillType
  <1>5. session' \subseteq Trades
    BY <1>2 DEF TypeOK
  <1>6. paused' \subseteq Strategies
    BY VersionsAssumption DEF Close, TypeOK, Items
  <1> QED
    BY <1>1, <1>4, <1>5, <1>6, TakesBarType
    DEF Close, Acts, TakesBar, Evaluating, TypeOK, control, operator, market

(* A fill whose row is refused keeps the types.                            *)
LEMMA UnrecordedType ==
  ASSUME TypeOK, NEW i \in Items, FillUnrecorded(i)
  PROVE  TypeOK'
  <1>1. TakesBar(i)
    BY DEF FillUnrecorded, Acts
  <1>2. PICK q \in Int : Fill(i, q)
    <2>1. CASE \E side \in Sides, lot \in Lots : Fill(i, side * lot)
      BY <2>1, NewTradeType
    <2>2. CASE \E t \in OpenTrade(session, i.book, StrategyOf[i.version], SymbolOf[i.version]) :
                 Fill(i, CloseQty(i, t))
      BY <2>2, CloseQtyType DEF OpenTrade, TypeOK
    <2> QED
      BY <2>1, <2>2 DEF FillUnrecorded
  <1>3. astray' \subseteq Books \X Symbols
    BY VersionsAssumption DEF FillUnrecorded, TypeOK, Items
  <1>4. faults' \in 0 .. MaxFaults
    BY BoundsAssumption DEF FillUnrecorded, TypeOK
  <1> QED
    BY <1>1, <1>2, <1>3, <1>4, TakesBarType, FillType
    DEF FillUnrecorded, Acts, TakesBar, Evaluating, TypeOK, control, operator, market, tables

(* A kill verdict of the wall keeps the types.                             *)
LEMMA VerdictType ==
  ASSUME TypeOK, NEW i \in Items, KillVerdict(i)
  PROVE  TypeOK'
  <1>1. TakesBar(i)
    BY DEF KillVerdict, Acts
  <1>2. /\ session' \subseteq Trades /\ committed' \subseteq Trades /\ paused' \subseteq Strategies
        /\ stratMode' \in [Strategies -> Modes]
        /\ unsaved' \subseteq Books \X Symbols /\ astray' \subseteq Books \X Symbols
    BY CommitType DEF KillVerdict, TypeOK, tables
  <1> QED
    BY <1>1, <1>2, TakesBarType
    DEF KillVerdict, Acts, TakesBar, Evaluating, TypeOK, market

(* So does one the database refuses.                                       *)
LEMMA VerdictRefusedType ==
  ASSUME TypeOK, NEW i \in Items, KillVerdictRefused(i)
  PROVE  TypeOK'
  <1>1. TakesBar(i)
    BY DEF KillVerdictRefused, Acts
  <1>2. /\ todo' \subseteq Items /\ processed' \in [Versions -> Nat]
        /\ acted' \subseteq Versions \X Nat /\ faults' \in 0 .. MaxFaults
    BY <1>1, TakesBarType, BoundsAssumption DEF KillVerdictRefused, TypeOK
  <1>3. killHandled' \in BOOLEAN
    BY DEF KillVerdictRefused, TypeOK
  <1> QED
    BY <1>1, <1>2, <1>3
    DEF KillVerdictRefused, Acts, TakesBar, Evaluating, TypeOK, control, market, tables, history

(* The evaluation of one strategy keeps the types.                         *)
LEMMA EvaluateType ==
  ASSUME TypeOK, NEW i \in Items, Evaluate(i)
  PROVE  TypeOK'
  <1>1. CASE Seen(i)
    BY <1>1, EvaluatingType
    DEF Seen, Evaluating, TypeOK, control, operator, market, memory, tables, history
  <1>2. CASE Hold(i)
    BY <1>2, TakesBarType
    DEF Hold, TakesBar, Evaluating, TypeOK, control, operator, market, tables, history
  <1>3. CASE Unreadable(i)
    BY <1>3, EvaluatingType, BoundsAssumption
    DEF Unreadable, Evaluating, TypeOK, control, operator, market, memory, tables, history
  <1> QED
    BY <1>1, <1>2, <1>3, OpenType, CloseType, UnrecordedType, VerdictType, VerdictRefusedType
    DEF Evaluate

(* Every variable keeps its type (engine.py:108-132).                      *)
THEOREM BotTypeCorrect == Spec => []TypeOK
  <1>1. Init => TypeOK
    <2> SUFFICES ASSUME Init
                 PROVE  TypeOK
      OBVIOUS
    <2>1. status \in [Versions -> Statuses]
      BY DEF Init, Statuses
    <2>2. book \in [Books -> [Symbols -> Int]]
      BY DEF Init
    <2>3. active \in [Strategies -> Versions] /\ stratMode \in [Strategies -> Modes]
      BY VersionsAssumption DEF Init
    <2>4. bar \in [Symbols -> Nat] /\ processed \in [Versions -> Nat]
      BY DEF Init
    <2>5. controls \in 0 .. MaxControls /\ faults \in 0 .. MaxFaults
      BY BoundsAssumption DEF Init
    <2>6. /\ globalMode \in Modes /\ engaged \in BOOLEAN /\ gate \in BOOLEAN
          /\ loop \in Stages \union {"idle", "dead", "down"} /\ globalRead \in Modes
          /\ killHandled \in BOOLEAN /\ armed \in BOOLEAN /\ broken \in BOOLEAN
      BY DEF Init, Modes
    <2>7. /\ listed \subseteq Items /\ todo \subseteq Items
          /\ session \subseteq Trades /\ committed \subseteq Trades
          /\ paused \subseteq Strategies
          /\ wasLive \subseteq Strategies \union {Global}
          /\ acted \subseteq Versions \X Nat /\ rewound \subseteq Symbols
          /\ unsaved \subseteq Books \X Symbols /\ astray \subseteq Books \X Symbols
      BY DEF Init
    <2> QED
      BY <2>1, <2>2, <2>3, <2>4, <2>5, <2>6, <2>7 DEF TypeOK
  <1>2. TypeOK /\ [Next]_vars => TypeOK'
    <2> SUFFICES ASSUME TypeOK, [Next]_vars
                 PROVE  TypeOK'
      OBVIOUS
    <2>1. CASE UNCHANGED vars
      BY <2>1 DEF vars, TypeOK
    <2> QED
      BY <2>1, NewBarType, BarsLostType, ControlType, StartType, CrashType, KillType, ListType,
         TickType, EvaluateType
      DEF Next
  <1> QED
    BY <1>1, <1>2, PTL DEF Spec
-----------------------------------------------------------------------------
(* The actions that send no order and end no transaction.                  *)
LEMMA QuietWorld ==
  /\ \A sym \in Symbols : NewBar(sym) => Quiet
  /\ \A sym \in Symbols : \A last \in 1 .. bar[sym] : BarsLost(sym, last) => Quiet
  /\ Control => Quiet
  /\ KillSeen => Quiet
  /\ KillSeenAndRefused => Quiet
  /\ UNCHANGED vars => Quiet
  <1>1. Control => Quiet
    BY ControlKeeps DEF Quiet
  <1>2. \A sym \in Symbols : NewBar(sym) => Quiet
    BY DEF NewBar, Quiet, tables, history
  <1>3. \A sym \in Symbols : \A last \in 1 .. bar[sym] : BarsLost(sym, last) => Quiet
    BY DEF BarsLost, Quiet, tables, history
  <1>4. KillSeen => Quiet
    BY DEF KillSeen, HandleKill, Quiet, tables, history
  <1>5. KillSeenAndRefused => Quiet
    BY DEF KillSeenAndRefused, HandleKill, Quiet, tables, history
  <1>6. UNCHANGED vars => Quiet
    BY DEF vars, Quiet
  <1> QED
    BY <1>1, <1>2, <1>3, <1>4, <1>5, <1>6

LEMMA QuietTick ==
  /\ TickBegin => Quiet
  /\ CheckWall => Quiet
  /\ ListStrategies => Quiet
  /\ TickAborts => Quiet
  /\ DbFails => Quiet
  /\ \A i \in Items : ReadVersion(i) \/ Unreadable(i) \/ Seen(i) \/ Hold(i) => Quiet
  /\ \A i \in Items : KillVerdictRefused(i) => Quiet
  <1>1. TickBegin => Quiet
    BY DEF TickBegin, Quiet, tables, history
  <1>2. CheckWall => Quiet
    BY DEF CheckWall, Quiet, tables, history
  <1>3. ListStrategies => Quiet
    BY DEF ListStrategies, Quiet, tables, history
  <1>4. TickAborts => Quiet
    BY DEF TickAborts, Quiet, tables, history
  <1>5. DbFails => Quiet
    BY DEF DbFails, Quiet, tables, history
  <1>6. \A i \in Items : ReadVersion(i) \/ Unreadable(i) \/ Seen(i) \/ Hold(i) => Quiet
    BY DEF ReadVersion, Unreadable, Seen, Hold, TakesBar, Evaluating, Quiet, tables, history
  <1>7. \A i \in Items : KillVerdictRefused(i) => Quiet
    BY DEF KillVerdictRefused, Acts, TakesBar, Evaluating, Quiet, tables, history
  <1> QED
    BY <1>1, <1>2, <1>3, <1>4, <1>5, <1>6, <1>7

(* The steps that matter to the books and to the tables.                   *)
Stirring ==
  \/ Start
  \/ Crash
  \/ TickEnd
  \/ \E i \in Items, side \in Sides, lot \in Lots : Open(i, side, lot)
  \/ \E i \in Items : Close(i) \/ FillUnrecorded(i) \/ KillVerdict(i)

(* A step is quiet, or one of the actions that touch books or tables.      *)
LEMMA QuietOrStirring == [Next]_vars => Quiet \/ Stirring
  BY QuietWorld, QuietTick DEF Next, Evaluate, Stirring
-----------------------------------------------------------------------------
(* One open trade.  A strategy opens when its transaction sees no open     *)
(* trade of its own, and what the database holds is always what some       *)
(* transaction saw.                                                        *)
Labels ==
  \A t \in session \union committed :
    t.strategy = StrategyOf[t.version] /\ t.symbol = SymbolOf[t.version]

TradesInv == OneOpenTrade /\ Labels

(* Every step keeps the two tables one trade per book, strategy and        *)
(* symbol.                                                                 *)
LEMMA TradesKept ==
  ASSUME TypeOK, TradesInv, [Next]_vars
  PROVE  TradesInv'
  <1>1. CASE session' \in {session, committed} /\ committed' \in {session, committed}
    BY <1>1 DEF TradesInv, OneOpenTrade, AtMostOne, Labels
  <1>2. CASE Quiet
    BY <1>1, <1>2 DEF Quiet
  <1>3. CASE Start \/ Crash \/ TickEnd
    BY <1>1, <1>3 DEF Start, Crash, TickEnd, Commit, Rollback, tables
  <1>4. ASSUME NEW i \in Items, NEW side \in Sides, NEW lot \in Lots, Open(i, side, lot)
        PROVE  TradesInv'
    <2> DEFINE new == NewTrade(i, side, lot)
    <2>1. session' = session \union {new} /\ committed' = committed
      BY <1>4 DEF Open
    <2>2. /\ new.strategy = StrategyOf[new.version] /\ new.symbol = SymbolOf[new.version]
          /\ new.book = i.book
      BY DEF NewTrade
    <2>3. \A t \in session :
            ~(t.book = new.book /\ t.strategy = new.strategy /\ t.symbol = new.symbol)
      BY <1>4 DEF Open, OpenTrade, NewTrade
    <2> HIDE DEF new
    <2> QED
      BY <2>1, <2>2, <2>3 DEF TradesInv, OneOpenTrade, AtMostOne, Labels
  <1>5. ASSUME NEW i \in Items, Close(i)
        PROVE  TradesInv'
    <2>1. session' \subseteq session /\ committed' = committed
      BY <1>5 DEF Close
    <2> QED
      BY <2>1 DEF TradesInv, OneOpenTrade, AtMostOne, Labels
  <1>6. ASSUME NEW i \in Items, FillUnrecorded(i) \/ KillVerdict(i)
        PROVE  TradesInv'
    BY <1>1, <1>6 DEF FillUnrecorded, KillVerdict, Commit, tables
  <1> QED
    BY <1>2, <1>3, <1>4, <1>5, <1>6, QuietOrStirring DEF Stirring

(* A strategy has at most one open trade per book and symbol               *)
(* (engine.py:497-505, 666-677).                                           *)
LEMMA TradesInvariant == Spec => []TradesInv
  <1>1. Init => TradesInv
    BY DEF Init, TradesInv, OneOpenTrade, AtMostOne, Labels
  <1> QED
    BY <1>1, TradesKept, BotTypeCorrect, PTL DEF Spec

(* A strategy has at most one open trade per book and symbol, in the       *)
(* database and in the transaction (engine.py:497-505, 666-676).           *)
THEOREM OneTradeOpen == Spec => []OneOpenTrade
  BY TradesInvariant, PTL DEF TradesInv
-----------------------------------------------------------------------------
(* The books and the trades.  A symbol without fills in the open           *)
(* transaction is the same for the transaction and for the database;       *)
(* outside a tick nothing is open; and a process that is down holds no     *)
(* paper position.                                                         *)
OnBook(T, b, sym) == {t \in T : t.book = b /\ t.symbol = sym}

Settled ==
  /\ \A b \in Books, sym \in Symbols :
       <<b, sym>> \notin unsaved => OnBook(session, b, sym) = OnBook(committed, b, sym)
  /\ loop # "tick" => unsaved = {}
  /\ loop = "down" => \A sym \in Symbols : book["paper"][sym] = 0

BooksInv == Settled /\ BooksMatchTrades

(* Every step keeps it that what is neither unsaved nor astray is          *)
(* committed.                                                              *)
LEMMA SettledKept ==
  ASSUME TypeOK, Settled, [Next]_vars
  PROVE  Settled'
  <1>1. CASE Quiet
    BY <1>1 DEF Quiet, Settled, OnBook
  <1>2. CASE Start
    BY <1>2 DEF Start, Settled, OnBook, tables
  <1>3. CASE Crash
    BY <1>3 DEF Crash, Rollback, Settled, OnBook, TypeOK, Books
  <1>4. CASE TickEnd
    BY <1>4 DEF TickEnd, Commit, Rollback, Settled, OnBook
  <1>5. ASSUME NEW i \in Items, NEW q, NEW t, Fill(i, q), UNCHANGED committed, loop' = "tick",
               t.book = i.book, t.symbol = SymbolOf[i.version],
               session' \in {session, session \union {t}, session \ {t}}
        PROVE  Settled'
    <2> SUFFICES ASSUME NEW b \in Books, NEW sym \in Symbols, <<b, sym>> \notin unsaved'
                 PROVE  OnBook(session, b, sym)' = OnBook(committed, b, sym)'
      BY <1>5 DEF Settled
    <2>1. <<b, sym>> \notin unsaved /\ ~(b = i.book /\ sym = SymbolOf[i.version])
      BY <1>5 DEF Fill
    <2>2. OnBook(session, b, sym)' = OnBook(session, b, sym)
      BY <1>5, <2>1 DEF OnBook
    <2> QED
      BY <1>5, <2>1, <2>2 DEF Settled, OnBook
  <1>6. ASSUME NEW i \in Items, NEW side \in Sides, NEW lot \in Lots, Open(i, side, lot)
        PROVE  Settled'
    <2>1. loop' = "tick"
      BY <1>6 DEF Open, Acts, TakesBar, Evaluating
    <2> DEFINE new == NewTrade(i, side, lot)
    <2>2. /\ Fill(i, side * lot) /\ committed' = committed
          /\ session' = session \union {new}
      BY <1>6 DEF Open
    <2>3. new.book = i.book /\ new.symbol = SymbolOf[i.version]
      BY DEF NewTrade
    <2> HIDE DEF new
    <2> QED
      BY <1>5, <2>1, <2>2, <2>3
  <1>7. ASSUME NEW i \in Items, Close(i)
        PROVE  Settled'
    <2>1. loop' = "tick"
      BY <1>7 DEF Close, Acts, TakesBar, Evaluating
    <2>2. PICK t \in OpenTrade(session, i.book, StrategyOf[i.version], SymbolOf[i.version]) :
            Fill(i, CloseQty(i, t)) /\ session' = session \ {t}
      BY <1>7 DEF Close
    <2> QED
      BY <1>5, <1>7, <2>1, <2>2 DEF Close, OpenTrade
  <1>8. ASSUME NEW i \in Items, FillUnrecorded(i)
        PROVE  Settled'
    <2>1. loop' = "tick" /\ session' = session /\ committed' = committed
      BY <1>8 DEF FillUnrecorded, Acts, TakesBar, Evaluating, tables
    <2>2. PICK q : Fill(i, q)
      BY <1>8 DEF FillUnrecorded
    <2>3. NewTrade(i, 1, 1).book = i.book /\ NewTrade(i, 1, 1).symbol = SymbolOf[i.version]
      BY DEF NewTrade
    <2> QED
      BY <1>5, <2>1, <2>2, <2>3
  <1>9. ASSUME NEW i \in Items, KillVerdict(i)
        PROVE  Settled'
    BY <1>9 DEF KillVerdict, Acts, TakesBar, Evaluating, Commit, tables, Settled, OnBook
  <1> QED
    BY <1>1, <1>2, <1>3, <1>4, <1>6, <1>7, <1>8, <1>9, QuietOrStirring DEF Stirring

(* BooksMatchTrades for one book and symbol.                               *)
Matches(b, sym) ==
  (Exclusive(sym) /\ <<b, sym>> \notin astray /\ (b = "paper" => loop # "down"))
    => Agree(session, b, sym)

(* Books and rows that agree still do when neither changes.                *)
LEMMA AgreeKept ==
  ASSUME NEW b \in Books, NEW sym \in Symbols,
         OnBook(session, b, sym)' = OnBook(session, b, sym),
         book'[b][sym] = book[b][sym], Agree(session, b, sym)
  PROVE  Agree(session, b, sym)'
  BY DEF Agree, OnBook

(* The trades of a symbol one strategy trades are one trade at most.       *)
LEMMA ExclusiveTrades ==
  ASSUME TypeOK, TradesInv, NEW T, T \in {session, committed}, NEW b \in Books,
         NEW sym \in Symbols, Exclusive(sym),
         NEW t \in OnBook(T, b, sym), NEW u \in OnBook(T, b, sym)
  PROVE  t = u
  <1>1. t \in T /\ u \in T /\ t \in Trades /\ u \in Trades
    BY DEF OnBook, TypeOK
  <1>2. t.version \in Versions /\ u.version \in Versions
    BY <1>1 DEF Trades
  <1>3. /\ t.strategy = StrategyOf[t.version] /\ SymbolOf[t.version] = sym
        /\ u.strategy = StrategyOf[u.version] /\ SymbolOf[u.version] = sym
    BY <1>1 DEF TradesInv, Labels, OnBook
  <1>4. t.strategy = u.strategy
    BY <1>2, <1>3 DEF Exclusive
  <1> QED
    BY <1>1, <1>4 DEF TradesInv, OneOpenTrade, AtMostOne, OnBook

(* A fill of another book or symbol.                                       *)
LEMMA FillElsewhere ==
  ASSUME TypeOK, NEW i \in Items, NEW q \in Int, Fill(i, q),
         NEW b \in Books, NEW sym \in Symbols, ~(b = i.book /\ sym = SymbolOf[i.version])
  PROVE  book'[b][sym] = book[b][sym]
  BY DEF Fill, TypeOK, Items

(* A fill changes the position of one book and symbol by its quantity.     *)
LEMMA FillHere ==
  ASSUME TypeOK, NEW i \in Items, NEW q \in Int, Fill(i, q)
  PROVE  book'[i.book][SymbolOf[i.version]] = book[i.book][SymbolOf[i.version]] + q
  BY VersionsAssumption DEF Fill, TypeOK, Items

(* An opening order keeps books and rows in agreement.                     *)
LEMMA OpenMatches ==
  ASSUME TypeOK, TradesInv, BooksMatchTrades,
         NEW i \in Items, NEW side \in Sides, NEW lot \in Lots, Open(i, side, lot)
  PROVE  BooksMatchTrades'
  <1> DEFINE new == NewTrade(i, side, lot)
             v == i.version
  <1>1. /\ Fill(i, side * lot) /\ session' = session \union {new} /\ UNCHANGED <<astray, loop>>
        /\ OpenTrade(session, i.book, StrategyOf[v], SymbolOf[v]) = {}
        /\ loop = "tick"
    BY DEF Open, Acts, TakesBar, Evaluating
  <1>2. side * lot \in Int /\ side * lot # 0
    BY NewTradeType
  <1>3. v \in Versions /\ i.book \in Books /\ SymbolOf[v] \in Symbols
    BY VersionsAssumption DEF Items
  <1>4. new.book = i.book /\ new.symbol = SymbolOf[v] /\ new.side = side /\ new.qty = lot
    BY DEF NewTrade
  <1> HIDE DEF new
  <1> SUFFICES ASSUME NEW b \in Books, NEW sym \in Symbols, Exclusive(sym),
                      <<b, sym>> \notin astray
               PROVE  Agree(session, b, sym)'
    BY <1>1 DEF BooksMatchTrades
  <1>5. Agree(session, b, sym)
    BY <1>1 DEF BooksMatchTrades
  <1>6. CASE b = i.book /\ sym = SymbolOf[v]
    <2>1. OnBook(session, b, sym) = {}
      <3> SUFFICES ASSUME NEW t \in OnBook(session, b, sym)
                   PROVE  FALSE
        OBVIOUS
      <3>1. t \in session /\ t.version \in Versions /\ t.symbol = sym /\ t.book = b
        BY DEF OnBook, TypeOK, Trades
      <3>2. t.strategy = StrategyOf[t.version] /\ SymbolOf[t.version] = sym
        BY <3>1 DEF TradesInv, Labels
      <3>3. t.strategy = StrategyOf[v]
        BY <3>1, <3>2, <1>3, <1>6 DEF Exclusive
      <3> QED
        BY <3>1, <3>3, <1>1, <1>6 DEF OpenTrade
    <2>2. book[b][sym] = 0
      BY <2>1, <1>5 DEF Agree, OnBook
    <2>3. OnBook(session, b, sym)' = {new}
      BY <1>1, <1>4, <1>6, <2>1 DEF OnBook
    <2>4. book'[b][sym] = side * lot
      BY <2>2, <1>1, <1>2, <1>6, FillHere
    <2> QED
      BY <2>3, <2>4, <1>4 DEF Agree, OnBook
  <1>7. CASE ~(b = i.book /\ sym = SymbolOf[v])
    <2>1. OnBook(session, b, sym)' = OnBook(session, b, sym)
      BY <1>1, <1>4, <1>7 DEF OnBook
    <2> QED
      BY <2>1, <1>1, <1>2, <1>5, <1>7, FillElsewhere, AgreeKept
  <1> QED
    BY <1>6, <1>7

(* Closing the only trade of a symbol leaves no position.                  *)
LEMMA CloseLeavesNone ==
  ASSUME NEW side \in Sides, NEW qty \in Nat
  PROVE  side * qty + (-side * Abs(side * qty)) = 0
  BY DEF Sides, Abs

(* A closing order does.                                                   *)
LEMMA CloseMatches ==
  ASSUME TypeOK, TradesInv, BooksMatchTrades, NEW i \in Items, Close(i)
  PROVE  BooksMatchTrades'
  <1> DEFINE v == i.version
  <1>1. UNCHANGED <<astray, loop>> /\ loop = "tick"
    BY DEF Close, Acts, TakesBar, Evaluating
  <1>2. PICK t \in OpenTrade(session, i.book, StrategyOf[v], SymbolOf[v]) :
          Fill(i, CloseQty(i, t)) /\ session' = session \ {t}
    BY DEF Close
  <1>3. /\ t \in session /\ t \in Trades /\ t.book = i.book /\ t.symbol = SymbolOf[v]
        /\ t.side \in Sides /\ t.qty \in Nat
    BY <1>2 DEF OpenTrade, TypeOK, Trades
  <1>4. CloseQty(i, t) \in Int
    BY <1>3, CloseQtyType
  <1> SUFFICES ASSUME NEW b \in Books, NEW sym \in Symbols, Exclusive(sym),
                      <<b, sym>> \notin astray
               PROVE  Agree(session, b, sym)'
    BY <1>1 DEF BooksMatchTrades
  <1>5. Agree(session, b, sym)
    BY <1>1 DEF BooksMatchTrades
  <1>6. CASE b = i.book /\ sym = SymbolOf[v]
    <2>1. OnBook(session, b, sym) = {t} /\ book[b][sym] = t.side * t.qty
      BY <1>3, <1>5, <1>6 DEF Agree, OnBook
    <2>2. OnBook(session, b, sym)' = {}
      BY <1>2, <2>1 DEF OnBook
    <2>3. book'[b][sym] = book[b][sym] + CloseQty(i, t)
      BY <1>2, <1>4, <1>6, FillHere
    <2>4. CloseQty(i, t) = -t.side * Abs(t.side * t.qty)
      BY <2>1, <1>3, <1>6 DEF CloseQty
    <2>5. book'[b][sym] = 0
      BY <2>1, <2>3, <2>4, <1>3, CloseLeavesNone
    <2> QED
      BY <2>2, <2>5 DEF Agree, OnBook
  <1>7. CASE ~(b = i.book /\ sym = SymbolOf[v])
    <2>1. OnBook(session, b, sym)' = OnBook(session, b, sym)
      BY <1>2, <1>3, <1>7 DEF OnBook
    <2> QED
      BY <2>1, <1>2, <1>4, <1>5, <1>7, FillElsewhere, AgreeKept
  <1> QED
    BY <1>6, <1>7

(* A fill whose row is refused parts them, and says so.                    *)
LEMMA UnrecordedMatches ==
  ASSUME TypeOK, BooksMatchTrades, NEW i \in Items, FillUnrecorded(i)
  PROVE  BooksMatchTrades'
  <1> DEFINE v == i.version
  <1>1. /\ loop = "tick" /\ loop' = "tick" /\ session' = session
        /\ astray' = astray \union {<<i.book, SymbolOf[v]>>}
    BY DEF FillUnrecorded, Acts, TakesBar, Evaluating, tables
  <1>2. PICK q \in Int : Fill(i, q)
    <2>1. CASE \E side \in Sides, lot \in Lots : Fill(i, side * lot)
      BY <2>1, NewTradeType
    <2>2. CASE \E t \in OpenTrade(session, i.book, StrategyOf[v], SymbolOf[v]) :
                 Fill(i, CloseQty(i, t))
      BY <2>2, CloseQtyType DEF OpenTrade, TypeOK
    <2> QED
      BY <2>1, <2>2 DEF FillUnrecorded
  <1> SUFFICES ASSUME NEW b \in Books, NEW sym \in Symbols, Exclusive(sym),
                      <<b, sym>> \notin astray'
               PROVE  Agree(session, b, sym)'
    BY DEF BooksMatchTrades
  <1>3. ~(b = i.book /\ sym = SymbolOf[v]) /\ <<b, sym>> \notin astray
    BY <1>1
  <1>4. Agree(session, b, sym)
    BY <1>1, <1>3 DEF BooksMatchTrades
  <1>5. OnBook(session, b, sym)' = OnBook(session, b, sym)
    BY <1>1 DEF OnBook
  <1> QED
    BY <1>2, <1>3, <1>4, <1>5, FillElsewhere, AgreeKept

(* A transaction that ends: what it rolls back is astray.                  *)
LEMMA RollbackMatches ==
  ASSUME Settled, BooksMatchTrades, Rollback, NEW b \in Books, NEW sym \in Symbols,
         Exclusive(sym), <<b, sym>> \notin astray', b = "paper" => loop # "down",
         book'[b][sym] = book[b][sym]
  PROVE  Agree(session, b, sym)'
  <1>1. <<b, sym>> \notin astray /\ <<b, sym>> \notin unsaved
    BY DEF Rollback
  <1>2. OnBook(session, b, sym)' = OnBook(session, b, sym)
    BY <1>1 DEF Rollback, Settled, OnBook
  <1> QED
    BY <1>1, <1>2, AgreeKept DEF BooksMatchTrades

(* Starting the process restores the paper book from the rows.             *)
LEMMA StartMatches ==
  ASSUME TypeOK, TradesInv, Settled, BooksMatchTrades, Start
  PROVE  BooksMatchTrades'
  <1>1. loop = "down" /\ session' = session /\ committed' = committed
    BY DEF Start, tables
  <1> SUFFICES ASSUME NEW b \in Books, NEW sym \in Symbols, Exclusive(sym),
                      <<b, sym>> \notin astray'
               PROVE  Agree(session, b, sym)'
    BY DEF BooksMatchTrades
  <1>2. /\ OnBook(session, b, sym)' = OnBook(session, b, sym)
        /\ OnBook(session, b, sym) = OnBook(committed, b, sym)
    BY <1>1 DEF OnBook, Settled
  <1>3. CASE b = "live"
    <2>1. book'[b][sym] = book[b][sym] /\ <<b, sym>> \notin astray
      BY <1>3 DEF Start, Rehydrate, RehydrateFails, TypeOK, Books
    <2> QED
      BY <2>1, <1>2, <1>3, AgreeKept DEF BooksMatchTrades
  <1>4. CASE b = "paper" /\ Rehydrate
    <2>1. book'["paper"][sym] \in Restorable(sym)
      BY <1>4 DEF Rehydrate, TypeOK, Books
    <2>2. CASE OnBook(committed, b, sym) = {}
      BY <1>2, <1>4, <2>1, <2>2 DEF Agree, OnBook, Restorable
    <2>3. CASE OnBook(committed, b, sym) # {}
      <3>1. PICK t \in OnBook(committed, b, sym) : TRUE
        BY <2>3
      <3>2. OnBook(committed, b, sym) = {t}
        BY <3>1, ExclusiveTrades
      <3>3. book'[b][sym] = t.side * t.qty
        BY <1>4, <2>1, <3>2 DEF Restorable, OnBook
      <3> QED
        BY <1>2, <3>2, <3>3 DEF Agree, OnBook
    <2> QED
      BY <2>2, <2>3
  <1>5. CASE b = "paper" /\ RehydrateFails
    <2>1. OnBook(committed, b, sym) = {}
      BY <1>5 DEF RehydrateFails, OnBook
    <2>2. book'[b][sym] = 0
      BY <1>1, <1>5 DEF RehydrateFails, Settled
    <2> QED
      BY <2>1, <2>2, <1>2 DEF Agree, OnBook
  <1> QED
    BY <1>3, <1>4, <1>5 DEF Start, Books

(* Every step keeps books and rows in agreement.                           *)
LEMMA BooksKept ==
  ASSUME TypeOK, TradesInv, Settled, BooksMatchTrades, [Next]_vars
  PROVE  BooksMatchTrades'
  <1>1. ASSUME UNCHANGED <<book, session, astray>>, loop' = "down" <=> loop = "down"
        PROVE  BooksMatchTrades'
    BY <1>1 DEF BooksMatchTrades, Agree
  <1>2. CASE Quiet
    BY <1>1, <1>2 DEF Quiet
  <1>3. CASE Crash
    <2>1. Rollback /\ loop' = "down" /\ book'["live"] = book["live"]
      BY <1>3 DEF Crash, TypeOK, Books
    <2> QED
      BY <2>1, RollbackMatches DEF BooksMatchTrades, Books
  <1>4. CASE TickEnd /\ broken
    <2>1. Rollback /\ loop = "tick" /\ book' = book
      BY <1>4 DEF TickEnd
    <2> QED
      BY <2>1, RollbackMatches DEF BooksMatchTrades
  <1>5. CASE TickEnd /\ ~broken
    BY <1>1, <1>5 DEF TickEnd, Commit
  <1>6. ASSUME NEW i \in Items, KillVerdict(i)
        PROVE  BooksMatchTrades'
    BY <1>1, <1>6 DEF KillVerdict, Commit, tables
  <1> QED
    BY <1>2, <1>3, <1>4, <1>5, <1>6, StartMatches, OpenMatches, CloseMatches, UnrecordedMatches,
       QuietOrStirring DEF Stirring

(* On a symbol one strategy trades, the position is what the open trade    *)
(* says, unless a row was lost after its fill (engine.py:135-157, 533-579).*)
THEOREM BooksMatch == Spec => []BooksMatchTrades
  <1>1. Init => Settled /\ BooksMatchTrades
    BY DEF Init, Settled, OnBook, BooksMatchTrades, Agree, Books
  <1> QED
    BY <1>1, SettledKept, BooksKept, TradesInvariant, BotTypeCorrect, PTL DEF Spec
-----------------------------------------------------------------------------
(* Approval.  Whatever the tick still has on its list was approved when    *)
(* its version was read, and no command takes an approval back.            *)
Approved(v) == status[v] \notin {"absent", "pending_approval"}

ApprovalInv == UnapprovedNeverTrades /\ \A i \in todo : Approved(i.version)

(* No command takes an approval back.                                      *)
LEMMA ApprovalStays ==
  ASSUME TypeOK, Control, NEW v \in Versions, Approved(v)
  PROVE  Approved(v)'
  BY VersionsAssumption
  DEF Control, SetGlobalMode, SetStrategyMode, AddVersion, Propose, Approve, Retire, Engage,
      Clear, GateMoves, Operate, operator, control, TypeOK, Approved

(* Every other step leaves the statuses alone.                             *)
LEMMA StatusStays ==
  ASSUME [Next]_vars, ~Control
  PROVE  status' = status
  <1>1. CASE \/ \E sym \in Symbols : NewBar(sym) \/ \E last \in 1 .. bar[sym] : BarsLost(sym, last)
             \/ Start \/ Crash \/ KillSeen \/ KillSeenAndRefused \/ UNCHANGED vars
    BY <1>1 DEF NewBar, BarsLost, Start, Crash, KillSeen, KillSeenAndRefused, HandleKill, vars,
                control
  <1>2. CASE \/ TickBegin \/ CheckWall \/ ListStrategies \/ TickAborts \/ DbFails \/ TickEnd
             \/ \E i \in Items : ReadVersion(i)
    BY <1>2 DEF TickBegin, CheckWall, ListStrategies, TickAborts, DbFails, TickEnd, ReadVersion,
                control
  <1>3. ASSUME NEW i \in Items, Evaluate(i)
        PROVE  status' = status
    BY <1>3 DEF Evaluate, Unreadable, Seen, Hold, Open, Close, FillUnrecorded, KillVerdict,
                KillVerdictRefused, control
  <1> QED
    BY <1>1, <1>2, <1>3 DEF Next

(* The list grows by the versions read, and by nothing else.               *)
LEMMA ListShrinks ==
  ASSUME [Next]_vars, \A i \in Items : ~ReadVersion(i)
  PROVE  todo' \subseteq todo
  <1>1. CASE Control
    BY <1>1, ControlKeeps
  <1>2. CASE \/ \E sym \in Symbols : NewBar(sym) \/ \E last \in 1 .. bar[sym] : BarsLost(sym, last)
             \/ Start \/ Crash \/ KillSeen \/ KillSeenAndRefused \/ UNCHANGED vars
    BY <1>2 DEF NewBar, BarsLost, Start, Crash, TickOver, KillSeen, KillSeenAndRefused,
                HandleKill, vars, list
  <1>3. CASE TickBegin \/ CheckWall \/ ListStrategies \/ TickAborts \/ DbFails \/ TickEnd
    BY <1>3 DEF TickBegin, CheckWall, ListStrategies, TickAborts, TickOver, DbFails, TickEnd, list
  <1>4. ASSUME NEW i \in Items, Evaluate(i)
        PROVE  todo' \subseteq todo
    BY <1>4 DEF Evaluate, Unreadable, Seen, Hold, Open, Close, FillUnrecorded, KillVerdict,
                KillVerdictRefused, Acts, TakesBar, Evaluating
  <1> QED
    BY <1>1, <1>2, <1>3, <1>4 DEF Next

(* Every step keeps listed and traded versions approved.                   *)
LEMMA ApprovalKept ==
  ASSUME TypeOK, ApprovalInv, [Next]_vars
  PROVE  ApprovalInv'
  <1>1. \A t \in session \union committed : t.version \in Versions /\ Approved(t.version)
    BY DEF ApprovalInv, UnapprovedNeverTrades, Approved, TypeOK, Trades
  <1>2. \A i \in todo : i.version \in Versions /\ Approved(i.version)
    BY DEF ApprovalInv, TypeOK, Items
  <1>3. CASE Control
    BY <1>1, <1>2, <1>3, ControlKeeps, ApprovalStays
    DEF ApprovalInv, UnapprovedNeverTrades, Approved
  <1>4. ASSUME status' = status, todo' \subseteq todo,
               session' \union committed' \subseteq session \union committed
        PROVE  ApprovalInv'
    BY <1>4 DEF ApprovalInv, UnapprovedNeverTrades, Approved
  <1>5. ASSUME NEW i \in Items, ReadVersion(i)
        PROVE  ApprovalInv'
    <2>1. status' = status /\ session' = session /\ committed' = committed
      BY <1>5 DEF ReadVersion, control, tables
    <2>2. todo' \subseteq todo \union {j \in {i} : Approved(j.version)}
      BY <1>5 DEF ReadVersion, Takes, Tradeable, Approved
    <2> QED
      BY <2>1, <2>2 DEF ApprovalInv, UnapprovedNeverTrades, Approved
  <1>6. ASSUME NEW i \in Items, NEW side \in Sides, NEW lot \in Lots, Open(i, side, lot)
        PROVE  ApprovalInv'
    <2>1. /\ status' = status /\ i \in todo /\ todo' \subseteq todo /\ committed' = committed
          /\ session' = session \union {NewTrade(i, side, lot)}
      BY <1>6 DEF Open, Acts, TakesBar, Evaluating, control
    <2>2. NewTrade(i, side, lot).version = i.version
      BY DEF NewTrade
    <2> QED
      BY <2>1, <2>2, <1>2 DEF ApprovalInv, UnapprovedNeverTrades, Approved
  <1>7. CASE /\ ~Control /\ \A i \in Items : ~ReadVersion(i)
             /\ \A i \in Items, side \in Sides, lot \in Lots : ~Open(i, side, lot)
    <2>1. session' \union committed' \subseteq session \union committed
      <3>1. CASE Quiet
        BY <3>1 DEF Quiet
      <3>2. CASE Start \/ Crash \/ TickEnd
        BY <3>2 DEF Start, Crash, TickEnd, Commit, Rollback, tables
      <3>3. ASSUME NEW i \in Items, Close(i) \/ FillUnrecorded(i) \/ KillVerdict(i)
            PROVE  session' \union committed' \subseteq session \union committed
        BY <3>3 DEF Close, FillUnrecorded, KillVerdict, Commit, tables
      <3> QED
        BY <1>7, <3>1, <3>2, <3>3, QuietOrStirring DEF Stirring
    <2> QED
      BY <1>4, <1>7, <2>1, StatusStays, ListShrinks
  <1> QED
    BY <1>3, <1>5, <1>6, <1>7

(* A version nobody has approved has never traded (engine.py:301-334,      *)
(* service.py:287-305).                                                    *)
THEOREM UnapprovedTradesNothing == Spec => []UnapprovedNeverTrades
  <1>1. Init => ApprovalInv
    BY DEF Init, ApprovalInv, UnapprovedNeverTrades
  <1>2. ApprovalInv => UnapprovedNeverTrades
    BY DEF ApprovalInv
  <1> QED
    BY <1>1, <1>2, ApprovalKept, BotTypeCorrect, PTL DEF Spec
-----------------------------------------------------------------------------
(* Live orders.  Within a tick the watch covers what the switches show, so *)
(* it covers the global switch as it was read and the switches the         *)
(* strategies were listed by; and the wall does not fall between the list  *)
(* and the end of the tick.                                                *)
ForVenue(i) == armed /\ Global \in wasLive /\ StrategyOf[i.version] \in wasLive
EarnedInv ==
  /\ InTick => LiveNow \subseteq wasLive
  /\ globalRead = "live" => Global \in wasLive
  /\ loop \notin {"listed", "tick"} => listed = {} /\ todo = {}
  /\ \A i \in listed \union todo : i.book = "live" => ForVenue(i)

(* The lower of two switches is live only when both are.                   *)
LEMMA LiveNeedsBoth ==
  ASSUME NEW g \in Modes, NEW s \in Modes, effective_mode(g, s) = "live"
  PROVE  g = "live" /\ s = "live"
  BY DEF effective_mode, Rank, Modes

(* A command keeps what the tick knows.                                    *)
LEMMA ControlEarned ==
  ASSUME TypeOK, EarnedInv, Control
  PROVE  EarnedInv'
  <1>1. InTick' => LiveNow' \subseteq wasLive'
    <2>1. InTick' = InTick
      BY ControlKeeps DEF InTick
    <2>2. CASE Watched
      BY <2>1, <2>2 DEF Watched
    <2>3. CASE UNCHANGED wasLive /\ LiveNow' \subseteq LiveNow
      BY <2>1, <2>3 DEF EarnedInv
    <2>4. ASSUME NEW v \in Versions, AddVersion(v) \/ Propose(v)
          PROVE  UNCHANGED wasLive /\ LiveNow' \subseteq LiveNow
      BY <2>4 DEF AddVersion, Propose, LiveNow
    <2>5. ASSUME NEW v \in Versions, Approve(v)
          PROVE  UNCHANGED wasLive /\ LiveNow' \subseteq LiveNow
      BY <2>5 DEF Approve, LiveNow, TypeOK
    <2>6. ASSUME NEW s \in Strategies, Retire(s)
          PROVE  UNCHANGED wasLive /\ LiveNow' \subseteq LiveNow
      BY <2>6 DEF Retire, LiveNow, TypeOK
    <2>7. CASE Engage \/ Clear \/ GateMoves
      BY <2>3, <2>7 DEF Engage, Clear, GateMoves, control, LiveNow
    <2> QED
      BY <2>2, <2>3, <2>4, <2>5, <2>6, <2>7 DEF Control, SetGlobalMode, SetStrategyMode
  <1> QED
    BY <1>1, ControlKeeps, ControlWatch DEF EarnedInv, ForVenue

(* So do the stages of the tick.                                           *)
LEMMA TickEarned ==
  ASSUME TypeOK, EarnedInv, TickBegin \/ CheckWall \/ ListStrategies
  PROVE  EarnedInv'
  <1>1. CASE TickBegin
    BY <1>1 DEF TickBegin, EarnedInv, LiveNow, control, InTick, Stages
  <1>2. CASE CheckWall
    <2>1. /\ listed' = {} /\ todo' = {} /\ globalRead' = globalRead /\ wasLive' = wasLive
          /\ InTick /\ LiveNow' = LiveNow
      BY <1>2 DEF CheckWall, EarnedInv, LiveNow, control, list, InTick, Stages
    <2> QED
      BY <2>1 DEF EarnedInv
  <1>3. CASE ListStrategies
    <2>1. /\ todo' = {} /\ globalRead' = globalRead /\ wasLive' = wasLive /\ armed' = armed
          /\ InTick /\ LiveNow' = LiveNow /\ listed' = LoadActive
      BY <1>3 DEF ListStrategies, LiveNow, control, memory, InTick, Stages
    <2>2. ASSUME NEW i \in LoadActive, i.book = "live"
          PROVE  ForVenue(i)
      <3>1. /\ i \in Items /\ armed
            /\ effective_mode(globalRead, stratMode[StrategyOf[i.version]]) = "live"
        BY <2>2, Zenon DEF LoadActive
      <3>2. StrategyOf[i.version] \in Strategies
        BY <3>1, VersionsAssumption DEF Items
      <3>3. globalRead = "live" /\ stratMode[StrategyOf[i.version]] = "live"
        BY <3>1, <3>2, LiveNeedsBoth DEF TypeOK
      <3>4. StrategyOf[i.version] \in LiveNow
        BY <3>2, <3>3 DEF LiveNow
      <3> QED
        BY <3>1, <3>3, <3>4, <2>1 DEF EarnedInv, ForVenue
    <2>3. loop' \in {"listed", "tick"}
      BY <1>3 DEF ListStrategies
    <2> QED
      BY <2>1, <2>2, <2>3 DEF EarnedInv, ForVenue
  <1> QED
    BY <1>1, <1>2, <1>3

(* Every step keeps what the tick has for the venue to what both switches  *)
(* have shown, and to a standing wall.                                     *)
LEMMA EarnedKept ==
  ASSUME TypeOK, EarnedInv, [Next]_vars
  PROVE  EarnedInv'
  <1>1. ASSUME listed' \union todo' \subseteq listed \union todo,
               UNCHANGED <<armed, wasLive, globalRead>>, LiveNow' \subseteq LiveNow,
               InTick' => InTick,
               loop' \notin {"listed", "tick"} => listed' = {} /\ todo' = {}
        PROVE  EarnedInv'
    BY <1>1 DEF EarnedInv, ForVenue
  <1>2. CASE TickAborts \/ TickEnd \/ Crash
    BY <1>2 DEF TickAborts, TickEnd, Crash, TickOver, EarnedInv, InTick, Stages
  <1>3. CASE \/ \E sym \in Symbols : NewBar(sym) \/ \E last \in 1 .. bar[sym] : BarsLost(sym, last)
             \/ DbFails \/ UNCHANGED vars
    <2>1. UNCHANGED <<listed, todo, armed, wasLive, globalRead, loop, globalMode, stratMode>>
      BY <1>3 DEF NewBar, BarsLost, DbFails, vars, control, list, memory
    <2> QED
      BY <2>1, <1>1 DEF LiveNow, InTick, EarnedInv
  <1>4. CASE Start \/ KillSeen \/ KillSeenAndRefused
    <2>1. /\ UNCHANGED <<listed, todo, armed, wasLive, globalRead, globalMode, stratMode>>
          /\ loop \in {"down", "idle"} /\ loop' \in {"idle", "dead"}
      BY <1>4 DEF Start, KillSeen, KillSeenAndRefused, HandleKill, control, list, memory
    <2> QED
      BY <2>1, <1>1 DEF LiveNow, InTick, Stages, EarnedInv
  <1>5. ASSUME NEW i \in Items, ReadVersion(i)
        PROVE  EarnedInv'
    <2>1. /\ UNCHANGED <<armed, wasLive, globalRead, globalMode, stratMode>>
          /\ InTick /\ loop' \in {"listed", "tick"}
      BY <1>5 DEF ReadVersion, control, memory, InTick, Stages
    <2>2. listed' \union todo' \subseteq listed \union todo
      BY <1>5 DEF ReadVersion, Takes
    <2> QED
      BY <2>1, <2>2, <1>1 DEF LiveNow
  <1>6. ASSUME NEW i \in Items, Evaluate(i)
        PROVE  EarnedInv'
    <2>1. /\ listed' = listed /\ todo' \subseteq todo /\ globalRead' = globalRead
          /\ loop = "tick" /\ loop' = "tick"
      BY <1>6 DEF Evaluate, Unreadable, Seen, Hold, Open, Close, FillUnrecorded, KillVerdict,
                  KillVerdictRefused, Acts, TakesBar, Evaluating
    <2>2. armed' = armed /\ wasLive' = wasLive
      BY <1>6 DEF Evaluate, Unreadable, Seen, Hold, Open, Close, FillUnrecorded, KillVerdict,
                  KillVerdictRefused, memory
    <2>3. LiveNow' \subseteq LiveNow
      <3>1. CASE KillVerdict(i)
        BY <3>1 DEF KillVerdict, Commit, LiveNow, TypeOK
      <3>2. CASE ~KillVerdict(i)
        BY <1>6, <3>2 DEF Evaluate, Unreadable, Seen, Hold, Open, Close, FillUnrecorded,
                          KillVerdictRefused, control, LiveNow
      <3> QED
        BY <3>1, <3>2
    <2> QED
      BY <2>1, <2>2, <2>3, <1>1 DEF InTick
  <1> QED
    BY <1>2, <1>3, <1>4, <1>5, <1>6, ControlEarned, TickEarned DEF Next

(* An order of an item reaches the book of that item alone.                *)
LEMMA FillIsLocal ==
  ASSUME TypeOK, NEW i \in Items, NEW q, Fill(i, q), book'["live"] # book["live"]
  PROVE  i.book = "live"
  BY DEF Fill, TypeOK, Items, Books

(* Under the invariant a step does what LiveIsEarned says.                 *)
LEMMA LiveStep ==
  ASSUME TypeOK, EarnedInv, Next, book'["live"] # book["live"]
  PROVE  /\ loop = "tick" /\ armed
         /\ \E i \in Items : LiveFill(i) /\ {Global, StrategyOf[i.version]} \subseteq wasLive
  <1> DEFINE Earned == /\ loop = "tick" /\ armed
                       /\ \E i \in Items :
                            LiveFill(i) /\ {Global, StrategyOf[i.version]} \subseteq wasLive
  <1>1. ASSUME NEW i \in Items, NEW q, Fill(i, q), Evaluating(i)
        PROVE  Earned
    <2>1. i.book = "live"
      BY <1>1, FillIsLocal
    <2>2. loop = "tick" /\ i \in todo \ todo' /\ ForVenue(i)
      BY <1>1, <2>1 DEF Evaluating, EarnedInv
    <2> QED
      BY <2>1, <2>2 DEF LiveFill, ForVenue
  <1>2. ~Quiet
    BY DEF Quiet
  <1>3. ~Start
    BY DEF Start, Rehydrate, RehydrateFails, TypeOK, Books
  <1>4. ~Crash /\ ~TickEnd
    BY DEF Crash, TickEnd, TypeOK, Books
  <1>5. ASSUME NEW i \in Items
        PROVE  ~KillVerdict(i)
    BY DEF KillVerdict
  <1>6. ASSUME NEW i \in Items, NEW side \in Sides, NEW lot \in Lots, Open(i, side, lot)
        PROVE  Earned
    BY <1>1, <1>6 DEF Open, Acts, TakesBar
  <1>7. ASSUME NEW i \in Items, Close(i)
        PROVE  Earned
    BY <1>1, <1>7 DEF Close, Acts, TakesBar
  <1>8. ASSUME NEW i \in Items, FillUnrecorded(i)
        PROVE  Earned
    BY <1>1, <1>8 DEF FillUnrecorded, Acts, TakesBar
  <1> QED
    BY <1>2, <1>3, <1>4, <1>5, <1>6, <1>7, <1>8, QuietOrStirring DEF Stirring

(* An order reaches the venue through a standing wall, and for a strategy  *)
(* whose switch and the global one have each been on live since the tick   *)
(* began, however they move while the tick reads them (engine.py:183-189,  *)
(* 213-254, 301-334, mode.py:32-40).                                       *)
THEOREM LiveOrdersAreEarned == Spec => LiveIsEarned
  <1>1. Init => EarnedInv
    BY DEF Init, EarnedInv, InTick, Stages
  <1>2. TypeOK /\ EarnedInv /\ [Next]_vars =>
          [book'["live"] # book["live"] =>
             /\ loop = "tick" /\ armed
             /\ \E i \in Items : LiveFill(i) /\ {Global, StrategyOf[i.version]} \subseteq wasLive]_vars
    BY LiveStep
  <1> QED
    BY <1>1, <1>2, EarnedKept, BotTypeCorrect, PTL DEF Spec, LiveIsEarned
-----------------------------------------------------------------------------
(* The marks.  While a symbol has lost no bars, no mark of a version on it *)
(* is ahead of its last bar, and none of the bars acted on is ahead of the *)
(* mark: a bar that is not the one marked is then one not acted on, though *)
(* the code compares the two for equality alone.                           *)
MarkedInTime ==
  \A v \in Versions : SymbolOf[v] \notin rewound =>
    /\ processed[v] <= bar[SymbolOf[v]]
    /\ \A b \in Nat : <<v, b>> \in acted => b <= processed[v]

(* The evaluations that mark a bar, and the ones that mark none.           *)
LEMMA EvaluateTakes ==
  ASSUME NEW i \in Items, Evaluate(i)
  PROVE  /\ bar' = bar /\ rewound' = rewound
         /\ TakesBar(i) \/ UNCHANGED <<processed, acted, book>>
  <1>1. CASE Unreadable(i) \/ Seen(i)
    BY <1>1 DEF Unreadable, Seen, memory, market
  <1>2. CASE \/ Hold(i) \/ Close(i) \/ FillUnrecorded(i) \/ KillVerdict(i)
             \/ KillVerdictRefused(i)
             \/ \E side \in Sides, lot \in Lots : Open(i, side, lot)
    BY <1>2 DEF Hold, Open, Close, FillUnrecorded, KillVerdict, KillVerdictRefused, Acts, market
  <1> QED
    BY <1>1, <1>2 DEF Evaluate

(* Every other step of a living process leaves marks and books alone.      *)
LEMMA MarksStay ==
  ASSUME [Next]_vars, ~Crash, \A i \in Items : ~Evaluate(i)
  PROVE  /\ UNCHANGED <<processed, acted>>
         /\ loop # "down" => book' = book
         /\ \/ UNCHANGED <<bar, rewound>>
            \/ \E sym \in Symbols : NewBar(sym) \/ \E last \in 1 .. bar[sym] : BarsLost(sym, last)
  <1>1. CASE Control
    BY <1>1, ControlKeeps
  <1>2. CASE \E sym \in Symbols : NewBar(sym) \/ \E last \in 1 .. bar[sym] : BarsLost(sym, last)
    BY <1>2 DEF NewBar, BarsLost, memory
  <1>3. CASE Start \/ KillSeen \/ KillSeenAndRefused \/ UNCHANGED vars
    BY <1>3 DEF Start, KillSeen, KillSeenAndRefused, HandleKill, vars, memory, market
  <1>4. CASE \/ TickBegin \/ CheckWall \/ ListStrategies \/ TickAborts \/ DbFails \/ TickEnd
             \/ \E i \in Items : ReadVersion(i)
    BY <1>4 DEF TickBegin, CheckWall, ListStrategies, TickAborts, DbFails, TickEnd, ReadVersion,
                memory, market
  <1> QED
    BY <1>1, <1>2, <1>3, <1>4 DEF Next

(* A version takes a bar it has not acted on, and its mark moves on to it, *)
(* unless its symbol has lost bars.                                        *)
LEMMA TakesBarMarks ==
  ASSUME TypeOK, MarkedInTime, NEW i \in Items, TakesBar(i),
         bar' = bar, rewound' = rewound
  PROVE  /\ i \in todo \ todo'
         /\ OnNewBar(i.version) \/ SymbolOf[i.version] \in rewound
         /\ MarkedInTime'
  <1> DEFINE v == i.version
             now == bar[SymbolOf[v]]
  <1>1. v \in Versions /\ now \in Nat /\ processed[v] \in Nat
    BY VersionsAssumption DEF Items, TypeOK
  <1>2. /\ processed[v] # now /\ processed' = [processed EXCEPT ![v] = now]
        /\ acted' = acted \union {<<v, now>>} /\ i \in todo \ todo'
    BY DEF TakesBar, Mark, Evaluating
  <1>3. OnNewBar(v) \/ SymbolOf[v] \in rewound
    BY <1>1, <1>2 DEF OnNewBar, MarkedInTime
  <1>4. ASSUME NEW w \in Versions, SymbolOf[w] \notin rewound
        PROVE  /\ processed'[w] <= bar[SymbolOf[w]]
               /\ \A b \in Nat : <<w, b>> \in acted' => b <= processed'[w]
    <2>1. CASE w = v
      BY <1>1, <1>2, <1>4, <2>1 DEF MarkedInTime, TypeOK
    <2>2. CASE w # v
      BY <1>2, <1>4, <2>2 DEF MarkedInTime, TypeOK
    <2> QED
      BY <2>1, <2>2
  <1> QED
    BY <1>2, <1>3, <1>4 DEF MarkedInTime

(* Every step keeps the marks in time.                                     *)
LEMMA MarkedKept ==
  ASSUME TypeOK, MarkedInTime, [Next]_vars
  PROVE  MarkedInTime'
  <1>1. \A v \in Versions : /\ SymbolOf[v] \in Symbols /\ bar[SymbolOf[v]] \in Nat
                            /\ processed[v] \in Nat
    BY VersionsAssumption DEF TypeOK
  <1>2. CASE Crash
    BY <1>1, <1>2 DEF Crash, MarkedInTime
  <1>3. ASSUME NEW i \in Items, Evaluate(i)
        PROVE  MarkedInTime'
    BY <1>3, EvaluateTakes, TakesBarMarks DEF MarkedInTime
  <1>4. CASE ~Crash /\ \A i \in Items : ~Evaluate(i)
    <2>1. CASE UNCHANGED <<bar, rewound>>
      BY <2>1, <1>4, MarksStay DEF MarkedInTime
    <2>2. ASSUME NEW sym \in Symbols, NewBar(sym)
          PROVE  MarkedInTime'
      <3>1. \A v \in Versions : bar[SymbolOf[v]] <= bar'[SymbolOf[v]] /\ bar'[SymbolOf[v]] \in Nat
        BY <1>1, <2>2 DEF NewBar, TypeOK
      <3>2. UNCHANGED <<processed, acted, rewound>>
        BY <2>2 DEF NewBar, memory
      <3> QED
        BY <1>1, <3>1, <3>2 DEF MarkedInTime
    <2>3. ASSUME NEW sym \in Symbols, NEW last \in 1 .. bar[sym], BarsLost(sym, last)
          PROVE  MarkedInTime'
      <3>1. /\ UNCHANGED <<processed, acted>> /\ rewound' = rewound \union {sym}
            /\ \A v \in Versions : SymbolOf[v] # sym => bar'[SymbolOf[v]] = bar[SymbolOf[v]]
        BY <1>1, <2>3 DEF BarsLost, memory, TypeOK
      <3> QED
        BY <3>1 DEF MarkedInTime
    <2> QED
      BY <2>1, <2>2, <2>3, <1>4, MarksStay
  <1> QED
    BY <1>2, <1>3, <1>4

(* Under the invariant a step does what OncePerBar says.                   *)
LEMMA OnceStep ==
  ASSUME TypeOK, MarkedInTime, [Next]_vars, Fills
  PROVE  \E i \in todo \ todo' : OnNewBar(i.version) \/ SymbolOf[i.version] \in rewound
  <1>1. loop = "tick" /\ loop' = "tick" /\ book' # book
    BY DEF Fills
  <1>2. ~Crash
    BY <1>1 DEF Crash
  <1>3. PICK i \in Items : Evaluate(i)
    BY <1>1, <1>2, MarksStay
  <1> QED
    BY <1>1, <1>3, EvaluateTakes, TakesBarMarks

(* Each fill is the first of its version on its bar, for as long as the    *)
(* process lives and the data store loses none of its symbol's bars        *)
(* (engine.py:402-405).                                                    *)
THEOREM BarsAreTakenOnce == Spec => OncePerBar
  <1>1. Init => MarkedInTime
    BY VersionsAssumption DEF Init, MarkedInTime
  <1>2. TypeOK /\ MarkedInTime /\ [Next]_vars =>
          [Fills => \E i \in todo \ todo' :
                      OnNewBar(i.version) \/ SymbolOf[i.version] \in rewound]_vars
    BY OnceStep
  <1> QED
    BY <1>1, <1>2, MarkedKept, BotTypeCorrect, PTL DEF Spec, OncePerBar
=============================================================================
