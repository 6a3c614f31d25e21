----------------------------- MODULE BotEngine -----------------------------
(***************************************************************************)
(* The trading loop (backend/app/bot/engine.py) with everything it races   *)
(* against: the operator's mode switches and version pointers, the four    *)
(* channels of the kill switch, new bars, a database that may refuse a     *)
(* transaction, and a worker process that may die between any two awaits.  *)
(*                                                                         *)
(* A tick is one database transaction at READ COMMITTED: it reads the      *)
(* global switch, checks the live wall, reads the rows of the strategies   *)
(* and then each version, with awaits in between; it evaluates them one    *)
(* after the other and commits at its end.  Orders are filled at once, in  *)
(* the memory of the paper adapter or at the venue, and no rollback takes  *)
(* them back.                                                              *)
(*                                                                         *)
(* Left to a choice: what a bar signals, and the verdict of the risk wall  *)
(* (RiskWall models it).  Quantities are small integers, money is in       *)
(* PaperAccount.  The venue always answers.                                *)
(***************************************************************************)
EXTENDS Integers, FiniteSets

CONSTANTS
  Strategies,   \* the strategies table
  Versions,     \* the rows the strategy_versions table may ever hold
  Symbols,      \* the symbols the genomes trade
  StrategyOf,   \* [Versions -> Strategies]
  SymbolOf,     \* [Versions -> Symbols]: the symbol in a version's genome
  FirstVersion, \* [Strategies -> Versions]: the active versions at the start
  Labelled,     \* the versions with a regime label, which the regime lock may hold back
  Lots,         \* the quantities the wall may size an opening order to
  MaxBars,      \* [Symbols -> Nat], bound: bars per symbol
  MaxControls,  \* bound: operator commands
  MaxFaults     \* bound: crashes, refused transactions, bars unreadable or lost

ASSUME VersionsAssumption ==
  /\ StrategyOf \in [Versions -> Strategies]
  /\ SymbolOf \in [Versions -> Symbols]
  /\ FirstVersion \in [Strategies -> Versions]
  /\ \A s \in Strategies : StrategyOf[FirstVersion[s]] = s
  /\ Labelled \subseteq Versions
ASSUME LotsAssumption == Lots \subseteq Nat \ {0}
ASSUME BoundsAssumption == MaxBars \in [Symbols -> Nat] /\ MaxControls \in Nat /\ MaxFaults \in Nat

Books == {"paper", "live"}            \* where orders execute
Modes == {"off", "paper", "live"}     \* the switch positions
Sides == {1, -1}                      \* long, short
(* "absent": the row is not there yet; "candidate" stands for the statuses *)
(* candidate, paper and live, which the bot treats alike.                  *)
Statuses == {"absent", "pending_approval", "candidate", "retired"}
Abs(x) == IF x < 0 THEN -x ELSE x

(* A row of the trades table whose status is open.                         *)
Trades == [book : Books, strategy : Strategies, version : Versions,
           symbol : Symbols, side : Sides, qty : Nat \ {0}]

(* A strategy the tick still has to look up or to evaluate.                *)
Items == [version : Versions, book : Books]

VARIABLES
  \* The control plane, as committed by the API, by Telegram and by the bot.
  globalMode,   \* the global switch
  stratMode,    \* [Strategies -> Modes]: strategies.mode
  active,       \* [Strategies -> Versions]: strategies.active_version_id
  status,       \* [Versions -> Statuses]: strategy_versions.status
  engaged,      \* the KILLSWITCH file is there
  gate,         \* the promotion gate is open and API keys are stored
  controls,     \* operator commands so far
  \* The market.
  bar,          \* [Symbols -> Nat]: the last closed bar the data store has
  \* The worker process.
  loop,         \* idle, a stage of a tick, dead (the loop task has raised) or down
  globalRead,   \* the global switch as the tick has read it
  listed,       \* the strategies to run whose versions the tick has still to read
  todo,         \* the strategies it has still to evaluate
  killHandled,  \* _kill_handled
  armed,        \* _live_risk is there
  processed,    \* [Versions -> Nat]: the last bar acted on, by version and symbol
  broken,       \* the tick's transaction has failed and takes no more statements
  \* The books and the trades table.
  book,         \* [Books -> [Symbols -> Int]]: net positions, of the adapter and at the venue
  session,      \* the open trades the tick's transaction sees
  paused,       \* the strategies the tick's transaction has switched off
  committed,    \* the open trades in the database
  \* Faults and history.
  faults,       \* crashes, refused transactions, bars unreadable or lost so far
  unsaved,      \* history: books and symbols with fills not yet committed
  astray,       \* history: books and symbols whose fills and rows have parted
  wasLive,      \* history: the switches on live at some time during the tick
  acted,        \* history: the versions and bars this process has acted on
  rewound       \* history: the symbols that lost bars since this process began

control == <<globalMode, stratMode, active, status>>
operator == <<engaged, gate, controls>>
market == <<bar, rewound>>
list == <<globalRead, listed, todo>>
memory == <<killHandled, armed, processed, acted>>
tables == <<session, paused, committed>>
history == <<unsaved, astray>>
vars == <<globalMode, stratMode, active, status, engaged, gate, controls, bar, loop, globalRead,
          listed, todo, killHandled, armed, processed, broken, book, session, paused, committed,
          faults, unsaved, astray, wasLive, acted, rewound>>

Global == "global"                    \* the global switch, among the switches
Stages == {"begun", "checked", "listed", "tick"}
InTick == loop \in Stages

TypeOK ==
  /\ globalMode \in Modes
  /\ stratMode \in [Strategies -> Modes]
  /\ active \in [Strategies -> Versions]
  /\ status \in [Versions -> Statuses]
  /\ engaged \in BOOLEAN
  /\ gate \in BOOLEAN
  /\ controls \in 0 .. MaxControls
  /\ bar \in [Symbols -> Nat]
  /\ loop \in Stages \union {"idle", "dead", "down"}
  /\ globalRead \in Modes
  /\ listed \subseteq Items
  /\ todo \subseteq Items
  /\ killHandled \in BOOLEAN
  /\ armed \in BOOLEAN
  /\ processed \in [Versions -> Nat]
  /\ broken \in BOOLEAN
  /\ book \in [Books -> [Symbols -> Int]]
  /\ session \subseteq Trades
  /\ paused \subseteq Strategies
  /\ committed \subseteq Trades
  /\ faults \in 0 .. MaxFaults
  /\ unsaved \subseteq Books \X Symbols
  /\ astray \subseteq Books \X Symbols
  /\ wasLive \subseteq Strategies \union {Global}
  /\ acted \subseteq Versions \X Nat
  /\ rewound \subseteq Symbols

(* The switches, the gate and the approval queue are where earlier         *)
(* sessions left them.                                                     *)
Init ==
  /\ globalMode \in Modes
  /\ stratMode \in [Strategies -> Modes]
  /\ active = FirstVersion
  /\ status \in [Versions -> {"absent", "pending_approval", "candidate"}]
  /\ \A v \in Versions :
       status[v] = "candidate" <=> v \in {FirstVersion[s] : s \in Strategies}
  /\ engaged = FALSE
  /\ gate \in BOOLEAN
  /\ controls = 0
  /\ bar = [s \in Symbols |-> 1]
  /\ loop = "down"
  /\ globalRead = "off"
  /\ listed = {}
  /\ todo = {}
  /\ killHandled = FALSE
  /\ armed = FALSE
  /\ processed = [v \in Versions |-> 0]
  /\ broken = FALSE
  /\ book = [b \in Books |-> [s \in Symbols |-> 0]]
  /\ session = {}
  /\ paused = {}
  /\ committed = {}
  /\ faults = 0
  /\ unsaved = {}
  /\ astray = {}
  /\ wasLive = {}
  /\ acted = {}
  /\ rewound = {}
-----------------------------------------------------------------------------
(* Operations on the tables.                                               *)

Rank(m) == CASE m = "off" -> 0 [] m = "paper" -> 1 [] m = "live" -> 2

(* The lower of the two switches.  (The mutant takes the higher.)          *)
effective_mode_Higher(g, s) == IF Rank(g) <= Rank(s) THEN s ELSE g
effective_mode(g, s) == IF Rank(g) <= Rank(s) THEN g ELSE s

(* should_trade.  (The mutant wants more than paper.)                      *)
should_trade_AbovePaper(mode) == Rank(mode) > Rank("paper")
should_trade(mode) == Rank(mode) >= Rank("paper")

(* A version that may trade: it is there, and neither retired nor waiting  *)
(* for approval.                                                           *)
Tradeable(v) == status[v] \notin {"absent", "retired", "pending_approval"}

(* _open_trade: the open trade of a strategy on a symbol, as a set.  (The  *)
(* mutant looks for a trade of the active version only.)                   *)
OpenTrade_OfVersion(T, b, s, sym) ==
  {t \in T : t.book = b /\ t.version = active[s] /\ t.symbol = sym}
OpenTrade(T, b, s, sym) ==
  {t \in T : t.book = b /\ t.strategy = s /\ t.symbol = sym}

(* Commit: what the transaction wrote becomes what the database holds.     *)
Commit ==
  /\ committed' = session
  /\ session' = session
  /\ stratMode' = [s \in Strategies |-> IF s \in paused THEN "off" ELSE stratMode[s]]
  /\ paused' = {}
  /\ unsaved' = {}
  /\ UNCHANGED astray

(* Rollback: the rows are gone, the fills are not.                         *)
Rollback ==
  /\ session' = committed
  /\ paused' = {}
  /\ astray' = astray \union unsaved
  /\ unsaved' = {}
  /\ UNCHANGED <<committed, stratMode>>
-----------------------------------------------------------------------------
(* The world around the bot.                                               *)

(* A bar of a symbol closes and reaches the data store.                    *)
NewBar(sym) ==
  /\ bar[sym] < MaxBars[sym]
  /\ bar' = [bar EXCEPT ![sym] = @ + 1]
  /\ UNCHANGED <<control, operator, rewound, loop, list, memory, broken, book, tables, faults,
                 history, wasLive>>

(* Two writers of the data store overlap, and the last bars of a symbol    *)
(* are lost until the next sync (MarketSync models how).                   *)
BarsLost(sym, last) ==
  /\ 0 < last /\ last < bar[sym]
  /\ faults < MaxFaults
  /\ faults' = faults + 1
  /\ bar' = [bar EXCEPT ![sym] = last]
  /\ rewound' = rewound \union {sym}
  /\ UNCHANGED <<control, operator, loop, list, memory, broken, book, tables, history, wasLive>>

(* The promotion gate opens or closes, keys are stored or removed.         *)
GateMoves ==
  /\ controls < MaxControls
  /\ controls' = controls + 1
  /\ gate' = ~gate
  /\ UNCHANGED <<control, engaged, market, loop, list, memory, broken, book, tables, faults,
                 history, wasLive>>

Operate ==
  /\ controls < MaxControls
  /\ controls' = controls + 1
  /\ UNCHANGED <<market, loop, list, memory, broken, book, tables, faults, history>>

(* What the switches show during a tick.                                   *)
LiveNow ==
  {s \in Strategies : stratMode[s] = "live"} \union {x \in {Global} : globalMode = "live"}
Watched == wasLive' = IF InTick THEN wasLive \union LiveNow' ELSE wasLive

(* POST /bot/mode, /start, /stop and Telegram /mode on the global switch.  *)
(* The live position is refused while the gate is closed.                  *)
SetGlobalMode(m) ==
  /\ Operate
  /\ m = "live" => gate
  /\ globalMode' = m
  /\ UNCHANGED <<stratMode, active, status, engaged, gate>>
  /\ Watched

(* The same for one strategy.  A tick that has switched the strategy off   *)
(* holds its row until it commits.                                         *)
SetStrategyMode(s, m) ==
  /\ Operate
  /\ s \notin paused
  /\ m = "live" => gate
  /\ stratMode' = [stratMode EXCEPT ![s] = m]
  /\ UNCHANGED <<globalMode, active, status, engaged, gate>>
  /\ Watched

(* add_version, of an edited genome: a new row that is active at once.     *)
AddVersion(v) ==
  /\ Operate
  /\ status[v] = "absent"
  /\ status' = [status EXCEPT ![v] = "candidate"]
  /\ active' = [active EXCEPT ![StrategyOf[v]] = v]
  /\ UNCHANGED <<globalMode, stratMode, engaged, gate, wasLive>>

(* regenerate: a re-optimized version waits for approval.                  *)
Propose(v) ==
  /\ Operate
  /\ status[v] = "absent"
  /\ status' = [status EXCEPT ![v] = "pending_approval"]
  /\ UNCHANGED <<globalMode, stratMode, active, engaged, gate, wasLive>>

(* approve_version: a pending version becomes the active one, in paper.    *)
Approve(v) ==
  LET s == StrategyOf[v]
  IN /\ Operate
     /\ status[v] = "pending_approval"
     /\ s \notin paused
     /\ active' = [active EXCEPT ![s] = v]
     /\ status' = [status EXCEPT ![v] = "candidate"]
     /\ stratMode' = [stratMode EXCEPT ![s] = "paper"]
     /\ UNCHANGED <<globalMode, engaged, gate, wasLive>>

(* set_status retired on the active version, which switches it off too.    *)
Retire(s) ==
  /\ Operate
  /\ s \notin paused
  /\ status' = [status EXCEPT ![active[s]] = "retired"]
  /\ stratMode' = [stratMode EXCEPT ![s] = "off"]
  /\ UNCHANGED <<globalMode, active, engaged, gate, wasLive>>

(* killswitch.engage, from any channel: the file is written first.         *)
Engage ==
  /\ Operate
  /\ engaged' = TRUE
  /\ UNCHANGED <<control, gate, wasLive>>

(* killswitch.clear.                                                       *)
Clear ==
  /\ Operate
  /\ engaged' = FALSE
  /\ UNCHANGED <<control, gate, wasLive>>

Control ==
  \/ \E m \in Modes : SetGlobalMode(m)
  \/ \E s \in Strategies, m \in Modes : SetStrategyMode(s, m)
  \/ \E v \in Versions : AddVersion(v) \/ Propose(v) \/ Approve(v)
  \/ \E s \in Strategies : Retire(s)
  \/ Engage
  \/ Clear
  \/ GateMoves
-----------------------------------------------------------------------------
(* The worker process.                                                     *)

(* rehydrate: every open paper trade restores the position of its symbol,  *)
(* one after the other, so that of several on a symbol one is left.  (The  *)
(* mutant forgets the side.)                                               *)
Restorable_Unsigned(sym) ==
  LET held == {t \in committed : t.book = "paper" /\ t.symbol = sym}
  IN IF held = {} THEN {0} ELSE {t.qty : t \in held}
Restorable(sym) ==
  LET held == {t \in committed : t.book = "paper" /\ t.symbol = sym}
  IN IF held = {} THEN {0} ELSE {t.side * t.qty : t \in held}

Rehydrate ==
  /\ \E net \in [Symbols -> UNION {Restorable(sym) : sym \in Symbols}] :
       /\ \A sym \in Symbols : net[sym] \in Restorable(sym)
       /\ book' = [book EXCEPT !["paper"] = net]
  /\ astray' = {x \in astray : x[1] # "paper"}

(* A rehydrate that raises is logged and the loop runs without it.         *)
RehydrateFails ==
  /\ astray' = {x \in astray : x[1] # "paper"} \union
                 {<<"paper", t.symbol>> : t \in {u \in committed : u.book = "paper"}}
  /\ UNCHANGED book

Start ==
  /\ loop = "down"
  /\ loop' = "idle"
  /\ Rehydrate \/ RehydrateFails
  /\ UNCHANGED <<control, operator, market, list, memory, broken, tables, faults, unsaved,
                 wasLive>>

(* The tick's variables end with it.                                       *)
TickOver ==
  /\ globalRead' = "off"
  /\ listed' = {}
  /\ todo' = {}
  /\ wasLive' = {}

(* The process dies, or is stopped, between two awaits: its memory and the *)
(* open transaction are gone, the venue's positions are not.               *)
Crash ==
  /\ loop # "down"
  /\ faults < MaxFaults
  /\ faults' = faults + 1
  /\ loop' = "down"
  /\ TickOver
  /\ killHandled' = FALSE
  /\ armed' = FALSE
  /\ processed' = [v \in Versions |-> 0]
  /\ acted' = {}
  /\ rewound' = {}
  /\ broken' = FALSE
  /\ book' = [book EXCEPT !["paper"] = [sym \in Symbols |-> 0]]
  /\ Rollback
  /\ UNCHANGED <<globalMode, active, status, operator, bar>>
-----------------------------------------------------------------------------
(* run: the loop polls the kill switch between ticks.                      *)

(* is_engaged, one predicate for the four channels.  (The mutant forgets   *)
(* an engagement that is handled.)                                         *)
is_engaged_Unhandled == engaged /\ ~killHandled
is_engaged == engaged

(* _handle_kill with its own session: cancel, record, commit, once per     *)
(* engagement as far as the flag knows.                                    *)
HandleKill ==
  /\ loop = "idle"
  /\ is_engaged
  /\ ~killHandled
  /\ killHandled' = TRUE
  /\ UNCHANGED <<control, operator, market, list, armed, processed, acted, broken, book,
                 tables, history, wasLive>>

KillSeen ==
  /\ HandleKill
  /\ UNCHANGED <<loop, faults>>

(* The commit of _handle_kill is refused: nothing in run catches it, and   *)
(* the loop task ends; a tick that saw the switch first is caught.         *)
KillSeenAndRefused ==
  /\ HandleKill
  /\ faults < MaxFaults
  /\ faults' = faults + 1
  /\ loop' \in {"dead", "idle"}
-----------------------------------------------------------------------------
(* _tick, up to its list of strategies.                                    *)

(* The flag is re-armed and the global switch is read.                     *)
TickBegin ==
  /\ loop = "idle"
  /\ ~is_engaged
  /\ loop' = "begun"
  /\ killHandled' = FALSE
  /\ globalRead' = globalMode
  /\ wasLive' = LiveNow
  /\ UNCHANGED <<control, operator, market, listed, todo, armed, processed, acted, broken, book,
                 tables, faults, history>>

(* _ensure_live_wall: it is checked at most once a minute while it stands, *)
(* and is torn down when the gate has closed or the check fails.           *)
CheckWall ==
  /\ loop = "begun"
  /\ loop' = "checked"
  /\ armed' \in BOOLEAN
  /\ armed' => armed \/ gate
  /\ UNCHANGED <<control, operator, market, list, killHandled, processed, acted, broken, book,
                 tables, faults, history, wasLive>>

(* _load_active reads the rows of the strategies at once: their switches,  *)
(* their active versions, and from them the book each executes in.         *)
LoadActive ==
  {i \in Items :
     LET mode == effective_mode(globalRead, stratMode[StrategyOf[i.version]])
     IN /\ active[StrategyOf[i.version]] = i.version
        /\ should_trade(mode)
        /\ i.book = IF mode = "live" /\ armed THEN "live" ELSE "paper"}

ListStrategies ==
  /\ loop = "checked"
  /\ listed' = LoadActive
  /\ todo' = {}
  /\ loop' = IF listed' = {} THEN "tick" ELSE "listed"
  /\ UNCHANGED <<control, operator, market, globalRead, memory, broken, book, tables, faults,
                 history, wasLive>>

(* One version is read and taken, unless its status or the regime lock     *)
(* holds it back.  (The mutant takes any version of the strategy that is   *)
(* not retired in its place.)                                              *)
Takes_NotRetired(i) ==
  {j \in Items : /\ j.book = i.book /\ StrategyOf[j.version] = StrategyOf[i.version]
                 /\ status[j.version] \notin {"absent", "retired"}}
Takes(i) == {j \in {i} : Tradeable(j.version)}

ReadVersion(i) ==
  /\ loop = "listed"
  /\ i \in listed
  /\ listed' = listed \ {i}
  /\ \/ todo' = todo \union Takes(i)
     \/ i.version \in Labelled /\ todo' = todo
  /\ loop' = IF listed' = {} THEN "tick" ELSE "listed"
  /\ UNCHANGED <<control, operator, market, globalRead, memory, broken, book, tables, faults,
                 history, wasLive>>

(* A statement is refused before the first strategy: run catches it, and   *)
(* the tick is over.                                                       *)
TickAborts ==
  /\ loop \in {"begun", "checked", "listed"}
  /\ faults < MaxFaults
  /\ faults' = faults + 1
  /\ loop' = "idle"
  /\ TickOver
  /\ UNCHANGED <<control, operator, market, memory, broken, book, tables, history>>

(* The tick's transaction is refused, at a statement or at its commit.     *)
DbFails ==
  /\ loop = "tick"
  /\ ~broken
  /\ faults < MaxFaults
  /\ faults' = faults + 1
  /\ broken' = TRUE
  /\ UNCHANGED <<control, operator, market, loop, list, memory, book, tables, history, wasLive>>

TickEnd ==
  /\ loop = "tick"
  /\ todo = {}
  /\ loop' = "idle"
  /\ broken' = FALSE
  /\ IF broken THEN Rollback ELSE Commit
  /\ TickOver
  /\ UNCHANGED <<globalMode, active, status, operator, market, memory, book, faults>>
-----------------------------------------------------------------------------
(* _evaluate: one strategy of the tick.                                    *)

Evaluating(i) ==
  /\ loop = "tick"
  /\ i \in todo
  /\ todo' = todo \ {i}
  /\ UNCHANGED <<globalRead, listed>>

(* The bars cannot be read: the bar is not marked.                         *)
Unreadable(i) ==
  /\ Evaluating(i)
  /\ faults < MaxFaults
  /\ faults' = faults + 1
  /\ UNCHANGED <<control, operator, market, loop, memory, broken, book, tables, history, wasLive>>

(* The bar was acted on in an earlier tick.                                *)
Seen(i) ==
  /\ Evaluating(i)
  /\ processed[i.version] = bar[SymbolOf[i.version]]
  /\ UNCHANGED <<control, operator, market, loop, memory, broken, book, tables, faults, history,
                 wasLive>>

(* A bar that is not the one marked last is marked as acted on before      *)
(* anything else happens to it.  (The mutant forgets the mark.)            *)
Mark_Forgotten(v) == processed
Mark(v) == [processed EXCEPT ![v] = bar[SymbolOf[v]]]

TakesBar(i) ==
  LET v == i.version
  IN /\ Evaluating(i)
     /\ processed[v] # bar[SymbolOf[v]]
     /\ processed' = Mark(v)
     /\ acted' = acted \union {<<v, bar[SymbolOf[v]]>>}

(* No signal, an order the wall or the adapter rejects, or an exception on *)
(* the way to the order.                                                   *)
Hold(i) ==
  /\ TakesBar(i)
  /\ UNCHANGED <<control, operator, market, loop, killHandled, armed, broken, book,
                 tables, faults, history, wasLive>>

(* The statements before the order still work.                             *)
Acts(i) == TakesBar(i) /\ ~broken

(* Submitting q units (negative: a sale) to the book of item i.            *)
Fill(i, q) ==
  LET sym == SymbolOf[i.version]
  IN /\ book' = [book EXCEPT ![i.book][sym] = @ + q]
     /\ unsaved' = unsaved \union {<<i.book, sym>>}

(* The row of an opening fill.  (The mutant stores the signed quantity.)   *)
NewTrade_Signed(i, side, lot) ==
  [book |-> i.book, strategy |-> StrategyOf[i.version], version |-> i.version,
   symbol |-> SymbolOf[i.version], side |-> side, qty |-> side * lot]
NewTrade(i, side, lot) ==
  [book |-> i.book, strategy |-> StrategyOf[i.version], version |-> i.version,
   symbol |-> SymbolOf[i.version], side |-> side, qty |-> lot]

(* An approved opening order and the trade it writes.                      *)
Open(i, side, lot) ==
  LET v == i.version
  IN /\ Acts(i)
     /\ OpenTrade(session, i.book, StrategyOf[v], SymbolOf[v]) = {}
     /\ Fill(i, side * lot)
     /\ session' = session \union {NewTrade(i, side, lot)}
     /\ UNCHANGED <<astray, control, operator, market, loop, killHandled, armed, broken, paused,
                    committed, faults, wasLive>>

(* What a closing order trades: the whole net position of the symbol (see  *)
(* _close_qty), away from the side of the trade.  With no position there   *)
(* is nothing to trade and the order is rejected; the venue also rejects a *)
(* reduce-only order that would add to the position.                       *)
CloseQty(i, t) == -t.side * Abs(book[i.book][t.symbol])
Closable(i, t) ==
  /\ book[i.book][t.symbol] # 0
  /\ i.book = "live" => t.side * book[i.book][t.symbol] > 0

(* An approved closing order; the trade row is closed, and on the paper    *)
(* book the monitor may switch a degraded strategy off.                    *)
Close(i) ==
  LET v == i.version
      s == StrategyOf[v]
  IN /\ Acts(i)
     /\ \E t \in OpenTrade(session, i.book, s, SymbolOf[v]) :
          /\ Closable(i, t)
          /\ Fill(i, CloseQty(i, t))
          /\ session' = session \ {t}
     /\ \/ UNCHANGED paused
        \/ i.book = "paper" /\ paused' = paused \union {s}
     /\ UNCHANGED <<control, operator, market, loop, killHandled, armed, broken, committed,
                    faults, astray, wasLive>>

(* The order is filled and the statement that records it is refused.       *)
FillUnrecorded(i) ==
  LET v == i.version
      mine == OpenTrade(session, i.book, StrategyOf[v], SymbolOf[v])
  IN /\ Acts(i)
     /\ faults < MaxFaults
     /\ faults' = faults + 1
     /\ \/ mine = {} /\ \E side \in Sides, lot \in Lots : Fill(i, side * lot)
        \/ \E t \in mine : Closable(i, t) /\ Fill(i, CloseQty(i, t))
     /\ broken' = TRUE
     /\ astray' = astray \union {<<i.book, SymbolOf[v]>>}
     /\ UNCHANGED <<control, operator, market, loop, killHandled, armed, tables, wasLive>>

(* The wall rejects for drawdown and asks for the kill switch: engage it,  *)
(* and unless it is already handled cancel, record and commit what the     *)
(* tick has done so far.  The tick goes on with the next strategy.         *)
KillVerdict(i) ==
  /\ Acts(i)
  /\ engaged' = TRUE
  /\ killHandled' = TRUE
  /\ IF killHandled THEN UNCHANGED <<tables, stratMode, unsaved, astray>>
                    ELSE Commit
  /\ UNCHANGED <<globalMode, active, status, gate, controls, market, loop, armed,
                 broken, book, faults, wasLive>>

(* The file is written, and a statement after it or the commit is refused: *)
(* the flag may be set by then, and the transaction takes no more.         *)
KillVerdictRefused(i) ==
  /\ Acts(i)
  /\ faults < MaxFaults
  /\ faults' = faults + 1
  /\ engaged' = TRUE
  /\ killHandled' \in {killHandled, TRUE}
  /\ broken' = TRUE
  /\ UNCHANGED <<control, gate, controls, market, loop, armed, book, tables, history, wasLive>>

Evaluate(i) ==
  \/ Unreadable(i)
  \/ Seen(i)
  \/ Hold(i)
  \/ \E side \in Sides, lot \in Lots : Open(i, side, lot)
  \/ Close(i)
  \/ FillUnrecorded(i)
  \/ KillVerdict(i)
  \/ KillVerdictRefused(i)

Next ==
  \/ \E sym \in Symbols : NewBar(sym) \/ \E last \in 1 .. bar[sym] : BarsLost(sym, last)
  \/ Control
  \/ Start
  \/ Crash
  \/ KillSeen
  \/ KillSeenAndRefused
  \/ TickBegin
  \/ CheckWall
  \/ ListStrategies
  \/ \E i \in Items : ReadVersion(i)
  \/ TickAborts
  \/ \E i \in Items : Evaluate(i)
  \/ DbFails
  \/ TickEnd

Spec == Init /\ [][Next]_vars

(* The process supervisor restarts a stopped worker, and the event loop    *)
(* keeps scheduling the loop task; the operator, the market and the faults *)
(* are under no obligation.                                                *)
Fairness ==
  /\ WF_vars(Start)
  /\ WF_vars(KillSeen)
  /\ WF_vars(TickBegin)
  /\ WF_vars(CheckWall)
  /\ WF_vars(ListStrategies)
  /\ WF_vars(\E i \in Items : ReadVersion(i))
  /\ WF_vars(\E i \in Items : Evaluate(i))
  /\ WF_vars(TickEnd)

FairSpec == Spec /\ Fairness
-----------------------------------------------------------------------------
(* Properties.                                                             *)

(* A strategy has at most one open trade per book and symbol, in the       *)
(* database and in the transaction of the tick, whatever was rolled back,  *)
(* repointed or restarted in between (engine.py:497-505, 666-676).         *)
AtMostOne(T) ==
  \A t, u \in T :
    t.book = u.book /\ t.strategy = u.strategy /\ t.symbol = u.symbol => t = u
OneOpenTrade == AtMostOne(session) /\ AtMostOne(committed)

(* The symbols only one strategy trades.                                   *)
Exclusive(sym) ==
  \A v, w \in Versions :
    SymbolOf[v] = sym /\ SymbolOf[w] = sym => StrategyOf[v] = StrategyOf[w]

(* The trades table says of (b, sym) what the book holds.                  *)
Agree(T, b, sym) ==
  LET held == {t \in T : t.book = b /\ t.symbol = sym}
  IN \/ held = {} /\ book[b][sym] = 0
     \/ \E t \in held : held = {t} /\ book[b][sym] = t.side * t.qty

(* On a symbol one strategy trades, the position of the paper adapter and  *)
(* of the venue is what the open trade says, through opens, closes, mid-   *)
(* tick commits, rollbacks, crashes and rehydrations, unless a row was     *)
(* lost after its fill: for the paper book only until the next restart     *)
(* (engine.py:135-157, 533-579).                                           *)
BooksMatchTrades ==
  \A b \in Books, sym \in Symbols :
    (Exclusive(sym) /\ <<b, sym>> \notin astray /\ (b = "paper" => loop # "down"))
      => Agree(session, b, sym)

(* A version nobody has approved has never traded: not through its         *)
(* approval queue, an edit, a restart or a stale list of the tick          *)
(* (engine.py:301-334, service.py:287-305).                                *)
UnapprovedNeverTrades ==
  \A t \in session \union committed : status[t.version] \notin {"absent", "pending_approval"}

(* However switches and gate move while a tick reads them one after the    *)
(* other: an order reaches the venue through a standing wall, within a     *)
(* tick, and for a strategy whose own switch and the global one have each  *)
(* been on live since that tick began, if not together (engine.py:183-189, *)
(* 213-254, 301-334, mode.py:32-40).                                       *)
LiveFill(i) == i \in todo \ todo' /\ i.book = "live"
LiveIsEarned ==
  [][book'["live"] # book["live"] =>
       /\ loop = "tick" /\ armed
       /\ \E i \in Items : LiveFill(i) /\ {Global, StrategyOf[i.version]} \subseteq wasLive]_vars

(* Once a kill switch stays engaged, the tick under way comes to its end   *)
(* and no other follows (engine.py:807-838, "closes the new-order path").  *)
KillQuiesces == <>[]engaged => <>[]~InTick

(* A kill switch the loop has not handled yet is handled, or cleared       *)
(* (killswitch.py:6-8).                                                    *)
KillIsHandled == (engaged /\ ~killHandled) ~> (killHandled \/ ~engaged)

(* The two together: an engaged switch ends the trading and is recorded.   *)
KillComesToRest == KillQuiesces /\ KillIsHandled

(* A strategy that stays switched on, of a version that stays active, acts *)
(* on every bar, unless the loop task has died (engine.py:403-405).        *)
Runs(s) ==
  /\ ~engaged
  /\ effective_mode(globalMode, stratMode[s]) # "off"
  /\ status[active[s]] = "candidate"
  /\ active[s] \notin Labelled
BarsAreActedOn ==
  \A s \in Strategies :
    <>[](Runs(s) /\ loop # "dead") => <>[](processed[active[s]] = bar[SymbolOf[active[s]]])

(* "Act once per closed bar" (engine.py:402-405): a fill is the evaluation *)
(* of a version on a bar this process has not acted on for it before, in   *)
(* whatever order bars, ticks, failed transactions and new lists come,     *)
(* unless the data store has lost bars of the symbol in the meantime: the  *)
(* code only compares the last bar with the one it marked.                 *)
OnNewBar(v) == <<v, bar[SymbolOf[v]]>> \notin acted
Fills == loop = "tick" /\ loop' = "tick" /\ book' # book
OncePerBar ==
  [][Fills => \E i \in todo \ todo' :
                OnNewBar(i.version) \/ SymbolOf[i.version] \in rewound]_vars

(* What comments of the code say, and the runs of the findings refute.     *)

(* "Closing/reducing an existing position is always allowed (it lowers     *)
(* risk)" (risk.py:205): a closing order leaves no larger position behind. *)
ClosesLowerRisk ==
  [][(loop = "tick" /\ loop' = "tick") =>
       \A t \in session \ session' :
         Abs(book'[t.book][t.symbol]) <= Abs(book[t.book][t.symbol])]_vars

(* "Engaging cancels open orders and closes the new-order path"            *)
(* (killswitch.py:11-12): once the engagement is handled no order is       *)
(* filled until the switch is cleared.                                     *)
HandledKillStopsOrders ==
  [][(engaged /\ killHandled /\ loop' = "tick") => book' = book]_vars

(* "Clear the kill switch so the bot may resume" (killswitch.py:72-73):    *)
(* with the switch cleared for good, the bot keeps ticking.                *)
ClearedBotResumes == <>[]~engaged => []<>(loop = "tick")
=============================================================================
