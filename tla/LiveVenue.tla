----------------------------- MODULE LiveVenue ------------------------------
(***************************************************************************)
(* The live adapter (backend/app/execution/binance.py) behind its retries  *)
(* and its circuit breaker (backend/app/execution/resilience.py), at a     *)
(* venue whose answers may be lost after the request took effect.          *)
(*                                                                         *)
(* place_order is a chain of calls: the markets once, one-way mode once,   *)
(* isolated margin and leverage whenever the cached leverage differs, then *)
(* the order.  Each call is attempted up to MaxRetries + 1 times, and the  *)
(* process may die between any two attempts.  A fill is booked in the      *)
(* session of its tick, whose commit may fail or never come.               *)
(*                                                                         *)
(* A symbol is traded by one strategy (BotEngine and PaperAccount model    *)
(* netting), nobody else trades the account, and prices are left out: the  *)
(* mirror's average entry follows PaperAccount's.                          *)
(***************************************************************************)
EXTENDS Integers

CONSTANTS
  Symbols,    \* the symbols traded
  Lots,       \* the quantities the wall may size an opening order to
  Leverages,  \* the leverages it may approve, as _ensure_symbol rounds them
  MaxRetries, \* live_max_retries
  Threshold,  \* live_circuit_breaker_threshold
  Cooldown,   \* live_circuit_breaker_cooldown_seconds
  NoOrder,    \* place_order is not running
  Horizon,    \* bound: the last instant
  MaxOrders,  \* bound: orders submitted
  MaxReads,   \* bound: failed calls in a row up to which reads are made
  MaxRearms   \* bound: how often an adapter is built again

Sides == {1, -1}                                  \* buy, sell
Orders == [symbol : Symbols, side : Sides, qty : Nat \ {0},
           leverage : Leverages, reduceOnly : BOOLEAN]

ASSUME OrdersAssumption ==
  /\ Lots \subseteq Nat \ {0}
  /\ Leverages \subseteq Nat \ {0}
  /\ Leverages # {}
  /\ NoOrder \notin Orders
ASSUME ResilienceAssumption ==
  MaxRetries \in Nat /\ Threshold \in Nat \ {0} /\ Cooldown \in Nat
ASSUME BoundsAssumption ==
  Horizon \in Nat /\ MaxOrders \in Nat /\ MaxReads \in Nat /\ MaxRearms \in Nat

VARIABLES
  \* The venue.
  pos,           \* [Symbols -> Int]: net position
  oneWay,        \* the account is in one-way mode
  isolated,      \* the symbols on isolated margin
  venueLeverage, \* [Symbols -> Leverages]: what the next open of a symbol is levered to
  \* The adapter.
  marketsLoaded, \* _markets_loaded
  onewaySet,     \* _oneway_set
  cached,        \* [Symbols -> Nat]: _symbol_leverage, 0 when it is not there
  mirror,        \* [Symbols -> Int]: _mirror, side times quantity
  \* Its breaker, and the clock.
  failures,      \* failures
  openedAt,      \* opened_at, -1 for None
  now,           \* clock()
  \* The order place_order is working on.
  order,         \* the request
  stage,         \* the call it is in
  attempt,       \* attempt of call_resilient
  \* The trades table.
  rows,          \* [Symbols -> Int]: the open live trade, side times quantity, in the session
  saved,         \* [Symbols -> Int]: the same, as it was committed
  \* Bounds and history.
  orders,        \* orders submitted
  rearms,        \* adapters built again
  run,           \* history: calls failed in a row, whatever the breaker made of it
  outage,        \* history: when that run reached Threshold, -1 when it has not
  trial,         \* history: when a call of a longer run last failed, -1 when none has
  doubtful,      \* history: symbols with a fill the adapter was not told of as it was
  astray         \* history: symbols with a fill that was rolled back out of the table

venue == <<pos, oneWay, isolated, venueLeverage>>
adapter == <<marketsLoaded, onewaySet, cached, mirror>>
breaker == <<failures, openedAt, run, outage, trial>>
request == <<order, stage, attempt>>
bounds == <<orders, rearms>>
table == <<rows, saved, astray>>
vars == <<pos, oneWay, isolated, venueLeverage, marketsLoaded, onewaySet, cached, mirror,
          failures, openedAt, now, order, stage, attempt, rows, saved, orders, rearms,
          run, outage, trial, doubtful, astray>>

ConfigStages == {"markets", "mode", "margin", "leverage"}
Abs(x) == IF x < 0 THEN -x ELSE x
Sign(x) == IF x > 0 THEN 1 ELSE IF x < 0 THEN -1 ELSE 0
Lower(x, y) == IF x < y THEN x ELSE y

TypeOK ==
  /\ pos \in [Symbols -> Int]
  /\ oneWay \in BOOLEAN
  /\ isolated \subseteq Symbols
  /\ venueLeverage \in [Symbols -> Leverages]
  /\ marketsLoaded \in BOOLEAN
  /\ onewaySet \in BOOLEAN
  /\ cached \in [Symbols -> Leverages \union {0}]
  /\ mirror \in [Symbols -> Int]
  /\ failures \in Nat
  /\ openedAt \in 0 .. Horizon \union {-1}
  /\ now \in 0 .. Horizon
  /\ order \in Orders \union {NoOrder}
  /\ stage \in ConfigStages \union {"idle", "create"}
  /\ stage = "idle" <=> order = NoOrder
  /\ attempt \in 0 .. MaxRetries
  /\ rows \in [Symbols -> Int] /\ saved \in [Symbols -> Int]
  /\ orders \in 0 .. MaxOrders
  /\ rearms \in 0 .. MaxRearms
  /\ run \in Nat
  /\ outage \in 0 .. Horizon \union {-1}
  /\ trial \in 0 .. Horizon \union {-1}
  /\ doubtful \subseteq Symbols /\ astray \subseteq Symbols

(* The account is as its owner left it: in either position mode, symbols   *)
(* on either margin and at any leverage.                                   *)
Init ==
  /\ pos = [s \in Symbols |-> 0]
  /\ oneWay \in BOOLEAN
  /\ isolated \in SUBSET Symbols
  /\ venueLeverage \in [Symbols -> Leverages]
  /\ marketsLoaded = FALSE
  /\ onewaySet = FALSE
  /\ cached = [s \in Symbols |-> 0]
  /\ mirror = [s \in Symbols |-> 0]
  /\ failures = 0
  /\ openedAt = -1
  /\ now = 0
  /\ order = NoOrder
  /\ stage = "idle"
  /\ attempt = 0
  /\ rows = [s \in Symbols |-> 0]
  /\ saved = [s \in Symbols |-> 0]
  /\ orders = 0
  /\ rearms = 0
  /\ run = 0
  /\ outage = -1
  /\ trial = -1
  /\ doubtful = {}
  /\ astray = {}
-----------------------------------------------------------------------------
(* The breaker.                                                            *)

is_open == openedAt # -1 /\ now - openedAt < Cooldown

(* A success, and k failures after it.                                     *)
SucceedsThenFails(k) ==
  /\ failures' = k
  /\ openedAt' = IF k >= Threshold THEN now ELSE -1
  /\ run' = k
  /\ outage' = IF k >= Threshold THEN now ELSE -1
  /\ trial' = -1

record_success == SucceedsThenFails(0)

(* The breaker opens once: a failure past the threshold finds opened_at    *)
(* set and leaves it.  (The mutant opens one failure late.)                *)
OpenedAt_Late(n) == IF n > Threshold /\ openedAt = -1 THEN now ELSE openedAt
OpenedAt(n) == IF n >= Threshold /\ openedAt = -1 THEN now ELSE openedAt

record_failure ==
  /\ failures' = failures + 1
  /\ openedAt' = OpenedAt(failures + 1)
  /\ run' = run + 1
  /\ outage' = IF run + 1 = Threshold THEN now ELSE outage
  /\ trial' = IF run >= Threshold THEN now ELSE trial
-----------------------------------------------------------------------------
(* The steps of place_order.                                               *)

(* The next call an order needs, given what the adapter remembers.         *)
Needed(o, loaded, oneway, leverages) ==
  IF ~loaded THEN "markets"
  ELSE IF ~oneway THEN "mode"
  ELSE IF o.reduceOnly \/ leverages[o.symbol] = o.leverage THEN "create"
  ELSE "margin"

(* The fills the session has booked and not yet committed.                 *)
Unsaved == {s \in Symbols : rows[s] # saved[s]}

(* A strategy is evaluated once in a tick, so a symbol has one fill in it. *)
(* The last reads of the wall may have failed: get_positions then reports  *)
(* nothing, and the wall goes on with an empty book.                       *)
Submits(o) ==
  /\ stage = "idle"
  /\ ~is_open
  /\ orders < MaxOrders
  /\ o.symbol \notin Unsaved
  /\ orders' = orders + 1
  /\ order' = o
  /\ stage' = Needed(o, marketsLoaded, onewaySet, cached)
  /\ attempt' = 0
  /\ UNCHANGED <<venue, adapter, now, table, rearms, doubtful>>

SubmitOpen(o) ==
  /\ o.qty \in Lots /\ ~o.reduceOnly
  /\ rows[o.symbol] = 0
  /\ \E k \in 0 .. Lower(3, Threshold) : SucceedsThenFails(k)
  /\ Submits(o)

(* A close is sized to what the venue holds, and away from the side of the *)
(* trade; with nothing there (or nothing read) it is rejected before any   *)
(* call.  (The mutant forgets that a close is reduce-only.)                *)
CloseOrder_Plain(s) ==
  [symbol |-> s, side |-> -Sign(rows[s]), qty |-> Abs(pos[s]),
   leverage |-> CHOOSE l \in Leverages : TRUE, reduceOnly |-> FALSE]
CloseOrder(s) ==
  [symbol |-> s, side |-> -Sign(rows[s]), qty |-> Abs(pos[s]),
   leverage |-> CHOOSE l \in Leverages : TRUE, reduceOnly |-> TRUE]

SubmitClose(s) ==
  /\ rows[s] # 0 /\ pos[s] # 0
  /\ record_success
  /\ Submits(CloseOrder(s))

(* place_order returns, with a rejection or with a fill.                   *)
Return ==
  /\ order' = NoOrder
  /\ stage' = "idle"
  /\ attempt' = 0

(* call_resilient asks the breaker before the first attempt only.  (The    *)
(* mutant waits for the cooldown instead of giving up.)                    *)
FailsFast_Waits ==
  /\ stage # "idle" /\ attempt = 0 /\ is_open
  /\ UNCHANGED vars
FailsFast ==
  /\ stage # "idle" /\ attempt = 0 /\ is_open
  /\ Return
  /\ UNCHANGED <<venue, adapter, breaker, now, table, bounds, doubtful>>

(* The quantity may round to nothing at the venue's precision.             *)
RoundsToNothing ==
  /\ stage = "create" /\ attempt = 0 /\ ~order.reduceOnly
  /\ Return
  /\ UNCHANGED <<venue, adapter, breaker, now, table, bounds, doubtful>>

Attempts == stage # "idle" /\ (attempt > 0 \/ ~is_open)

(* What the venue does on a call that sets it up.                          *)
Configures ==
  /\ oneWay' = (oneWay \/ stage = "mode")
  /\ isolated' = IF stage = "margin" THEN isolated \union {order.symbol} ELSE isolated
  /\ venueLeverage' = IF stage = "leverage"
                      THEN [venueLeverage EXCEPT ![order.symbol] = order.leverage]
                      ELSE venueLeverage
  /\ UNCHANGED pos

(* What the adapter remembers of it, and the call that is next.                *)
Proceeds ==
  /\ marketsLoaded' = (marketsLoaded \/ stage = "markets")
  /\ onewaySet' = (onewaySet \/ stage = "mode")
  /\ cached' = IF stage = "leverage" THEN [cached EXCEPT ![order.symbol] = order.leverage]
               ELSE cached
  /\ stage' = IF stage = "margin" THEN "leverage"
              ELSE Needed(order, marketsLoaded', onewaySet', cached')
  /\ attempt' = 0
  /\ UNCHANGED <<order, mirror>>

ConfigAnswered ==
  /\ Attempts /\ stage \in ConfigStages
  /\ Configures
  /\ record_success
  /\ Proceeds
  /\ UNCHANGED <<now, table, bounds, doubtful>>

(* "No need to change": the venue is set up that way already.              *)
AlreadySet == \/ stage = "mode" /\ oneWay
              \/ stage = "margin" /\ order.symbol \in isolated
Errors == {"no_need", "bad_request"}

(* (The mutant tolerates every error of a call that sets the venue up.)    *)
Tolerated_Any(error) == stage \in {"mode", "margin", "leverage"}
Tolerated(error) == stage \in {"mode", "margin", "leverage"} /\ error = "no_need"

(* An error that is not transient is not retried, and counts as a failure  *)
(* of the venue even when it is tolerated.                                 *)
Raises(error) ==
  /\ Attempts
  /\ error = "no_need" => AlreadySet
  /\ record_failure
  /\ IF Tolerated(error) THEN Proceeds ELSE Return /\ UNCHANGED adapter
  /\ UNCHANGED <<venue, now, table, bounds, doubtful>>

(* A reduce-only order closes at most the position it is against.          *)
Executable ==
  IF order.reduceOnly
  THEN {e \in 1 .. order.qty : order.side * pos[order.symbol] + e <= 0}
  ELSE 1 .. order.qty
Executes(e) ==
  /\ pos' = [pos EXCEPT ![order.symbol] = @ + order.side * e]
  /\ UNCHANGED <<oneWay, isolated, venueLeverage>>

(* (The mutant retries once more.)                                         *)
Exhausted_Late == attempt > MaxRetries
Exhausted == attempt >= MaxRetries

(* A transient error: retried, until the last attempt has failed.          *)
RetryOrFail ==
  \/ /\ ~Exhausted
     /\ attempt' = attempt + 1
     /\ UNCHANGED <<order, stage, breaker>>
  \/ /\ Exhausted
     /\ record_failure
     /\ Return

Unreachable ==
  /\ Attempts
  /\ RetryOrFail
  /\ UNCHANGED <<venue, adapter, now, table, bounds, doubtful>>

(* The request took effect and its answer is lost.                         *)
ConfigAnswerLost ==
  /\ Attempts /\ stage \in ConfigStages
  /\ Configures
  /\ RetryOrFail
  /\ UNCHANGED <<adapter, now, table, bounds, doubtful>>

OrderAnswerLost(e) ==
  /\ Attempts /\ stage = "create" /\ e \in Executable
  /\ Executes(e)
  /\ doubtful' = doubtful \union {order.symbol}
  /\ RetryOrFail
  /\ UNCHANGED <<adapter, now, table, bounds>>

(* _to_fill: an order the venue reports as not filled at all is booked in  *)
(* full.  (The mutant books what was ordered.)                             *)
FillQty_Ordered(e) == order.qty
FillQty(e) == IF e = 0 THEN order.qty ELSE e

(* The order is answered: the mirror nets the fill and the bot books it in *)
(* its session; a close closes the row whatever was filled of it.          *)
OrderAnswered(e) ==
  /\ Attempts /\ stage = "create"
  /\ e \in Executable \/ (e = 0 /\ Executable # {})
  /\ Executes(e)
  /\ record_success
  /\ mirror' = [mirror EXCEPT ![order.symbol] = @ + order.side * FillQty(e)]
  /\ rows' = [rows EXCEPT ![order.symbol] =
                IF order.reduceOnly THEN 0 ELSE order.side * FillQty(e)]
  /\ doubtful' = IF e = 0 \/ (order.reduceOnly /\ e < order.qty)
                 THEN doubtful \union {order.symbol} ELSE doubtful
  /\ Return
  /\ UNCHANGED <<marketsLoaded, onewaySet, cached, now, saved, astray, bounds>>
-----------------------------------------------------------------------------
(* What else happens.                                                      *)

(* A read on its own: the balance for the snapshot of a tick, the open     *)
(* orders for cancel_all, the balance a decision starts with.              *)
Read(succeeds) ==
  /\ stage = "idle" /\ ~is_open
  /\ failures < MaxReads
  /\ IF succeeds THEN record_success ELSE record_failure
  /\ UNCHANGED <<venue, adapter, now, request, table, bounds, doubtful>>

(* Time passes, in calls and between them, and in the backoff between      *)
(* attempts, a sleep that nothing else of the process runs beside.         *)
Passes ==
  /\ now < Horizon
  /\ now' = now + 1
  /\ UNCHANGED <<venue, adapter, breaker, request, table, bounds, doubtful>>

(* The tick commits, at its end or when the kill switch is handled, or it  *)
(* fails: the venue and the mirror keep what was filled.                   *)
Commit ==
  /\ stage = "idle" /\ Unsaved # {}
  /\ saved' = rows
  /\ UNCHANGED <<venue, adapter, breaker, now, request, rows, bounds, doubtful, astray>>
Rollback ==
  /\ stage = "idle" /\ Unsaved # {}
  /\ rows' = saved
  /\ astray' = astray \union Unsaved
  /\ UNCHANGED <<venue, adapter, breaker, now, request, saved, bounds, doubtful>>

(* A new adapter: the process was restarted, perhaps out of place_order or *)
(* before its tick was committed, or the live wall stood down and is armed *)
(* again.  The mirror is seeded from the trades table, whatever was rolled *)
(* back out of it; the two reads that follow may fail.                     *)
Rearm ==
  /\ rearms < MaxRearms
  /\ rearms' = rearms + 1
  /\ marketsLoaded' = FALSE
  /\ onewaySet' = FALSE
  /\ cached' = [s \in Symbols |-> 0]
  /\ rows' = saved /\ mirror' = saved
  /\ astray' = astray \union Unsaved
  /\ doubtful' = doubtful \union astray'
  /\ \E k \in 0 .. Lower(2, Threshold) : SucceedsThenFails(k)
  /\ Return
  /\ UNCHANGED <<venue, now, saved, orders>>

Call ==
  \/ FailsFast
  \/ RoundsToNothing
  \/ ConfigAnswered
  \/ \E error \in Errors : Raises(error)
  \/ Unreachable
  \/ ConfigAnswerLost
  \/ order # NoOrder /\ \E e \in 1 .. order.qty : OrderAnswerLost(e)
  \/ order # NoOrder /\ \E e \in 0 .. order.qty : OrderAnswered(e)

Next ==
  \/ \E s \in Symbols, side \in Sides, q \in Lots, l \in Leverages :
       SubmitOpen([symbol |-> s, side |-> side, qty |-> q,
                   leverage |-> l, reduceOnly |-> FALSE])
  \/ \E s \in Symbols : SubmitClose(s)
  \/ Call
  \/ \E succeeds \in BOOLEAN : Read(succeeds)
  \/ Passes
  \/ Commit
  \/ Rollback
  \/ Rearm

Spec == Init /\ [][Next]_vars

(* place_order runs: nothing but the end of the process interrupts it, and *)
(* every call it makes returns or raises.                                  *)
FairSpec == Spec /\ WF_vars(Call)
-----------------------------------------------------------------------------
(* Properties.                                                             *)

(* Whatever state the account was left in, whatever calls failed or were   *)
(* cut short, and however stale the adapter's memory: the position of a    *)
(* symbol without a trade only moves in one-way mode on isolated margin    *)
(* (binance.py:7-8, 221-256).                                              *)
OpensIsolatedOneWay ==
  [][\A s \in Symbols :
       pos'[s] # pos[s] /\ rows[s] = 0 => oneWay /\ s \in isolated]_vars

(* A close may be executed again when its answer was lost, or sized to     *)
(* what a lost open left at the venue: it lowers the position every time,  *)
(* and never turns it (binance.py:101, risk.py:365-369).                   *)
ClosesNeverReverse ==
  [][\A s \in Symbols :
       pos'[s] # pos[s] /\ rows[s] # 0 =>
         Abs(pos'[s]) < Abs(pos[s]) /\ pos'[s] * pos[s] >= 0]_vars

(* Through partial fills, rejections and ticks that fail, the mirror holds *)
(* what the venue holds, and so does the trades table unless the fill was  *)
(* rolled back out of it; after a restart both do but for those fills too. *)
(* Excepted are the symbols where the venue executed what it did not       *)
(* report (an answer was lost), reported nothing filled, or filled a close *)
(* in part (binance.py:188-190, 258-293, engine.py:166-174, 267-271).      *)
MirrorMatchesVenue ==
  \A s \in Symbols \ doubtful :
    mirror[s] = pos[s] /\ (s \notin astray => rows[s] = pos[s])

(* Some call is admitted by the breaker in this step.                      *)
Admits == /\ attempt = 0 /\ rearms' = rearms
          /\ \/ run' # run \/ attempt' > attempt
             \/ stage' # stage /\ stage' # "idle"

(* After Threshold failed calls in a row, whichever they were and over     *)
(* however many orders and ticks, no call goes out before the cooldown is  *)
(* over (resilience.py:8-10).                                              *)
ShieldsOutage ==
  [][Admits /\ run >= Threshold => now - outage >= Cooldown]_vars

(* place_order returns however the venue answers, and with the breaker     *)
(* open too: it waits for its backoffs, through which it holds up the      *)
(* whole bot, and never for the cooldown (resilience.py:12-14, 91-117).    *)
OrderResolves == stage # "idle" ~> stage = "idle"

(* place_order asks for everything once: each call it makes is a later one *)
(* of the chain or a further attempt of the same, whatever the adapter     *)
(* remembers or has just been told.  So an order makes at most five calls  *)
(* of MaxRetries + 1 attempts, however the venue answers                   *)
(* (binance.py:200-256, resilience.py:91-117).                             *)
CallsAhead(s) ==
  CASE s = "markets" -> 5 [] s = "mode" -> 4 [] s = "margin" -> 3
    [] s = "leverage" -> 2 [] s = "create" -> 1 [] s = "idle" -> 0
Advances ==
  \/ CallsAhead(stage') < CallsAhead(stage)
  \/ stage' = stage /\ attempt < attempt' /\ attempt' <= MaxRetries
OrderAdvances == [][stage # "idle" /\ now' = now => Advances]_vars

(* What comments of the code say, and the runs of the findings refute.     *)

(* "Open until the cooldown elapses, then half-open (one trial allowed)"   *)
(* (resilience.py:60): after a trial has failed, no call goes out before   *)
(* another cooldown is over.                                               *)
HalfOpenAllowsOneTrial ==
  [][Admits /\ trial # -1 => now - trial >= Cooldown]_vars

(* "Leverage is whatever the risk wall approved ... the adapter just sets  *)
(* it on the venue" (binance.py:9-10).                                     *)
OpensAtApprovedLeverage ==
  [][\A s \in Symbols :
       pos'[s] # pos[s] /\ rows[s] = 0 => venueLeverage[s] = order.leverage]_vars
=============================================================================
