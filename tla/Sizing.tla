-------------------------------- MODULE Sizing --------------------------------
(***************************************************************************)
(* Position sizing, liquidation and capacity (execution/sizing.py,         *)
(* execution/capacity.py).  Quantities are whole lots, rounded down; rates *)
(* are in basis points; a missing level, distance or volume is 0.          *)
(***************************************************************************)
EXTENDS Integers

LOCAL Least(a, b) == IF a < b THEN a ELSE b

MarginCap(equity, price, leverage) == (equity * leverage) \div price

Wanted(sizing, equity, price, leverage, riskBps, stopDistance, fractionBps) ==
  IF sizing = "atr"
  THEN IF stopDistance <= 0 THEN 0 ELSE (equity * riskBps) \div (10000 * stopDistance)
  ELSE (equity * fractionBps * leverage) \div (10000 * price)

PositionSize(sizing, equity, price, leverage, riskBps, stopDistance, fractionBps) ==
  IF equity <= 0 \/ price <= 0 \/ leverage <= 0 THEN 0
  ELSE Least(Wanted(sizing, equity, price, leverage, riskBps, stopDistance, fractionBps),
             MarginCap(equity, price, leverage))

\* The adverse move that leaves the maintenance margin.
MarginMove(leverage, maintenanceBps) == 10000 \div leverage - maintenanceBps

\* 0 where there is none: unlevered, or no room above the maintenance margin.
LiquidationPrice(entry, side, leverage, maintenanceBps) ==
  IF entry <= 0 \/ leverage <= 1 \/ MarginMove(leverage, maintenanceBps) <= 0 THEN 0
  ELSE (entry * (10000 - side * MarginMove(leverage, maintenanceBps))) \div 10000

\* Without a volume there is no participation to be over the cap.
Measurable(qty, volume) == qty > 0 /\ volume > 0
ExceedsCap(qty, volume, capBps) == Measurable(qty, volume) /\ qty * 10000 > capBps * volume

CapacityUsd(equity, qty, volume, price, capBps) ==
  IF ~Measurable(qty, volume) \/ equity <= 0 \/ price <= 0 THEN 0
  ELSE (equity * capBps * volume) \div (10000 * qty)
==============================================================================
