---------------------------- MODULE MCBotEngine ----------------------------
(***************************************************************************)
(* BotEngine on small instances: two strategies, one of which has a second *)
(* version that may be added or proposed and approved.                     *)
(***************************************************************************)
EXTENDS BotEngine

CONSTANTS alpha, beta, a1, a2, b1, btc, eth

MCStrategies == {alpha, beta}
MCVersions == {a1, a2, b1}
MCSymbols == {btc, eth}
MCStrategyOf == [v \in MCVersions |-> IF v = b1 THEN beta ELSE alpha]
MCFirstVersion == [s \in MCStrategies |-> IF s = beta THEN b1 ELSE a1]

(* Each strategy on a symbol of its own.                                   *)
MCSymbolOf == [v \in MCVersions |-> IF v = b1 THEN eth ELSE btc]

(* Both strategies on one symbol.                                          *)
MCSharedSymbols == {btc}
MCSharedSymbolOf == [v \in MCVersions |-> btc]
MCSharedMaxBars == [s \in MCSharedSymbols |-> 2]

(* Enough bars for alpha to open and close, and for beta to open.          *)
MCMaxBars == [s \in MCSymbols |-> IF s = btc THEN 2 ELSE 1]

(* One strategy live, the other on paper, the gate open: every other       *)
(* setting of the switches is a command away.                              *)
MCInit ==
  /\ Init
  /\ globalMode = "live"
  /\ stratMode = [s \in MCStrategies |-> IF s = beta THEN "paper" ELSE "live"]
  /\ gate

MCSpec == MCInit /\ [][Next]_vars
MCFairSpec == MCSpec /\ Fairness
=============================================================================
