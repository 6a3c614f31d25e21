----------------------------- MODULE MCRiskWall -----------------------------
(***************************************************************************)
(* RiskWall on small instances.  From 100 to 97 is the wall's daily loss,  *)
(* from 97 to 87 the portfolio's, and from 100 to 87 the drawdown ceiling. *)
(***************************************************************************)
EXTENDS RiskWall, TLC

CONSTANTS btc, eth

MCSymbols == {btc, eth}
MCSymmetry == Permutations(MCSymbols)

MCEquities == {87, 97, 100}
=============================================================================
