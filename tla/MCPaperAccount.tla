--------------------------- MODULE MCPaperAccount ---------------------------
(***************************************************************************)
(* PaperAccount on a small instance: enough orders to open, add, reduce,   *)
(* close and reverse a position, two prices 1% apart.                      *)
(***************************************************************************)
EXTENDS PaperAccount

MCRefPrices == {10000, 10400}
MCLots == {1, 2}
MCFundingRates == {-10, 10}
=============================================================================
