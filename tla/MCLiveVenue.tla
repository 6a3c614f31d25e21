---------------------------- MODULE MCLiveVenue ----------------------------
(***************************************************************************)
(* LiveVenue on small instances.                                           *)
(***************************************************************************)
EXTENDS LiveVenue, TLC

CONSTANTS btc, eth

MCSymbols == {btc, eth}
MCSymmetry == Permutations(MCSymbols)
=============================================================================
