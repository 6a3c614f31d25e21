--------------------------- MODULE AccountLedger ---------------------------
(***************************************************************************)
(* What the paper account promises, without netting, average entries or    *)
(* realized pnl: a ledger that writes down, per symbol, how many units it  *)
(* holds and how much money it has paid for them so far.  A fill of q      *)
(* units (negative: sold) at price f adds q to the holding and q * f to    *)
(* the money paid; commissions and funding are booked beside it.  The      *)
(* profit of a symbol at a price p is then by definition                   *)
(*                    holding * p - paid                                   *)
(* whatever the order in which positions were opened, added to, reduced    *)
(* or reversed.  PaperAccount is shown to implement this module.           *)
(***************************************************************************)
EXTENDS Integers

CONSTANTS
  Symbols,   \* the symbols traded
  Lots,      \* the quantities an order may have, a set of positive integers
  FillPrices \* the prices an order may be filled at

VARIABLES
  holding,   \* [Symbols -> Int] units held, negative when short
  paid,      \* [Symbols -> Int] money paid for them, net of money received
  charges    \* Int: commissions paid minus funding received

ledgerVars == <<holding, paid, charges>>

LedgerInit ==
  /\ holding = [s \in Symbols |-> 0]
  /\ paid = [s \in Symbols |-> 0]
  /\ charges = 0

(* One execution: q units of s at price f, at a commission that is never a *)
(* credit.                                                                 *)
Execute(s, q, f) ==
  /\ holding' = [holding EXCEPT ![s] = @ + q]
  /\ paid' = [paid EXCEPT ![s] = @ + q * f]
  /\ charges' \in Int
  /\ charges' >= charges

(* One funding settlement: money in or out, no holding touched.            *)
Settle ==
  /\ charges' \in Int
  /\ UNCHANGED <<holding, paid>>

LedgerNext ==
  \/ \E s \in Symbols, lot \in Lots, f \in FillPrices :
       Execute(s, lot, f) \/ Execute(s, -lot, f)
  \/ Settle

LedgerSpec == LedgerInit /\ [][LedgerNext]_ledgerVars
=============================================================================
