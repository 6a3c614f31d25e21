------------------------ MODULE PaperAccountProofs ------------------------
(***************************************************************************)
(* PaperAccount keeps its types and implements AccountLedger, for every    *)
(* set of symbols, prices, lots and rates.                                 *)
(***************************************************************************)
EXTENDS PaperAccount, FiniteTheorems, TLAPS

(* Quotients of naturals.                                                  *)
LEMMA QuotientNat ==
  ASSUME NEW a \in Nat, NEW b \in Nat \ {0}
  PROVE  a \div b \in Nat
  OBVIOUS

(* A quotient times its divisor is not above the dividend.                 *)
LEMMA DivBelow ==
  ASSUME NEW n \in Nat, NEW p \in Nat \ {0}, n < p * 10000
  PROVE  n \div 10000 \in 0 .. (p - 1)
  OBVIOUS

(* Orders fill at positive prices.                                         *)
LEMMA FillPositive ==
  ASSUME NEW side \in Sides, NEW ref \in RefPrices
  PROVE  FillPrice(side, ref) \in Nat \ {0}
  <1> DEFINE n == ref * SlippageBps
             slip == n \div 10000
  <1>1. ref \in Nat \ {0} /\ SlippageBps \in 0 .. 9999
    BY PricesAssumption, RatesAssumption
  <1>2. n \in Nat /\ n < ref * 10000
    BY <1>1
  <1>3. FillPrice(side, ref) = ref + side * slip
    BY DEF FillPrice
  <1> HIDE DEF n
  <1>4. slip \in 0 .. (ref - 1)
    BY <1>1, <1>2, DivBelow
  <1> HIDE DEF slip
  <1> QED
    BY <1>1, <1>3, <1>4 DEF Sides

(* A commission is never a credit.                                         *)
LEMMA CommissionNat ==
  ASSUME NEW lot \in Lots, NEW f \in Nat
  PROVE  Commission(lot, f) \in Nat
  <1>1. CommissionBps * lot * f \in Nat
    BY LotsAssumption, RatesAssumption
  <1> QED
    BY <1>1, QuotientNat DEF Commission

(* Netting leaves a cost that is a natural number, none when the position  *)
(* is gone, and realizes an integer.                                       *)
LEMMA CostAfterNat ==
  ASSUME NEW q \in Int, NEW f \in Nat, NEW now \in Int, NEW c \in Nat
  PROVE  /\ CostAfter(q, f, now, c) \in Nat
         /\ now = 0 /\ c = 0 /\ q = 0 => CostAfter(q, f, now, c) = 0
         /\ now # 0 /\ now + q = 0 => CostAfter(q, f, now, c) = 0
  <1>1. Abs(now + q) \in Nat /\ Abs(q) \in Nat
    BY DEF Abs
  <1>2. Abs(now + q) * f \in Nat /\ Abs(q) * f \in Nat /\ c * Abs(now + q) \in Nat
    BY <1>1
  <1>3. CASE Closes(q, now)
    <2>1. CostAfter(q, f, now, c) = Abs(now + q) * f
      BY <1>3 DEF CostAfter, Closes, Reduces
    <2>2. now + q = 0 => Abs(now + q) * f = 0
      BY DEF Abs
    <2> QED
      BY <2>1, <2>2, <1>2, <1>3 DEF Closes
  <1>4. CASE ~Closes(q, now) /\ Reduces(q, now)
    <2>1. CostAfter(q, f, now, c) = (c * Abs(now + q)) \div Abs(now)
      BY <1>4 DEF CostAfter
    <2>2. Abs(now) \in Nat \ {0} /\ now # 0 /\ now + q # 0
      BY <1>4 DEF Reduces, Abs, Sign
    <2> QED
      BY <2>1, <2>2, <1>2, QuotientNat
  <1>5. CASE ~Closes(q, now) /\ ~Reduces(q, now)
    <2>1. CostAfter(q, f, now, c) = c + Abs(q) * f
      BY <1>5 DEF CostAfter
    <2>2. now # 0 => now + q # 0
      BY <1>5 DEF Closes, Sign
    <2>3. q = 0 => Abs(q) * f = 0
      BY DEF Abs
    <2> QED
      BY <2>1, <2>2, <2>3, <1>2
  <1> QED
    BY <1>3, <1>4, <1>5
(* A fill realizes a whole number.                                         *)
LEMMA RealizesInt ==
  ASSUME NEW q \in Int, NEW f \in Nat, NEW now \in Int, NEW c \in Nat
  PROVE  Realizes(q, f, now, c) \in Int
  <1> DEFINE after == CostAfter(q, f, now, c)
  <1>1. CASE Closes(q, now)
    <2>1. now * f \in Int /\ Sign(now) * c \in Int
      BY DEF Sign
    <2> QED BY <1>1, <2>1 DEF Realizes, Closes, Reduces
  <1>2. CASE ~Closes(q, now) /\ Reduces(q, now)
    <2>1. Abs(q) * f \in Int
      BY DEF Abs
    <2>2. after \in Nat
      BY CostAfterNat
    <2> HIDE DEF after
    <2>3. Sign(now) * (Abs(q) * f - (c - after)) \in Int
      BY <2>1, <2>2 DEF Sign
    <2> QED BY <1>2, <2>3 DEF Realizes, after
  <1>3. CASE ~Closes(q, now) /\ ~Reduces(q, now)
    BY <1>3 DEF Realizes
  <1> QED BY <1>1, <1>2, <1>3
-----------------------------------------------------------------------------
(* The account without a position has no cost: what the ledger needs to    *)
(* know when the next position opens.                                      *)
FlatHasNoCost == \A s \in Symbols : size[s] = 0 => cost[s] = 0

AccountInv == TypeOK /\ FlatHasNoCost

(* The initial states satisfy the invariant.                               *)
LEMMA InitInv == Init => AccountInv
  BY BoundsAssumption DEF Init, AccountInv, TypeOK, FlatHasNoCost

(* An order keeps the invariant.                                           *)
LEMMA PlaceOrderInv ==
  ASSUME AccountInv, NEW s \in Symbols, NEW side \in Sides, NEW lot \in Lots,
         NEW ref \in RefPrices, PlaceOrder(s, side, lot, ref)
  PROVE  AccountInv'
  <1> DEFINE f == FillPrice(side, ref)
             q == side * lot
             pnl == Realizes(q, f, size[s], cost[s])
             after == CostAfter(q, f, size[s], cost[s])
  <1>1. f \in Nat /\ q \in Int /\ q # 0
    BY FillPositive, LotsAssumption DEF Sides
  <1>2. size[s] \in Int /\ cost[s] \in Nat
    BY DEF AccountInv, TypeOK
  <1>3. /\ after \in Nat
        /\ size[s] # 0 /\ size[s] + q = 0 => after = 0
    <2> HIDE DEF f, q
    <2> QED BY <1>1, <1>2, CostAfterNat
  <1>4. pnl \in Int
    <2> HIDE DEF f, q
    <2> QED BY <1>1, <1>2, RealizesInt
  <1>5. Commission(lot, f) \in Nat
    BY CommissionNat, <1>1
  <1>6. /\ orderSeq < MaxOrders
        /\ orderSeq' = orderSeq + 1
        /\ cash' = cash - Commission(lot, f) + pnl
        /\ size' = [size EXCEPT ![s] = @ + q]
        /\ cost' = [cost EXCEPT ![s] = after]
        /\ mark' = [mark EXCEPT ![s] = f]
        /\ realized' = realized + pnl
        /\ reported' = [reported EXCEPT ![s] = @ + pnl]
        /\ commission' = commission + Commission(lot, f)
        /\ funding' = funding
    BY DEF PlaceOrder, CashAfter, AccountInv, TypeOK
  <1> HIDE DEF f, q, pnl, after
  <1>7. TypeOK'
    <2>1. cash' \in Int /\ realized' \in Int /\ funding' \in Int /\ commission' \in Nat
      BY <1>4, <1>5, <1>6 DEF AccountInv, TypeOK
    <2>2. size' \in [Symbols -> Int] /\ reported' \in [Symbols -> Int]
      BY <1>1, <1>4, <1>6 DEF AccountInv, TypeOK
    <2>3. cost' \in [Symbols -> Nat] /\ mark' \in [Symbols -> Nat]
      BY <1>1, <1>3, <1>6 DEF AccountInv, TypeOK
    <2>4. orderSeq' \in 0 .. MaxOrders
      BY <1>6, BoundsAssumption DEF AccountInv, TypeOK
    <2> QED
      BY <2>1, <2>2, <2>3, <2>4 DEF TypeOK
  <1>8. FlatHasNoCost'
    <2> SUFFICES ASSUME NEW u \in Symbols, size'[u] = 0
                 PROVE  cost'[u] = 0
      BY DEF FlatHasNoCost
    <2>1. CASE u = s
      <3>1. size[s] + q = 0
        BY <2>1, <1>6 DEF AccountInv, TypeOK
      <3>2. cost'[s] = after
        BY <1>6 DEF AccountInv, TypeOK
      <3> QED
        BY <3>1, <3>2, <2>1, <1>1, <1>2, <1>3
    <2>2. CASE u # s
      BY <2>2, <1>6 DEF AccountInv, TypeOK, FlatHasNoCost
    <2> QED
      BY <2>1, <2>2
  <1> QED
    BY <1>7, <1>8 DEF AccountInv

(* A mark keeps the invariant.                                             *)
LEMMA MarkInv ==
  ASSUME AccountInv, NEW s \in Symbols, NEW price \in RefPrices, Mark(s, price)
  PROVE  AccountInv'
  BY PricesAssumption DEF AccountInv, TypeOK, FlatHasNoCost, Mark

(* A settlement pays a whole number.                                       *)
LEMMA FundingPayInt ==
  ASSUME TypeOK, NEW s \in Symbols, NEW rate \in FundingRates
  PROVE  FundingPay(s, rate) \in Int
  <1>1. cost[s] * rate \in Int
    BY RatesAssumption DEF TypeOK
  <1>2. (cost[s] * rate) \div 10000 \in Int
    BY <1>1
  <1> QED
    BY <1>2 DEF FundingPay, TypeOK, Sign

(* A funding settlement keeps the invariant.                               *)
LEMMA AccrueFundingInv ==
  ASSUME AccountInv, NEW s \in Symbols, NEW rate \in FundingRates, AccrueFunding(s, rate)
  PROVE  AccountInv'
  <1>1. FundingPay(s, rate) \in Int
    BY FundingPayInt DEF AccountInv
  <1> QED
    BY <1>1 DEF AccountInv, TypeOK, FlatHasNoCost, AccrueFunding

(* The types and FlatHasNoCost hold in every reachable state.              *)
THEOREM AccountInvariant == Spec => []AccountInv
  <1>1. AccountInv /\ [Next]_vars => AccountInv'
    <2> SUFFICES ASSUME AccountInv, [Next]_vars
                 PROVE  AccountInv'
      OBVIOUS
    <2>1. CASE UNCHANGED vars
      BY <2>1 DEF vars, AccountInv, TypeOK, FlatHasNoCost
    <2>2. CASE Next
      BY <2>2, PlaceOrderInv, MarkInv, AccrueFundingInv DEF Next
    <2> QED
      BY <2>1, <2>2
  <1> QED
    BY <1>1, InitInv, PTL DEF Spec

(* Every variable keeps its type (paper.py:33-52).                         *)
THEOREM TypeCorrect == Spec => []TypeOK
  BY AccountInvariant, PTL DEF AccountInv
-----------------------------------------------------------------------------
(* Netting loses no money: whatever a fill does to the position, the cost  *)
(* it leaves behind less the pnl it realizes is the cost there was plus    *)
(* the money paid for the fill.  The share of the cost a partial reduce    *)
(* keeps cancels out, however it is rounded.                               *)
LEMMA NettingKeepsPaid ==
  ASSUME NEW q \in Int \ {0}, NEW f \in Nat, NEW now \in Int, NEW c \in Nat,
         now = 0 => c = 0
  PROVE  Sign(now + q) * CostAfter(q, f, now, c) - Realizes(q, f, now, c)
           = Sign(now) * c + q * f
  <1>1. CASE Closes(q, now)
    <2>1. /\ CostAfter(q, f, now, c) = Abs(now + q) * f
          /\ Realizes(q, f, now, c) = now * f - Sign(now) * c
      BY <1>1 DEF CostAfter, Realizes, Closes, Reduces
    <2>2. Sign(now + q) * (Abs(now + q) * f) = now * f + q * f
      BY DEF Sign, Abs
    <2>3. Sign(now) * c \in Int /\ now * f \in Int /\ q * f \in Int
      BY DEF Sign
    <2> QED
      BY <2>1, <2>2, <2>3
  <1>2. CASE ~Closes(q, now) /\ Reduces(q, now)
    <2> DEFINE after == CostAfter(q, f, now, c)
    <2>1. Realizes(q, f, now, c) = Sign(now) * (Abs(q) * f - (c - after))
      BY <1>2 DEF Realizes
    <2>2. after \in Nat
      BY CostAfterNat
    <2>3. Sign(now + q) = Sign(now) /\ Sign(now) \in {1, -1} /\ q = -Sign(now) * Abs(q)
      BY <1>2 DEF Reduces, Sign, Abs
    <2> DEFINE x == Abs(q) * f
    <2>4. x \in Int /\ q * f = -Sign(now) * x
      BY <2>3 DEF Abs, Sign
    <2> SUFFICES Sign(now) * after - Sign(now) * (x - (c - after))
                   = Sign(now) * c - Sign(now) * x
      BY <2>1, <2>3, <2>4
    <2> HIDE DEF after, x
    <2>5. CASE Sign(now) = 1
      BY <2>2, <2>4, <2>5
    <2>6. CASE Sign(now) = -1
      BY <2>2, <2>4, <2>6
    <2> QED
      BY <2>3, <2>5, <2>6
  <1>3. CASE ~Closes(q, now) /\ ~Reduces(q, now)
    <2>1. /\ CostAfter(q, f, now, c) = c + Abs(q) * f
          /\ Realizes(q, f, now, c) = 0
      BY <1>3 DEF CostAfter, Realizes
    <2>2. Abs(q) * f \in Int /\ q * f = Sign(q) * (Abs(q) * f)
      BY DEF Abs, Sign
    <2>3. CASE now = 0
      BY <2>1, <2>2, <2>3 DEF Sign
    <2>4. CASE now # 0
      <3>1. Sign(now + q) = Sign(now) /\ Sign(q) = Sign(now) /\ Sign(now) \in {1, -1}
        BY <2>4, <1>3 DEF Closes, Reduces, Sign, Abs
      <3> QED
        BY <3>1, <2>1, <2>2
    <2> QED
      BY <2>3, <2>4
  <1> QED
    BY <1>1, <1>2, <1>3

(* An order is an execution of the ledger.                                 *)
LEMMA PlaceOrderImplements ==
  ASSUME AccountInv, NEW s \in Symbols, NEW side \in Sides, NEW lot \in Lots,
         NEW ref \in RefPrices, PlaceOrder(s, side, lot, ref)
  PROVE  Ledger!LedgerNext
  <1> DEFINE f == FillPrice(side, ref)
             q == side * lot
             pnl == Realizes(q, f, size[s], cost[s])
             after == CostAfter(q, f, size[s], cost[s])
             paid == [u \in Symbols |-> Sign(size[u]) * cost[u] - reported[u]]
  <1>1. f \in Nat /\ f \in FillPrices /\ q \in Int \ {0}
    BY FillPositive, LotsAssumption DEF Sides, FillPrices
  <1>2. size[s] \in Int /\ cost[s] \in Nat /\ (size[s] = 0 => cost[s] = 0)
    BY DEF AccountInv, TypeOK, FlatHasNoCost
  <1>3. Sign(size[s] + q) * after - pnl = Sign(size[s]) * cost[s] + q * f
    <2> HIDE DEF f, q
    <2> QED BY <1>1, <1>2, NettingKeepsPaid
  <1>4. Commission(lot, f) \in Nat
    BY CommissionNat, <1>1
  <1>5. /\ size' = [size EXCEPT ![s] = @ + q]
        /\ cost' = [cost EXCEPT ![s] = after]
        /\ reported' = [reported EXCEPT ![s] = @ + pnl]
        /\ commission' = commission + Commission(lot, f)
        /\ funding' = funding
    BY DEF PlaceOrder, AccountInv, TypeOK
  <1>6. AccountInv'
    BY PlaceOrderInv
  <1>7. paid' = [paid EXCEPT ![s] = @ + q * f]
    <2> SUFFICES ASSUME NEW u \in Symbols
                 PROVE  paid'[u] = [paid EXCEPT ![s] = @ + q * f][u]
      OBVIOUS
    <2>1. CASE u = s
      <3>1. size'[s] = size[s] + q /\ cost'[s] = after /\ reported'[s] = reported[s] + pnl
        BY <1>5 DEF AccountInv, TypeOK
      <3>2. /\ cost'[s] \in Nat /\ size'[s] \in Int /\ reported'[s] \in Int
            /\ reported[s] \in Int
        BY <1>6 DEF AccountInv, TypeOK
      <3>3. paid'[s] = Sign(size[s] + q) * after - (reported[s] + pnl)
        BY <3>1
      <3>4. pnl \in Int
        <4> HIDE DEF f, q
        <4> QED BY RealizesInt, <1>1, <1>2
      <3>5. q * f \in Int /\ Sign(size[s]) * cost[s] \in Int /\ Sign(size[s] + q) * after \in Int
        BY <1>1, <1>2, <3>1, <3>2 DEF Sign
      <3>6. paid[s] = Sign(size[s]) * cost[s] - reported[s]
        OBVIOUS
      <3> HIDE DEF pnl, q, f, after, paid
      <3>7. paid'[s] = paid[s] + q * f
        BY <3>2, <3>3, <3>4, <3>5, <3>6, <1>3
      <3> QED
        BY <3>7, <2>1 DEF paid
    <2>2. CASE u # s
      BY <2>2, <1>5 DEF AccountInv, TypeOK
    <2> QED
      BY <2>1, <2>2
  <1>8. (commission - funding)' \in Int /\ (commission - funding)' >= commission - funding
    BY <1>4, <1>5, <1>6 DEF AccountInv, TypeOK
  <1>9. Ledger!Execute(s, q, f)
    BY <1>5, <1>7, <1>8 DEF Ledger!Execute
  <1> QED
    BY <1>1, <1>9, LotsAssumption DEF Ledger!LedgerNext, Sides

(* The account implements the ledger, whatever it trades (paper.py:54-190).*)
THEOREM AccountImplementsLedger == Spec => ImplementsLedger
  <1>1. Init => Ledger!LedgerInit
    BY DEF Init, Ledger!LedgerInit, Sign
  <1>2. AccountInv /\ [Next]_vars => [Ledger!LedgerNext]_(Ledger!ledgerVars)
    <2> SUFFICES ASSUME AccountInv, [Next]_vars
                 PROVE  [Ledger!LedgerNext]_(Ledger!ledgerVars)
      OBVIOUS
    <2>1. CASE UNCHANGED vars
      BY <2>1 DEF vars, Ledger!ledgerVars
    <2>2. ASSUME NEW s \in Symbols, NEW side \in Sides, NEW lot \in Lots,
                 NEW ref \in RefPrices, PlaceOrder(s, side, lot, ref)
          PROVE  Ledger!LedgerNext
      BY <2>2, PlaceOrderImplements
    <2>3. ASSUME NEW s \in Symbols, NEW price \in RefPrices, Mark(s, price)
          PROVE  UNCHANGED Ledger!ledgerVars
      BY <2>3 DEF Mark, Ledger!ledgerVars
    <2>4. ASSUME NEW s \in Symbols, NEW rate \in FundingRates, AccrueFunding(s, rate)
          PROVE  Ledger!LedgerNext
      <3>1. AccountInv'
        BY <2>4, AccrueFundingInv
      <3> QED
        BY <2>4, <3>1 DEF AccrueFunding, AccountInv, TypeOK, Ledger!LedgerNext, Ledger!Settle
    <2> QED
      BY <2>1, <2>2, <2>3, <2>4 DEF Next
  <1> QED
    BY <1>1, <1>2, AccountInvariant, PTL DEF Spec, ImplementsLedger, Ledger!LedgerSpec
-----------------------------------------------------------------------------
(* Whatever it does to the position, an order is filled against the taker. *)
LEMMA OrderCosts ==
  ASSUME AccountInv, NEW s \in Symbols, NEW side \in Sides, NEW lot \in Lots,
         NEW filled \in RefPrices, PlaceOrder(s, side, lot, filled),
         NEW ref \in RefPrices, FillPrice(side, ref) = FillPrice(side, filled)
  PROVE  WorthAt(s, ref)' <= WorthAt(s, ref)
  <1> DEFINE f == FillPrice(side, filled)
             q == side * lot
             pnl == Realizes(q, f, size[s], cost[s])
             after == CostAfter(q, f, size[s], cost[s])
             fee == Commission(lot, f)
  <1>1. f \in Nat /\ q \in Int \ {0} /\ lot \in Nat /\ ref \in Nat
    BY FillPositive, LotsAssumption, PricesAssumption DEF Sides
  <1>2. size[s] \in Int /\ cost[s] \in Nat /\ (size[s] = 0 => cost[s] = 0) /\ cash \in Int
    BY DEF AccountInv, TypeOK, FlatHasNoCost
  <1>3. /\ Sign(size[s] + q) * after - pnl = Sign(size[s]) * cost[s] + q * f
        /\ after \in Nat /\ pnl \in Int
    <2> HIDE DEF f, q
    <2> QED BY <1>1, <1>2, NettingKeepsPaid, CostAfterNat, RealizesInt
  <1>4. fee \in Nat
    BY CommissionNat, <1>1
  <1>5. cash' = cash - fee + pnl /\ size'[s] = size[s] + q /\ cost'[s] = after
    BY DEF PlaceOrder, CashAfter, AccountInv, TypeOK
  <1>6. q * ref <= q * f
    <2>1. \E slip \in Nat : f = ref + side * slip
      <3>1. ref * SlippageBps \in Nat
        BY <1>1, RatesAssumption
      <3>2. (ref * SlippageBps) \div 10000 \in Nat
        BY <3>1, QuotientNat
      <3> QED
        BY <3>2 DEF FillPrice
    <2>2. PICK slip \in Nat : f = ref + side * slip
      BY <2>1
    <2> HIDE DEF f
    <2>3. CASE side = 1
      BY <1>1, <2>2, <2>3
    <2>4. CASE side = -1
      <3>1. f <= ref /\ q = -lot
        BY <1>1, <2>2, <2>4
      <3>2. lot * f <= lot * ref
        BY <1>1, <3>1
      <3> QED
        BY <1>1, <3>1, <3>2
    <2> QED
      BY <2>3, <2>4 DEF Sides
  <1> HIDE DEF f, q, pnl, after, fee
  <1>7. /\ q * f \in Int /\ q * ref \in Int /\ size[s] * ref \in Int
        /\ Sign(size[s]) * cost[s] \in Int /\ Sign(size[s] + q) * after \in Int
        /\ (size[s] + q) * ref = size[s] * ref + q * ref
    BY <1>1, <1>2, <1>3 DEF Sign
  <1>8. /\ WorthAt(s, ref) = cash + size[s] * ref - Sign(size[s]) * cost[s]
        /\ WorthAt(s, ref)' = (cash - fee + pnl) + (size[s] + q) * ref - Sign(size[s] + q) * after
    BY <1>5 DEF WorthAt
  <1> QED
    BY <1>2, <1>3, <1>4, <1>6, <1>7, <1>8

(* Trading alone never makes money, whatever is traded (paper.py:66-73).   *)
THEOREM TradingOnlyCosts == Spec => OrdersOnlyCost
  <1> DEFINE Order(u, ref, side) ==
        /\ orderSeq' # orderSeq
        /\ Sign(size'[u] - size[u]) = side
        /\ mark'[u] = FillPrice(side, ref)
  <1>1. ASSUME AccountInv, [Next]_vars, NEW u \in Symbols, NEW ref \in RefPrices,
               NEW side \in Sides, Order(u, ref, side)
        PROVE  WorthAt(u, ref)' <= WorthAt(u, ref)
    <2>1. PICK s \in Symbols, way \in Sides, lot \in Lots, filled \in RefPrices :
            PlaceOrder(s, way, lot, filled)
      BY <1>1 DEF Next, Mark, AccrueFunding, vars
    <2>2. lot \in Nat \ {0} /\ size \in [Symbols -> Int] /\ mark \in [Symbols -> Nat]
      BY <1>1, LotsAssumption DEF AccountInv, TypeOK
    <2>3. /\ size' = [size EXCEPT ![s] = @ + way * lot]
          /\ mark' = [mark EXCEPT ![s] = FillPrice(way, filled)]
      BY <2>1 DEF PlaceOrder
    <2>4. u = s
      BY <1>1, <2>2, <2>3 DEF Sides, Sign
    <2>5. size'[s] - size[s] = way * lot
      BY <2>2, <2>3 DEF Sides
    <2>6. side = way
      BY <1>1, <2>2, <2>4, <2>5 DEF Sides, Sign
    <2>7. FillPrice(side, ref) = FillPrice(side, filled)
      BY <1>1, <2>2, <2>3, <2>4, <2>6
    <2> QED
      BY <1>1, <2>1, <2>4, <2>6, <2>7, OrderCosts
  <1>2. AccountInv /\ [Next]_vars =>
          [\A s \in Symbols, ref \in RefPrices, side \in Sides :
             Order(s, ref, side) => WorthAt(s, ref)' <= WorthAt(s, ref)]_vars
    BY <1>1
  <1> QED
    BY <1>2, AccountInvariant, PTL DEF Spec, OrdersOnlyCost
-----------------------------------------------------------------------------
(* The share of a cost between two multiples is between their shares.      *)
LEMMA ShareBetween ==
  ASSUME NEW c \in Nat, NEW n \in Nat \ {0}, NEW m \in Nat, NEW f \in Nat
  PROVE  /\ n * f <= c => m * f <= (c * m) \div n
         /\ c <= n * f => (c * m) \div n <= m * f
  <1>1. /\ c * m \in Nat /\ m * f \in Nat /\ (n * f) * m = (m * f) * n /\ n * f \in Nat
    OBVIOUS
  <1>2. n * f <= c => (m * f) * n <= c * m
    BY <1>1
  <1>3. c <= n * f => c * m <= (m * f) * n
    BY <1>1
  <1>4. ASSUME NEW x \in Nat, NEW y \in Nat
        PROVE  /\ y * n <= x => y <= x \div n
               /\ x <= y * n => x \div n <= y
    OBVIOUS
  <1> QED
    BY <1>1, <1>2, <1>3, <1>4

Between(n, c) ==
  /\ \E f \in FillPrices : n * f <= c
  /\ \E f \in FillPrices : c <= n * f

(* A price that is filled at is natural.                                   *)
LEMMA FillPricesNat == FillPrices \subseteq Nat
  BY FillPositive DEF FillPrices

(* Netting leaves an entry between the prices that fill.                   *)
LEMMA NettingBetween ==
  ASSUME NEW q \in Int \ {0}, NEW f \in FillPrices, NEW now \in Int, NEW c \in Nat,
         now = 0 => c = 0, now # 0 => Between(Abs(now), c), now + q # 0
  PROVE  Between(Abs(now + q), CostAfter(q, f, now, c))
  <1> DEFINE m == Abs(now + q)
             n == Abs(now)
             k == Abs(q)
  <1>0. f \in Nat /\ m \in Nat /\ n \in Nat /\ k \in Nat
    BY FillPricesNat DEF Abs
  <1>1. CASE Closes(q, now)
    <2>1. CostAfter(q, f, now, c) = m * f
      BY <1>1 DEF CostAfter, Closes, Reduces
    <2> HIDE DEF m
    <2>2. m * f \in Nat
      BY <1>0
    <2> QED
      BY <2>1, <2>2 DEF Between, m
  <1>2. CASE ~Closes(q, now) /\ Reduces(q, now)
    <2>1. CostAfter(q, f, now, c) = (c * m) \div n
      BY <1>2 DEF CostAfter
    <2>2. n \in Nat \ {0} /\ Between(n, c)
      BY <1>2 DEF Reduces, Abs
    <2>3. PICK low \in FillPrices, high \in FillPrices : n * low <= c /\ c <= n * high
      BY <2>2 DEF Between
    <2>4. low \in Nat /\ high \in Nat
      BY FillPricesNat
    <2> HIDE DEF m, n
    <2>5. m * low <= (c * m) \div n /\ (c * m) \div n <= m * high
      BY <1>0, <2>2, <2>3, <2>4, ShareBetween
    <2> QED
      BY <2>1, <2>5 DEF Between, m
  <1>3. CASE ~Closes(q, now) /\ ~Reduces(q, now)
    <2>1. CostAfter(q, f, now, c) = c + k * f
      BY <1>3 DEF CostAfter
    <2>2. m = n + k
      BY <1>3 DEF Closes, Reduces, Abs, Sign
    <2>3. CASE now = 0
      <3>1. n = 0 /\ c + k * f = m * f /\ m * f \in Nat
        BY <1>0, <2>2, <2>3 DEF Abs
      <3> QED
        BY <2>1, <3>1 DEF Between
    <2>4. CASE now # 0
      <3>1. PICK low \in FillPrices, high \in FillPrices : n * low <= c /\ c <= n * high
        BY <2>4 DEF Between
      <3>2. low \in Nat /\ high \in Nat
        BY FillPricesNat
      <3> HIDE DEF m, n, k
      <3>3. /\ m * low = n * low + k * low /\ m * high = n * high + k * high
            /\ m * f = n * f + k * f
            /\ n * low \in Nat /\ k * low \in Nat /\ n * high \in Nat /\ k * high \in Nat
            /\ n * f \in Nat /\ k * f \in Nat
        BY <1>0, <2>2, <3>2
      <3>4. \E g \in FillPrices : m * g <= c + k * f
        <4>1. CASE low <= f
          <5>1. k * low <= k * f
            BY <1>0, <3>2, <4>1
          <5>2. m * low <= c + k * f
            BY <3>1, <3>3, <5>1
          <5> QED
            BY <5>2
        <4>2. CASE f <= low
          <5>1. n * f <= n * low
            BY <1>0, <3>2, <4>2
          <5>2. m * f <= c + k * f
            BY <3>1, <3>3, <5>1
          <5> QED
            BY <5>2
        <4> QED
          BY <1>0, <3>2, <4>1, <4>2
      <3>5. \E g \in FillPrices : c + k * f <= m * g
        <4>1. CASE f <= high
          <5>1. k * f <= k * high
            BY <1>0, <3>2, <4>1
          <5>2. c + k * f <= m * high
            BY <3>1, <3>3, <5>1
          <5> QED
            BY <5>2
        <4>2. CASE high <= f
          <5>1. n * high <= n * f
            BY <1>0, <3>2, <4>2
          <5>2. c + k * f <= m * f
            BY <3>1, <3>3, <5>1
          <5> QED
            BY <5>2
        <4> QED
          BY <1>0, <3>2, <4>1, <4>2
      <3> QED
        BY <2>1, <3>4, <3>5 DEF Between, m, k
    <2> QED
      BY <2>3, <2>4
  <1> QED
    BY <1>1, <1>2, <1>3

(* The average entry of a position lies between the lowest and the highest *)
(* price fillable, for any number of fills (paper.py:156-190).             *)
THEOREM EntriesAreFillable == Spec => []EntryWithinFills
  <1> DEFINE Entry == \A s \in Symbols : size[s] # 0 => Between(Abs(size[s]), cost[s])
  <1>1. Init => Entry
    BY DEF Init
  <1>2. AccountInv /\ Entry /\ [Next]_vars => Entry'
    <2> SUFFICES ASSUME AccountInv, Entry, [Next]_vars, NEW u \in Symbols, size'[u] # 0
                 PROVE  Between(Abs(size'[u]), cost'[u])
      BY DEF Between
    <2>1. CASE size'[u] = size[u] /\ cost'[u] = cost[u]
      BY <2>1
    <2>2. CASE ~(size'[u] = size[u] /\ cost'[u] = cost[u])
      <3>1. PICK s \in Symbols, side \in Sides, lot \in Lots, ref \in RefPrices :
              PlaceOrder(s, side, lot, ref)
        BY <2>2 DEF Next, Mark, AccrueFunding, vars
      <3> DEFINE f == FillPrice(side, ref)
                 q == side * lot
      <3>2. f \in FillPrices /\ q \in Int \ {0}
        BY LotsAssumption DEF Sides, FillPrices
      <3>3. /\ size[s] \in Int /\ cost[s] \in Nat /\ (size[s] = 0 => cost[s] = 0)
            /\ size \in [Symbols -> Int] /\ cost \in [Symbols -> Nat]
        BY DEF AccountInv, TypeOK, FlatHasNoCost
      <3>4. /\ size' = [size EXCEPT ![s] = @ + q]
            /\ cost' = [cost EXCEPT ![s] = CostAfter(q, f, size[s], @)]
        BY <3>1 DEF PlaceOrder
      <3> HIDE DEF f, q
      <3>5. u = s /\ size'[u] = size[s] + q /\ cost'[u] = CostAfter(q, f, size[s], cost[s])
        BY <2>2, <3>3, <3>4
      <3>6. size[s] # 0 => Between(Abs(size[s]), cost[s])
        OBVIOUS
      <3> QED
        BY <3>2, <3>3, <3>5, <3>6, NettingBetween
    <2> QED
      BY <2>1, <2>2
  <1>3. AccountInv /\ Entry => EntryWithinFills
    BY DEF AccountInv, FlatHasNoCost, Between, EntryWithinFills
  <1> QED
    BY <1>1, <1>2, <1>3, AccountInvariant, PTL DEF Spec
-----------------------------------------------------------------------------
(* What the fills reported adds up over the symbols as Total says.         *)
LEMMA ReportedTotal ==
  /\ MapThenSumSet(Reported, Symbols) = Total(reported, Symbols)
  /\ MapThenSumSet(Reported, Symbols)' = Total(reported', Symbols)
  BY DEF Total, Reported, MapThenSumSet, MapThenFoldSet

(* The bookings of the account without the operators of the fold.          *)
Booked(sum) ==
  /\ cash = InitialCash + sum - commission + funding
  /\ realized = sum

(* An order books what it realizes and its commission.                     *)
LEMMA OrderBooks ==
  ASSUME AccountInv, Booked(Total(reported, Symbols)),
         NEW s \in Symbols, NEW side \in Sides, NEW lot \in Lots,
         NEW ref \in RefPrices, PlaceOrder(s, side, lot, ref)
  PROVE  Booked(Total(reported, Symbols))'
  <1> DEFINE f == FillPrice(side, ref)
             q == side * lot
             pnl == Realizes(q, f, size[s], cost[s])
             fee == Commission(lot, f)
             sum == Total(reported, Symbols)
  <1>1. f \in Nat /\ q \in Int
    BY FillPositive, LotsAssumption DEF Sides
  <1>2. pnl \in Int /\ fee \in Nat
    <2>1. size[s] \in Int /\ cost[s] \in Nat
      BY DEF AccountInv, TypeOK
    <2> HIDE DEF f, q
    <2> QED BY <1>1, <2>1, RealizesInt, CommissionNat
  <1>3. /\ cash' = cash - fee + pnl
        /\ realized' = realized + pnl
        /\ reported' = [reported EXCEPT ![s] = @ + pnl]
        /\ commission' = commission + fee
        /\ funding' = funding
    BY DEF PlaceOrder, CashAfter
  <1> HIDE DEF f, q, pnl, fee
  <1>4. \A u \in Symbols : reported[u] \in Int /\ reported'[u] \in Int
    BY <1>2, <1>3 DEF AccountInv, TypeOK
  <1>5. reported'[s] = reported[s] + pnl /\ \A u \in Symbols \ {s} : reported'[u] = reported[u]
    BY <1>3 DEF AccountInv, TypeOK
  <1>6. Total(reported', Symbols) = Total(reported, Symbols) + (reported'[s] - reported[s])
    BY <1>4, <1>5, SymbolsAssumption, TotalMoves
  <1>7. sum \in Int
    BY <1>4, SymbolsAssumption, TotalType
  <1>8. Total(reported', Symbols) = sum + pnl
    BY <1>2, <1>4, <1>5, <1>6, <1>7
  <1>9. Booked(Total(reported, Symbols))' <=>
          /\ cash' = InitialCash + Total(reported', Symbols) - commission' + funding'
          /\ realized' = Total(reported', Symbols)
    BY DEF Booked, Total, MapThenSumSet, MapThenFoldSet
  <1>10. cash = InitialCash + sum - commission + funding /\ realized = sum
    BY DEF Booked
  <1> HIDE DEF sum
  <1> QED
    BY <1>2, <1>3, <1>7, <1>8, <1>9, <1>10, BoundsAssumption DEF AccountInv, TypeOK

(* What the trades add up to is what the account holds, for every set of   *)
(* symbols (paper.py:71-73, 123-131, 188-190).                             *)
THEOREM AccountIsBooked == Spec => []CashIsBooked
  <1> DEFINE Inv == Booked(Total(reported, Symbols))
  <1>1. Init => Inv
    <2> SUFFICES ASSUME Init PROVE Inv
      OBVIOUS
    <2>1. \A s \in Symbols : reported[s] = 0
      BY DEF Init
    <2>2. Total(reported, Symbols) = 0
      BY <2>1, SymbolsAssumption, TotalOfZeros
    <2> QED
      BY <2>2, BoundsAssumption DEF Init, Booked
  <1>2. AccountInv /\ Inv /\ [Next]_vars => Inv'
    <2> SUFFICES ASSUME AccountInv, Inv, [Next]_vars PROVE Inv'
      OBVIOUS
    <2>1. CASE UNCHANGED <<cash, realized, funding, reported, commission>>
      BY <2>1 DEF Booked
    <2>2. ASSUME NEW s \in Symbols, NEW side \in Sides, NEW lot \in Lots,
                 NEW ref \in RefPrices, PlaceOrder(s, side, lot, ref)
          PROVE  Inv'
      BY <2>2, OrderBooks
    <2>3. ASSUME NEW s \in Symbols, NEW rate \in FundingRates, AccrueFunding(s, rate)
          PROVE  Inv'
      <3>1. /\ cash' = cash + FundingPay(s, rate)
            /\ funding' = funding + FundingPay(s, rate)
            /\ UNCHANGED <<realized, reported, commission>>
        BY <2>3 DEF AccrueFunding
      <3>2. AccountInv'
        BY <2>3, AccrueFundingInv
      <3>3. Total(reported, Symbols)' = Total(reported, Symbols)
        BY <3>1
      <3> DEFINE sum == Total(reported, Symbols)
      <3>4. sum \in Int
        BY SymbolsAssumption, TotalType DEF AccountInv, TypeOK
      <3>5. sum' = sum
        BY <3>3
      <3>6. cash = InitialCash + sum - commission + funding /\ realized = sum
        BY DEF Booked
      <3> HIDE DEF sum
      <3>7. FundingPay(s, rate) \in Int
        BY FundingPayInt DEF AccountInv
      <3>8. /\ cash' = InitialCash + sum' - commission' + funding'
            /\ realized' = sum'
        BY <3>1, <3>2, <3>4, <3>5, <3>6, <3>7, BoundsAssumption DEF AccountInv, TypeOK
      <3> QED
        BY <3>8 DEF Booked, sum
    <2> QED
      BY <2>1, <2>2, <2>3 DEF Next, Mark, vars
  <1>3. Inv => CashIsBooked
    BY ReportedTotal DEF Booked, CashIsBooked
  <1> QED
    BY <1>1, <1>2, <1>3, AccountInvariant, PTL DEF Spec
-----------------------------------------------------------------------------
(* What the ledger makes of a symbol at its mark: the worth of the units   *)
(* held, less the money paid for them.                                     *)
LedgerProfit(s) == size[s] * mark[s] - (Sign(size[s]) * cost[s] - reported[s])
ValuedByLedger ==
  Equity = InitialCash + MapThenSumSet(LedgerProfit, Symbols) - (commission - funding)

(* The equity of the account is its initial cash, the profit of the ledger *)
(* on every symbol at its mark, and no more than the charges beside it:    *)
(* for any orders and marks it is the value BookProofs shows of a backtest *)
(* (paper.py:5-8, 109-115).                                                *)
THEOREM PaperIsValuedByLedger == Spec => []ValuedByLedger
  <1>1. AccountInv /\ CashIsBooked => ValuedByLedger
    <2> SUFFICES ASSUME AccountInv, CashIsBooked
                 PROVE  ValuedByLedger
      OBVIOUS
    <2> DEFINE open == [s \in Symbols |-> Unrealized(s)]
               made == [s \in Symbols |-> LedgerProfit(s)]
    <2>1. MapThenSumSet(Unrealized, Symbols) = Total(open, Symbols)
      BY DEF Total, MapThenSumSet, MapThenFoldSet
    <2>2. MapThenSumSet(LedgerProfit, Symbols) = Total(made, Symbols)
      BY DEF Total, MapThenSumSet, MapThenFoldSet
    <2>3. ASSUME NEW s \in Symbols
          PROVE  open[s] \in Int /\ reported[s] \in Int /\ made[s] = open[s] + reported[s]
      <3>1. /\ size[s] \in Int /\ mark[s] \in Int /\ cost[s] \in Int /\ reported[s] \in Int
            /\ Sign(size[s]) \in Int
        BY DEF AccountInv, TypeOK, Sign
      <3>2. size[s] * mark[s] \in Int /\ Sign(size[s]) * cost[s] \in Int
        BY <3>1
      <3> QED
        BY <3>1, <3>2 DEF Unrealized, LedgerProfit
    <2> HIDE DEF open, made
    <2>4. Total(made, Symbols) = Total(open, Symbols) + Total(reported, Symbols)
      BY <2>3, SymbolsAssumption, TotalAdds
    <2>5. Total(open, Symbols) \in Int /\ Total(reported, Symbols) \in Int
      BY <2>3, SymbolsAssumption, TotalType
    <2>6. cash = InitialCash + Total(reported, Symbols) - commission + funding
      BY ReportedTotal DEF CashIsBooked
    <2> QED
      BY <2>1, <2>2, <2>4, <2>5, <2>6, BoundsAssumption
      DEF ValuedByLedger, Equity, AccountInv, TypeOK
  <1> QED
    BY <1>1, AccountInvariant, AccountIsBooked, PTL
=============================================================================
