-------------------------- MODULE LiveVenueProofs ---------------------------
(***************************************************************************)
(* For any symbols, lots, leverages, retries, threshold and cooldown: the  *)
(* live adapter keeps its types, opens on isolated margin in one-way mode, *)
(* never turns a position by closing it, knows what the venue holds unless *)
(* it has a reason not to, and leaves the venue alone while its breaker is *)
(* open.                                                                   *)
(***************************************************************************)
EXTENDS LiveVenue, TLAPS

-----------------------------------------------------------------------------
(* What the pieces of an action leave well typed.                          *)

BreakerType == /\ failures \in Nat /\ run \in Nat
               /\ openedAt \in 0 .. Horizon \union {-1}
               /\ outage \in 0 .. Horizon \union {-1}
               /\ trial \in 0 .. Horizon \union {-1}

RequestType == /\ order \in Orders \union {NoOrder}
               /\ stage \in ConfigStages \union {"idle", "create"}
               /\ stage = "idle" <=> order = NoOrder
               /\ attempt \in 0 .. MaxRetries

AdapterType == /\ marketsLoaded \in BOOLEAN /\ onewaySet \in BOOLEAN
               /\ cached \in [Symbols -> Leverages \union {0}]
               /\ mirror \in [Symbols -> Int]

VenueType == /\ pos \in [Symbols -> Int] /\ oneWay \in BOOLEAN
             /\ isolated \subseteq Symbols
             /\ venueLeverage \in [Symbols -> Leverages]

RestType == /\ now \in 0 .. Horizon
            /\ rows \in [Symbols -> Int] /\ saved \in [Symbols -> Int]
            /\ orders \in 0 .. MaxOrders /\ rearms \in 0 .. MaxRearms
            /\ doubtful \subseteq Symbols /\ astray \subseteq Symbols

(* The types hold when their parts do.                                     *)
LEMMA TypeParts ==
  ASSUME BreakerType', RequestType', AdapterType', VenueType', RestType'
  PROVE  TypeOK'
  BY DEF TypeOK, BreakerType, RequestType, AdapterType, VenueType, RestType

(* The breaker stays well typed over calls that succeed and fail.          *)
LEMMA SucceedsType ==
  ASSUME TypeOK, NEW k \in Nat, SucceedsThenFails(k)
  PROVE  BreakerType'
  BY DEF SucceedsThenFails, TypeOK, BreakerType

(* A success resets the breaker.                                           *)
LEMMA SuccessType ==
  ASSUME TypeOK, record_success
  PROVE  BreakerType'
  BY SucceedsType DEF record_success

(* A failure counts, or opens it.                                          *)
LEMMA FailureType ==
  ASSUME TypeOK, record_failure
  PROVE  BreakerType'
  BY DEF record_failure, OpenedAt, TypeOK, BreakerType

(* An order in progress is an order.                                       *)
LEMMA InProgress ==
  ASSUME TypeOK, stage # "idle"
  PROVE  /\ order \in Orders /\ order # NoOrder
         /\ order.symbol \in Symbols /\ order.side \in Int /\ order.side \in Sides
         /\ order.qty \in Nat \ {0} /\ order.leverage \in Leverages
         /\ order.reduceOnly \in BOOLEAN
  BY DEF TypeOK, Orders, Sides

(* A request that returned is idle.                                        *)
LEMMA ReturnType ==
  ASSUME Return
  PROVE  RequestType'
  BY ResilienceAssumption DEF Return, RequestType

(* The first call an order needs is one of four.                           *)
LEMMA NeededType ==
  ASSUME NEW o, NEW l, NEW w, NEW c
  PROVE  Needed(o, l, w, c) \in {"markets", "mode", "create", "margin"}
  BY DEF Needed

(* A new order leaves the adapter and the venue alone.                     *)
LEMMA SubmitsType ==
  ASSUME TypeOK, NEW o \in Orders, Submits(o), BreakerType'
  PROVE  TypeOK'
  <1>1. RequestType'
    BY NeededType, OrdersAssumption, ResilienceAssumption
    DEF Submits, RequestType, ConfigStages
  <1>2. AdapterType' /\ VenueType' /\ RestType'
    BY BoundsAssumption
    DEF Submits, TypeOK, AdapterType, VenueType, RestType, adapter, venue, table
  <1> QED
    BY <1>1, <1>2, TypeParts

(* A call that set the venue up is remembered.                             *)
LEMMA ProceedsType ==
  ASSUME TypeOK, stage # "idle", Proceeds
  PROVE  RequestType' /\ AdapterType'
  <1>1. RequestType'
    BY NeededType, InProgress, ResilienceAssumption
    DEF Proceeds, RequestType, TypeOK, ConfigStages
  <1>2. AdapterType'
    BY InProgress DEF Proceeds, AdapterType, TypeOK
  <1> QED
    BY <1>1, <1>2

(* A set-up call changes the venue's set-up.                               *)
LEMMA ConfiguresType ==
  ASSUME TypeOK, stage # "idle", Configures
  PROVE  VenueType'
  BY InProgress DEF Configures, VenueType, TypeOK

(* A create call changes the venue's position.                             *)
LEMMA ExecutesType ==
  ASSUME TypeOK, stage # "idle", NEW e \in Nat, Executes(e)
  PROVE  VenueType'
  <1>1. order.side * e \in Int
    BY InProgress DEF Sides
  <1> QED
    BY <1>1, InProgress DEF Executes, VenueType, TypeOK

(* A failed call is tried again or ends the request.                       *)
LEMMA RetryType ==
  ASSUME TypeOK, stage # "idle", RetryOrFail
  PROVE  RequestType' /\ BreakerType'
  <1>1. CASE ~Exhausted /\ attempt' = attempt + 1 /\ UNCHANGED <<order, stage, breaker>>
    BY <1>1, ResilienceAssumption
    DEF Exhausted, breaker, RequestType, BreakerType, TypeOK
  <1>2. CASE Exhausted /\ record_failure /\ Return
    BY <1>2, FailureType, ReturnType
  <1> QED
    BY <1>1, <1>2 DEF RetryOrFail

(* The close of a trade is an order.                                       *)
LEMMA CloseOrderType ==
  ASSUME TypeOK, NEW s \in Symbols, rows[s] # 0, pos[s] # 0
  PROVE  CloseOrder(s) \in Orders
  <1>1. -Sign(rows[s]) \in Sides
    <2>1. rows[s] \in Int
      BY DEF TypeOK
    <2>2. Sign(rows[s]) \in {1, -1}
      BY <2>1 DEF Sign
    <2> QED
      BY <2>2 DEF Sides
  <1>2. Abs(pos[s]) \in Nat \ {0}
    BY DEF TypeOK, Abs
  <1>3. (CHOOSE l \in Leverages : TRUE) \in Leverages
    BY OrdersAssumption
  <1> QED
    BY <1>1, <1>2, <1>3 DEF CloseOrder, Orders

(* Every outcome of a call keeps the types.                                *)
LEMMA CallType ==
  ASSUME TypeOK, Call
  PROVE  TypeOK'
  <1> USE DEF venue, adapter, breaker, bounds, table
  <1>1. CASE FailsFast
    BY <1>1, ReturnType, TypeParts
    DEF FailsFast, TypeOK, BreakerType, RequestType, AdapterType, VenueType, RestType
  <1>2. CASE RoundsToNothing
    BY <1>2, ReturnType, TypeParts
    DEF RoundsToNothing, TypeOK, BreakerType, RequestType, AdapterType, VenueType, RestType
  <1>3. CASE ConfigAnswered
    <2>1. stage # "idle"
      BY <1>3 DEF ConfigAnswered, Attempts
    <2>2. RestType'
      BY <1>3 DEF ConfigAnswered, TypeOK, RestType
    <2> QED
      BY <1>3, <2>1, <2>2, SuccessType, ProceedsType, ConfiguresType, TypeParts
      DEF ConfigAnswered
  <1>4. ASSUME NEW error \in Errors, Raises(error) PROVE TypeOK'
    <2>1. stage # "idle"
      BY <1>4 DEF Raises, Attempts
    <2>2. RestType' /\ VenueType'
      BY <1>4 DEF Raises, TypeOK, RestType, VenueType
    <2>3. RequestType' /\ AdapterType'
      <3>1. CASE Tolerated(error)
        BY <1>4, <2>1, <3>1, ProceedsType DEF Raises
      <3>2. CASE ~Tolerated(error)
        BY <1>4, <3>2, ReturnType DEF Raises, AdapterType, TypeOK
      <3> QED
        BY <3>1, <3>2
    <2> QED
      BY <1>4, <2>2, <2>3, FailureType, TypeParts DEF Raises
  <1>5. CASE Unreachable
    <2>1. stage # "idle"
      BY <1>5 DEF Unreachable, Attempts
    <2>2. AdapterType' /\ VenueType' /\ RestType'
      BY <1>5 DEF Unreachable, TypeOK, AdapterType, VenueType, RestType
    <2> QED
      BY <1>5, <2>1, <2>2, RetryType, TypeParts DEF Unreachable
  <1>6. CASE ConfigAnswerLost
    <2>1. stage # "idle"
      BY <1>6 DEF ConfigAnswerLost, Attempts
    <2>2. AdapterType' /\ RestType'
      BY <1>6 DEF ConfigAnswerLost, TypeOK, AdapterType, RestType
    <2> QED
      BY <1>6, <2>1, <2>2, RetryType, ConfiguresType, TypeParts DEF ConfigAnswerLost
  <1>7. ASSUME NEW e \in 1 .. order.qty, order # NoOrder, OrderAnswerLost(e) PROVE TypeOK'
    <2>1. stage # "idle"
      BY <1>7 DEF OrderAnswerLost, Attempts
    <2>2. AdapterType' /\ RestType'
      BY <1>7, <2>1, InProgress DEF OrderAnswerLost, TypeOK, AdapterType, RestType
    <2>3. VenueType'
      BY <1>7, <2>1, InProgress, ExecutesType DEF OrderAnswerLost
    <2> QED
      BY <1>7, <2>1, <2>2, <2>3, RetryType, TypeParts DEF OrderAnswerLost
  <1>8. ASSUME NEW e \in 0 .. order.qty, order # NoOrder, OrderAnswered(e) PROVE TypeOK'
    <2>1. stage # "idle"
      BY <1>8 DEF OrderAnswered, Attempts
    <2>2. order.side * FillQty(e) \in Int
      BY <2>1, InProgress DEF FillQty, Sides
    <2>3. AdapterType' /\ RestType'
      BY <1>8, <2>1, <2>2, InProgress DEF OrderAnswered, TypeOK, AdapterType, RestType
    <2>4. VenueType'
      BY <1>8, <2>1, InProgress, ExecutesType DEF OrderAnswered
    <2> QED
      BY <1>8, <2>3, <2>4, SuccessType, ReturnType, TypeParts DEF OrderAnswered
  <1> QED
    BY <1>1, <1>2, <1>3, <1>4, <1>5, <1>6, <1>7, <1>8 DEF Call

(* The state of the adapter, of the venue and of the order in progress     *)
(* stays well typed through lost answers, retries and restarts.            *)
THEOREM LiveTypeCorrect == Spec => []TypeOK
  <1>1. Init => TypeOK
    <2> SUFFICES ASSUME Init PROVE TypeOK
      OBVIOUS
    <2>1. 0 \in 0 .. Horizon /\ 0 \in 0 .. MaxRetries /\ 0 \in 0 .. MaxOrders /\ 0 \in 0 .. MaxRearms
      BY ResilienceAssumption, BoundsAssumption
    <2>2. [s \in Symbols |-> 0] \in [Symbols -> Int]
      OBVIOUS
    <2>3. [s \in Symbols |-> 0] \in [Symbols -> Leverages \union {0}]
      OBVIOUS
    <2> QED
      BY <2>1, <2>2, <2>3 DEF Init, TypeOK
  <1>2. TypeOK /\ [Next]_vars => TypeOK'
    <2> SUFFICES ASSUME TypeOK, [Next]_vars PROVE TypeOK'
      OBVIOUS
    <2> USE DEF venue, adapter, breaker, bounds, table
    <2>1. ASSUME NEW s \in Symbols, NEW side \in Sides, NEW q \in Lots, NEW l \in Leverages,
                 SubmitOpen([symbol |-> s, side |-> side, qty |-> q,
                             leverage |-> l, reduceOnly |-> FALSE])
          PROVE  TypeOK'
      <3> DEFINE o == [symbol |-> s, side |-> side, qty |-> q,
                       leverage |-> l, reduceOnly |-> FALSE]
      <3>1. o \in Orders
        BY OrdersAssumption DEF Orders
      <3>2. PICK k \in 0 .. Lower(3, Threshold) : SucceedsThenFails(k)
        BY <2>1 DEF SubmitOpen
      <3>3. k \in Nat
        BY ResilienceAssumption DEF Lower
      <3>4. Submits(o)
        BY <2>1 DEF SubmitOpen
      <3> QED
        BY <3>1, <3>2, <3>3, <3>4, SucceedsType, SubmitsType
    <2>2. ASSUME NEW s \in Symbols, SubmitClose(s) PROVE TypeOK'
      BY <2>2, CloseOrderType, SuccessType, SubmitsType DEF SubmitClose
    <2>3. CASE Call
      BY <2>3, CallType
    <2>4. ASSUME NEW succeeds \in BOOLEAN, Read(succeeds) PROVE TypeOK'
      <3>1. BreakerType'
        BY <2>4, SuccessType, FailureType DEF Read
      <3>2. RequestType' /\ AdapterType' /\ VenueType' /\ RestType'
        BY <2>4 DEF Read, request, TypeOK, RequestType, AdapterType, VenueType, RestType
      <3> QED
        BY <3>1, <3>2, TypeParts
    <2>5. CASE Passes
      BY <2>5, BoundsAssumption DEF Passes, request, TypeOK
    <2>6. CASE Rearm
      <3>1. PICK k \in 0 .. Lower(2, Threshold) : SucceedsThenFails(k)
        BY <2>6 DEF Rearm
      <3>2. k \in Nat
        BY ResilienceAssumption DEF Lower
      <3>3. BreakerType' /\ RequestType'
        BY <2>6, <3>1, <3>2, SucceedsType, ReturnType DEF Rearm
      <3>4. AdapterType'
        BY <2>6 DEF Rearm, TypeOK, AdapterType
      <3>5. VenueType' /\ RestType'
        BY <2>6, BoundsAssumption DEF Rearm, Unsaved, TypeOK, VenueType, RestType
      <3> QED
        BY <3>3, <3>4, <3>5, TypeParts
    <2>7. CASE UNCHANGED vars
      BY <2>7 DEF vars, TypeOK
    <2>8. CASE Commit \/ Rollback
      BY <2>8 DEF Commit, Rollback, Unsaved, request, TypeOK
    <2> QED
      BY <2>1, <2>2, <2>3, <2>4, <2>5, <2>6, <2>7, <2>8 DEF Next
  <1> QED
    BY <1>1, <1>2, PTL DEF Spec

-----------------------------------------------------------------------------
(* The invariant behind the properties.                                    *)

(* What the adapter remembers of the venue's set-up is so, and an order    *)
(* has come as far as it has because of what is remembered.                *)
SetUp ==
  /\ onewaySet => oneWay
  /\ \A s \in Symbols : cached[s] # 0 => s \in isolated
  /\ stage \notin {"idle", "markets"} => marketsLoaded
  /\ stage \in {"margin", "leverage", "create"} => onewaySet
  /\ stage = "leverage" => order.symbol \in isolated
  /\ stage = "create" /\ ~order.reduceOnly => order.symbol \in isolated

(* The order in progress closes a trade or opens one where there is none,  *)
(* and a close is of the whole position, unless that is in doubt or the    *)
(* table has lost a fill.                                                  *)
Intent ==
  stage # "idle" =>
    /\ order.reduceOnly <=> rows[order.symbol] # 0
    /\ order.reduceOnly /\ order.symbol \notin doubtful \union astray =>
         order.qty = Abs(pos[order.symbol]) /\ order.side = -Sign(pos[order.symbol])

(* The breaker counts the calls that failed, and opens when they are many. *)
BreakerCounts ==
  /\ failures = run
  /\ openedAt = outage
  /\ run >= Threshold <=> openedAt # -1

LiveInv == TypeOK /\ SetUp /\ Intent /\ MirrorMatchesVenue /\ BreakerCounts

-----------------------------------------------------------------------------
(* SetUp.                                                                  *)

(* Calls only add to the set-up of the venue.                              *)
VenueKeeps == (oneWay => oneWay') /\ isolated \subseteq isolated'

(* A set-up call takes back nothing and achieves what it is for.           *)
LEMMA ConfiguresKeeps ==
  ASSUME Configures
  PROVE  /\ VenueKeeps
         /\ stage = "mode" => oneWay'
         /\ stage = "margin" => order.symbol \in isolated'
  BY DEF Configures, VenueKeeps

(* A new order starts with the calls its set-up needs.                     *)
LEMMA SubmitsSetUp ==
  ASSUME TypeOK, SetUp, NEW o \in Orders, Submits(o)
  PROVE  SetUp'
  <1>1. o.symbol \in Symbols /\ o.leverage # 0
    BY OrdersAssumption DEF Orders
  <1>2. /\ stage' = Needed(o, marketsLoaded, onewaySet, cached) /\ order' = o
        /\ UNCHANGED <<oneWay, isolated, marketsLoaded, onewaySet, cached>>
    BY DEF Submits, venue, adapter
  <1> QED
    BY <1>1, <1>2 DEF SetUp, Needed

(* A request that returns asks for no set-up.                              *)
LEMMA ReturnSetUp ==
  ASSUME SetUp, Return, VenueKeeps, UNCHANGED <<marketsLoaded, onewaySet, cached>>
  PROVE  SetUp'
  BY DEF SetUp, Return, VenueKeeps

(* A failed call leaves what was set up.                                   *)
LEMMA RetrySetUp ==
  ASSUME SetUp, TypeOK, stage # "idle", RetryOrFail, VenueKeeps, UNCHANGED <<marketsLoaded, onewaySet, cached>>
  PROVE  SetUp'
  <1>1. CASE UNCHANGED <<order, stage>>
    BY <1>1 DEF SetUp, VenueKeeps
  <1>2. CASE Return
    BY <1>2, ReturnSetUp
  <1> QED
    BY <1>1, <1>2 DEF RetryOrFail

(* An answered call is followed by the one its set-up allows.              *)
LEMMA ProceedsSetUp ==
  ASSUME TypeOK, SetUp, stage # "idle", Proceeds, VenueKeeps,
         stage = "mode" => oneWay',
         stage \in {"margin", "leverage"} => order.symbol \in isolated'
  PROVE  SetUp'
  <1>1. order.symbol \in Symbols /\ order.leverage # 0
    BY InProgress, OrdersAssumption
  <1>2. onewaySet' => oneWay'
    BY DEF Proceeds, SetUp, VenueKeeps
  <1>3. \A s \in Symbols : cached'[s] # 0 => s \in isolated'
    <2>1. CASE stage = "leverage"
      BY <2>1, <1>1 DEF Proceeds, SetUp, VenueKeeps, TypeOK
    <2>2. CASE stage # "leverage"
      BY <2>2 DEF Proceeds, SetUp, VenueKeeps
    <2> QED
      BY <2>1, <2>2
  <1>4. CASE stage = "margin"
    BY <1>2, <1>3, <1>4 DEF Proceeds, SetUp
  <1>5. CASE stage # "margin"
    <2>1. stage' = Needed(order, marketsLoaded', onewaySet', cached') /\ order' = order
      BY <1>5 DEF Proceeds
    <2> QED
      BY <1>1, <1>2, <1>3, <2>1 DEF SetUp, Needed
  <1> QED
    BY <1>4, <1>5

(* Every outcome of a call keeps the set-up true.                          *)
LEMMA CallSetUp ==
  ASSUME TypeOK, SetUp, Call
  PROVE  SetUp'
  <1> USE DEF venue, adapter
  <1>1. CASE FailsFast
    BY <1>1, ReturnSetUp DEF FailsFast, VenueKeeps
  <1>2. CASE RoundsToNothing
    BY <1>2, ReturnSetUp DEF RoundsToNothing, VenueKeeps
  <1>3. CASE ConfigAnswered
    <2>1. Configures /\ Proceeds /\ stage # "idle"
      BY <1>3 DEF ConfigAnswered, Attempts
    <2>2. stage = "leverage" => order.symbol \in isolated'
      BY <2>1, ConfiguresKeeps DEF SetUp, VenueKeeps
    <2> QED
      BY <2>1, <2>2, ConfiguresKeeps, ProceedsSetUp
  <1>4. ASSUME NEW error \in Errors, Raises(error) PROVE SetUp'
    <2>1. stage # "idle" /\ VenueKeeps /\ UNCHANGED <<oneWay, isolated>>
      BY <1>4 DEF Raises, Attempts, VenueKeeps
    <2>2. CASE Tolerated(error)
      <3>1. AlreadySet /\ Proceeds
        BY <1>4, <2>2 DEF Raises, Tolerated
      <3> QED
        BY <2>1, <3>1, ProceedsSetUp DEF AlreadySet
    <2>3. CASE ~Tolerated(error)
      BY <1>4, <2>1, <2>3, ReturnSetUp DEF Raises
    <2> QED
      BY <2>2, <2>3
  <1>5. CASE Unreachable
    BY <1>5, RetrySetUp DEF Unreachable, Attempts, VenueKeeps
  <1>6. CASE ConfigAnswerLost
    BY <1>6, ConfiguresKeeps, RetrySetUp DEF ConfigAnswerLost, Attempts
  <1>7. ASSUME NEW e \in 1 .. order.qty, order # NoOrder, OrderAnswerLost(e) PROVE SetUp'
    BY <1>7, RetrySetUp DEF OrderAnswerLost, Executes, Attempts, VenueKeeps
  <1>8. ASSUME NEW e \in 0 .. order.qty, order # NoOrder, OrderAnswered(e) PROVE SetUp'
    BY <1>8, ReturnSetUp DEF OrderAnswered, Executes, VenueKeeps
  <1> QED
    BY <1>1, <1>2, <1>3, <1>4, <1>5, <1>6, <1>7, <1>8 DEF Call

-----------------------------------------------------------------------------
(* Intent and MirrorMatchesVenue.                                          *)

Books == Intent /\ MirrorMatchesVenue

(* Nothing the books are about changes, or place_order has returned.       *)
LEMMA BooksKept ==
  ASSUME Books, UNCHANGED <<pos, rows, mirror, doubtful, astray>>,
         (stage # "idle" /\ order' = order) \/ stage' = "idle"
  PROVE  Books'
  BY DEF Books, Intent, MirrorMatchesVenue

(* A failed call keeps its order or ends it.                               *)
LEMMA RetryBooks ==
  ASSUME RetryOrFail, stage # "idle"
  PROVE  (stage # "idle" /\ order' = order) \/ stage' = "idle"
  BY DEF RetryOrFail, Return

(* An order that opens is of a symbol without a row.                       *)
LEMMA OpenBooks ==
  ASSUME Books, NEW o \in Orders, SubmitOpen(o)
  PROVE  Books'
  BY DEF Books, Intent, MirrorMatchesVenue, SubmitOpen, Submits, venue, adapter, table

(* One that closes is of a symbol with one.                                *)
LEMMA CloseBooks ==
  ASSUME Books, NEW s \in Symbols, SubmitClose(s)
  PROVE  Books'
  BY DEF Books, Intent, MirrorMatchesVenue, SubmitClose, Submits, CloseOrder, venue, adapter,
         table

(* An answered close of a position nobody is in doubt of leaves none.      *)
LEMMA ClosedOut ==
  ASSUME NEW x \in Int
  PROVE  x + (-Sign(x)) * Abs(x) = 0
  BY DEF Sign, Abs

(* An answered order is booked as it was executed.                         *)
LEMMA AnsweredBooks ==
  ASSUME TypeOK, Books, NEW e \in Nat, OrderAnswered(e)
  PROVE  Books'
  <1>1. stage # "idle" /\ stage' = "idle"
    BY DEF OrderAnswered, Attempts, Return
  <1> DEFINE s == order.symbol
             d == order.side * FillQty(e)
  <1>2. /\ s \in Symbols /\ order.side \in Sides /\ order.qty \in Nat \ {0}
        /\ pos[s] \in Int /\ mirror[s] \in Int /\ rows[s] \in Int
    BY <1>1, InProgress DEF TypeOK
  <1>3. /\ pos' = [pos EXCEPT ![s] = @ + order.side * e]
        /\ mirror' = [mirror EXCEPT ![s] = @ + d]
        /\ rows' = [rows EXCEPT ![s] = IF order.reduceOnly THEN 0 ELSE d]
        /\ doubtful \subseteq doubtful' /\ astray' = astray
    BY DEF OrderAnswered, Executes
  <1>4. ASSUME s \notin doubtful'
        PROVE  mirror'[s] = pos'[s] /\ (s \notin astray' => rows'[s] = pos'[s])
    <2>1. e # 0 /\ s \notin doubtful /\ ~(order.reduceOnly /\ e < order.qty)
      BY <1>4 DEF OrderAnswered
    <2>2. FillQty(e) = e /\ mirror[s] = pos[s]
      BY <1>2, <2>1 DEF FillQty, Books, MirrorMatchesVenue
    <2>3. /\ pos'[s] = pos[s] + order.side * e
          /\ mirror'[s] = mirror[s] + order.side * e
          /\ rows'[s] = IF order.reduceOnly THEN 0 ELSE order.side * e
      BY <1>2, <1>3, <2>2 DEF TypeOK
    <2>4. ASSUME s \notin astray', order.reduceOnly PROVE rows'[s] = pos'[s]
      <3>1. e <= order.qty
        BY <2>1, <2>4 DEF OrderAnswered, Executable
      <3>2. e = order.qty
        BY <1>2, <2>1, <2>4, <3>1
      <3>3. order.qty = Abs(pos[s]) /\ order.side = -Sign(pos[s])
        BY <1>1, <1>3, <2>1, <2>4 DEF Books, Intent
      <3>4. pos[s] + order.side * e = 0
        BY <1>2, <3>2, <3>3, ClosedOut
      <3> QED
        BY <2>3, <2>4, <3>4
    <2>5. ASSUME s \notin astray', ~order.reduceOnly PROVE rows'[s] = pos'[s]
      <3>1. rows[s] = 0
        BY <1>1, <2>5 DEF Books, Intent
      <3>2. pos[s] = 0
        BY <1>2, <1>3, <2>1, <2>5, <3>1 DEF Books, MirrorMatchesVenue
      <3>3. order.side * e \in Int
        BY <1>2 DEF Sides
      <3> QED
        BY <2>3, <2>5, <3>2, <3>3
    <2> QED
      BY <2>2, <2>3, <2>4, <2>5
  <1>5. ASSUME NEW t \in Symbols \ doubtful', t # s
        PROVE  mirror'[t] = pos'[t] /\ (t \notin astray' => rows'[t] = pos'[t])
    BY <1>3, <1>5 DEF Books, MirrorMatchesVenue, TypeOK
  <1>6. MirrorMatchesVenue'
    BY <1>4, <1>5 DEF MirrorMatchesVenue
  <1> QED
    BY <1>1, <1>6 DEF Books, Intent

(* One whose answer is lost is in doubt.                                   *)
LEMMA LostBooks ==
  ASSUME TypeOK, Books, NEW e \in Nat, OrderAnswerLost(e)
  PROVE  Books'
  <1>1. /\ stage # "idle" /\ order.symbol \in doubtful' /\ doubtful \subseteq doubtful'
        /\ astray' = astray
    BY DEF OrderAnswerLost, Attempts, table
  <1>2. \A t \in Symbols \ doubtful' : pos'[t] = pos[t] /\ mirror'[t] = mirror[t] /\ rows'[t] = rows[t]
    BY <1>1 DEF OrderAnswerLost, Executes, adapter, table, TypeOK
  <1>3. MirrorMatchesVenue'
    BY <1>1, <1>2 DEF Books, MirrorMatchesVenue
  <1>4. Intent'
    BY <1>1, RetryBooks DEF OrderAnswerLost, table, Books, Intent
  <1> QED
    BY <1>3, <1>4 DEF Books

(* Every outcome of a call keeps the books.                                *)
LEMMA CallBooks ==
  ASSUME TypeOK, Books, Call
  PROVE  Books'
  <1> USE DEF venue, adapter, bounds, table
  <1>1. CASE FailsFast
    BY <1>1, BooksKept DEF FailsFast, Return
  <1>2. CASE RoundsToNothing
    BY <1>2, BooksKept DEF RoundsToNothing, Return
  <1>3. CASE ConfigAnswered
    BY <1>3, BooksKept DEF ConfigAnswered, Configures, Proceeds, Attempts
  <1>4. ASSUME NEW error \in Errors, Raises(error) PROVE Books'
    <2>1. UNCHANGED <<pos, rows, mirror, doubtful, astray>> /\ stage # "idle"
      BY <1>4 DEF Raises, Proceeds, Attempts
    <2>2. order' = order \/ stage' = "idle"
      BY <1>4 DEF Raises, Proceeds, Return
    <2> QED
      BY <2>1, <2>2, BooksKept
  <1>5. CASE Unreachable
    BY <1>5, RetryBooks, BooksKept DEF Unreachable, Attempts
  <1>6. CASE ConfigAnswerLost
    BY <1>6, RetryBooks, BooksKept DEF ConfigAnswerLost, Configures, Attempts
  <1>7. ASSUME NEW e \in 1 .. order.qty, order # NoOrder, OrderAnswerLost(e) PROVE Books'
    <2>1. e \in Nat
      BY <1>7, InProgress DEF OrderAnswerLost, Attempts
    <2> QED
      BY <1>7, <2>1, LostBooks
  <1>8. ASSUME NEW e \in 0 .. order.qty, order # NoOrder, OrderAnswered(e) PROVE Books'
    <2>1. e \in Nat
      BY <1>8, InProgress DEF OrderAnswered, Attempts
    <2> QED
      BY <1>8, <2>1, AnsweredBooks
  <1> QED
    BY <1>1, <1>2, <1>3, <1>4, <1>5, <1>6, <1>7, <1>8 DEF Call

-----------------------------------------------------------------------------
(* BreakerCounts.                                                          *)

(* After a success only what failed since counts.                          *)
LEMMA SucceedsCounts ==
  ASSUME TypeOK, NEW k \in Nat, SucceedsThenFails(k)
  PROVE  BreakerCounts'
  BY DEF SucceedsThenFails, BreakerCounts, TypeOK

(* A failure counts inside and outside alike.                              *)
LEMMA FailureCounts ==
  ASSUME TypeOK, BreakerCounts, record_failure
  PROVE  BreakerCounts'
  BY ResilienceAssumption DEF record_failure, OpenedAt, BreakerCounts, TypeOK

(* A step of the breaker is one of these.                                  *)
BreakerMoves == \/ \E k \in Nat : SucceedsThenFails(k)
                \/ record_failure
                \/ UNCHANGED breaker

(* However the breaker moves, both counts agree.                           *)
LEMMA MovesCount ==
  ASSUME TypeOK, BreakerCounts, BreakerMoves
  PROVE  BreakerCounts'
  <1>1. CASE UNCHANGED breaker
    BY <1>1 DEF breaker, BreakerCounts
  <1> QED
    BY <1>1, SucceedsCounts, FailureCounts DEF BreakerMoves

(* It moves in no other way.                                               *)
LEMMA NextMoves ==
  ASSUME TypeOK, [Next]_vars
  PROVE  BreakerMoves
  <1> USE DEF BreakerMoves, record_success
  <1>1. CASE Call
    BY <1>1 DEF Call, FailsFast, RoundsToNothing, ConfigAnswered, Raises, Unreachable,
                ConfigAnswerLost, OrderAnswerLost, OrderAnswered, RetryOrFail
  <1>2. ASSUME NEW o, SubmitOpen(o) PROVE BreakerMoves
    <2>1. \A k \in 0 .. Lower(3, Threshold) : k \in Nat
      BY ResilienceAssumption DEF Lower
    <2> QED
      BY <1>2, <2>1 DEF SubmitOpen
  <1>3. CASE Rearm
    <2>1. \A k \in 0 .. Lower(2, Threshold) : k \in Nat
      BY ResilienceAssumption DEF Lower
    <2> QED
      BY <1>3, <2>1 DEF Rearm
  <1>4. CASE UNCHANGED vars
    BY <1>4 DEF vars, breaker
  <1>5. ASSUME NEW s \in Symbols, SubmitClose(s) PROVE BreakerMoves
    BY <1>5 DEF SubmitClose
  <1>6. ASSUME NEW succeeds \in BOOLEAN, Read(succeeds) PROVE BreakerMoves
    BY <1>6 DEF Read
  <1>7. CASE Passes \/ Commit \/ Rollback
    BY <1>7 DEF Passes, Commit, Rollback
  <1> QED
    BY <1>1, <1>2, <1>3, <1>4, <1>5, <1>6, <1>7 DEF Next
-----------------------------------------------------------------------------
(* LiveInv is inductive.                                                   *)
THEOREM LiveInvariant == Spec => []LiveInv
  <1>1. Init => SetUp /\ Intent /\ MirrorMatchesVenue /\ BreakerCounts
    BY ResilienceAssumption DEF Init, SetUp, Intent, MirrorMatchesVenue, BreakerCounts
  <1>2. TypeOK /\ SetUp /\ Intent /\ MirrorMatchesVenue /\ BreakerCounts /\ [Next]_vars
          => (SetUp /\ Intent /\ MirrorMatchesVenue /\ BreakerCounts)'
    <2> SUFFICES ASSUME TypeOK, SetUp, Intent, MirrorMatchesVenue, BreakerCounts, [Next]_vars
                 PROVE  SetUp' /\ Books' /\ BreakerCounts'
      BY DEF Books
    <2>1. BreakerCounts'
      BY NextMoves, MovesCount
    <2>2. Books
      BY DEF Books
    <2>3. ASSUME NEW s \in Symbols, NEW side \in Sides, NEW q \in Lots, NEW l \in Leverages,
                 SubmitOpen([symbol |-> s, side |-> side, qty |-> q,
                             leverage |-> l, reduceOnly |-> FALSE])
          PROVE  SetUp' /\ Books'
      <3>1. [symbol |-> s, side |-> side, qty |-> q, leverage |-> l, reduceOnly |-> FALSE] \in Orders
        BY OrdersAssumption DEF Orders
      <3> QED
        BY <2>2, <2>3, <3>1, OpenBooks, SubmitsSetUp DEF SubmitOpen
    <2>4. ASSUME NEW s \in Symbols, SubmitClose(s) PROVE SetUp' /\ Books'
      BY <2>2, <2>4, CloseBooks, CloseOrderType, SubmitsSetUp DEF SubmitClose
    <2>5. CASE Call
      BY <2>1, <2>2, <2>5, CallSetUp, CallBooks
    <2>6. ASSUME NEW succeeds \in BOOLEAN, Read(succeeds) PROVE SetUp' /\ Books'
      BY <2>2, <2>6 DEF Read, venue, adapter, request, table, SetUp, Books, Intent,
                        MirrorMatchesVenue
    <2>7. CASE Passes
      BY <2>1, <2>7 DEF Passes, venue, adapter, request, table, SetUp, Books, Intent,
                        MirrorMatchesVenue
    <2>8. CASE Rearm
      <3>1. SetUp' /\ Intent'
        BY <2>8 DEF Rearm, Return, venue, SetUp, Intent
      <3>2. ASSUME NEW s \in Symbols \ doubtful'
            PROVE  mirror'[s] = pos'[s] /\ rows'[s] = pos'[s]
        <4>1. s \notin doubtful /\ s \notin astray /\ rows[s] = saved[s]
          BY <2>8 DEF Rearm, Unsaved
        <4> QED
          BY <2>8, <4>1 DEF Rearm, venue, MirrorMatchesVenue
      <3> QED
        BY <2>1, <3>1, <3>2 DEF Books, MirrorMatchesVenue
    <2>9. CASE UNCHANGED vars
      BY <2>1, <2>9 DEF vars, SetUp, Books, Intent, MirrorMatchesVenue
    <2>10. CASE Commit
      BY <2>1, <2>2, <2>10 DEF Commit, venue, adapter, request, SetUp, Books, Intent, MirrorMatchesVenue
    <2>11. CASE Rollback
      <3>1. SetUp' /\ Intent'
        BY <2>11 DEF Rollback, venue, adapter, request, SetUp, Intent
      <3>2. ASSUME NEW s \in Symbols \ doubtful'
            PROVE  mirror'[s] = pos'[s] /\ (s \notin astray' => rows'[s] = pos'[s])
        <4>1. s \notin astray' => s \notin astray /\ rows'[s] = rows[s]
          BY <2>11 DEF Rollback, Unsaved
        <4> QED
          BY <2>11, <4>1 DEF Rollback, venue, adapter, MirrorMatchesVenue
      <3> QED
        BY <2>1, <3>1, <3>2 DEF Books, MirrorMatchesVenue
    <2> QED
      BY <2>1, <2>3, <2>4, <2>5, <2>6, <2>7, <2>8, <2>9, <2>10, <2>11 DEF Next
  <1> QED
    BY <1>1, <1>2, LiveTypeCorrect, PTL DEF Spec, LiveInv

(* The mirror holds what the venue holds, and so does the trades table     *)
(* where no fill was rolled back, except where the venue did what it did   *)
(* not report, or what the adapter books otherwise: for any number of      *)
(* orders, retries, failing ticks and restarts.                            *)
THEOREM MirrorIsTheVenue == Spec => []MirrorMatchesVenue
  BY LiveInvariant, PTL DEF LiveInv

(* A position moves only when an order executes.                           *)
LEMMA OnlyOrdersMove ==
  ASSUME TypeOK, [Next]_vars, NEW s \in Symbols, pos'[s] # pos[s]
  PROVE  /\ stage = "create" /\ s = order.symbol
         /\ \E e \in Nat : (e \in Executable \/ e = 0) /\ Executes(e)
  <1>1. CASE Call
    <2>1. ASSUME NEW e \in 1 .. order.qty, order # NoOrder, OrderAnswerLost(e)
          PROVE  stage = "create" /\ e \in Nat /\ (e \in Executable \/ e = 0) /\ Executes(e)
      BY <2>1, InProgress DEF OrderAnswerLost, Attempts
    <2>2. ASSUME NEW e \in 0 .. order.qty, order # NoOrder, OrderAnswered(e)
          PROVE  stage = "create" /\ e \in Nat /\ (e \in Executable \/ e = 0) /\ Executes(e)
      BY <2>2, InProgress DEF OrderAnswered, Attempts
    <2>3. stage = "create" /\ \E e \in Nat : (e \in Executable \/ e = 0) /\ Executes(e)
      BY <1>1, <2>1, <2>2 DEF Call, FailsFast, RoundsToNothing, ConfigAnswered, Raises,
                              Unreachable, ConfigAnswerLost, Configures, venue
    <2>4. s = order.symbol
      BY <2>3 DEF Executes, TypeOK
    <2> QED
      BY <2>3, <2>4
  <1>2. CASE ~Call
    BY <1>2 DEF Next, SubmitOpen, SubmitClose, Submits, Read, Passes, Commit, Rollback, Rearm,
                venue, vars
  <1> QED
    BY <1>1, <1>2

(* Whatever the account's owner, failed calls and lost answers left behind,*)
(* a position is opened on isolated margin in one-way mode.                *)
THEOREM OpensAreIsolatedOneWay == Spec => OpensIsolatedOneWay
  <1>1. LiveInv /\ [Next]_vars =>
          [\A s \in Symbols : pos'[s] # pos[s] /\ rows[s] = 0 => oneWay /\ s \in isolated]_vars
    <2> SUFFICES ASSUME LiveInv, [Next]_vars, NEW s \in Symbols, pos'[s] # pos[s], rows[s] = 0
                 PROVE  oneWay /\ s \in isolated
      OBVIOUS
    <2>1. stage = "create" /\ s = order.symbol
      BY OnlyOrdersMove DEF LiveInv
    <2> QED
      BY <2>1 DEF LiveInv, SetUp, Intent
  <1> QED
    BY <1>1, LiveInvariant, PTL DEF Spec, OpensIsolatedOneWay

(* Executing part of a position against it lowers it and does not turn it. *)
LEMMA ReduceLowers ==
  ASSUME NEW x \in Int, NEW side \in Sides, NEW e \in Nat \ {0}, side * x + e <= 0
  PROVE  Abs(x + side * e) < Abs(x) /\ (x + side * e) * x >= 0
  <1>1. CASE side = 1
    <2>1. x + side * e = x + e /\ x + e <= 0 /\ x < 0
      BY <1>1
    <2>2. (x + e) * x >= 0
      BY <2>1
    <2> QED
      BY <2>1, <2>2 DEF Abs
  <1>2. CASE side = -1
    <2>1. x + side * e = x - e /\ x - e >= 0 /\ x > 0
      BY <1>2
    <2>2. (x - e) * x >= 0
      BY <2>1
    <2> QED
      BY <2>1, <2>2 DEF Abs
  <1> QED
    BY <1>1, <1>2 DEF Sides

(* However often a close is executed, and however its size came about, it  *)
(* lowers the position and never turns it.                                 *)
THEOREM ClosesOnlyLower == Spec => ClosesNeverReverse
  <1>1. LiveInv /\ [Next]_vars =>
          [\A s \in Symbols :
             pos'[s] # pos[s] /\ rows[s] # 0 =>
               Abs(pos'[s]) < Abs(pos[s]) /\ pos'[s] * pos[s] >= 0]_vars
    <2> SUFFICES ASSUME LiveInv, [Next]_vars, NEW s \in Symbols, pos'[s] # pos[s], rows[s] # 0
                 PROVE  Abs(pos'[s]) < Abs(pos[s]) /\ pos'[s] * pos[s] >= 0
      OBVIOUS
    <2>1. stage = "create" /\ s = order.symbol
      BY OnlyOrdersMove DEF LiveInv
    <2>2. PICK e \in Nat : (e \in Executable \/ e = 0) /\ Executes(e)
      BY OnlyOrdersMove DEF LiveInv
    <2>3. order.reduceOnly /\ order.side \in Sides
      BY <2>1, InProgress DEF LiveInv, Intent
    <2>4. pos'[s] = pos[s] + order.side * e /\ pos[s] \in Int
      BY <2>1, <2>2 DEF Executes, LiveInv, TypeOK
    <2>5. e # 0
      BY <2>3, <2>4 DEF Sides
    <2>6. order.side * pos[s] + e <= 0
      BY <2>1, <2>2, <2>3, <2>5 DEF Executable
    <2> QED
      BY <2>3, <2>4, <2>5, <2>6, ReduceLowers
  <1> QED
    BY <1>1, LiveInvariant, PTL DEF Spec, ClosesNeverReverse

(* While the breaker is open no step admits a call.                        *)
LEMMA OpenAdmitsNothing ==
  ASSUME TypeOK, [Next]_vars, is_open
  PROVE  ~Admits
  <1>1. CASE Call
    <2>1. ASSUME attempt = 0 PROVE FailsFast \/ RoundsToNothing
      BY <1>1, <2>1 DEF Call, ConfigAnswered, Raises, Unreachable, ConfigAnswerLost,
                        OrderAnswerLost, OrderAnswered, Attempts
    <2>2. ASSUME FailsFast \/ RoundsToNothing PROVE run' = run /\ stage' = "idle" /\ attempt' = 0
      BY <2>2 DEF FailsFast, RoundsToNothing, Return, breaker
    <2> QED
      BY <2>1, <2>2 DEF Admits
  <1>2. CASE Rearm
    BY <1>2 DEF Rearm, Admits, TypeOK
  <1>3. CASE Passes
    BY <1>3 DEF Passes, breaker, request, Admits, TypeOK
  <1>4. CASE UNCHANGED vars
    BY <1>4 DEF vars, Admits, TypeOK
  <1>5. CASE Commit \/ Rollback
    BY <1>5 DEF Commit, Rollback, breaker, request, Admits, TypeOK
  <1> QED
    BY <1>1, <1>2, <1>3, <1>4, <1>5 DEF Next, SubmitOpen, SubmitClose, Submits, Read

(* After Threshold failed calls in a row nothing is sent to the venue for  *)
(* Cooldown.                                                               *)
THEOREM OutagesAreShielded == Spec => ShieldsOutage
  <1>1. LiveInv /\ [Next]_vars =>
          [Admits /\ run >= Threshold => now - outage >= Cooldown]_vars
    <2> SUFFICES ASSUME LiveInv, [Next]_vars, Admits, run >= Threshold
                 PROVE  now - outage >= Cooldown
      OBVIOUS
    <2>1. ~is_open
      BY OpenAdmitsNothing DEF LiveInv
    <2> QED
      BY <2>1, ResilienceAssumption DEF is_open, LiveInv, BreakerCounts, TypeOK
  <1> QED
    BY <1>1, LiveInvariant, PTL DEF Spec, ShieldsOutage
-----------------------------------------------------------------------------
(* The calls of an order.                                                  *)

(* An answered call is followed by a later one of the chain.               *)
LEMMA ProceedsAdvances ==
  ASSUME TypeOK, SetUp, stage \in ConfigStages, Proceeds
  PROVE  CallsAhead(stage') < CallsAhead(stage)
  <1>1. order \in Orders /\ order.symbol \in Symbols
    BY InProgress DEF ConfigStages
  <1>2. CASE stage = "margin"
    BY <1>2 DEF Proceeds, CallsAhead
  <1>3. CASE stage = "leverage"
    <2>1. marketsLoaded' /\ onewaySet' /\ cached'[order.symbol] = order.leverage
      BY <1>1, <1>3 DEF Proceeds, SetUp, TypeOK
    <2>2. stage' = "create"
      BY <1>3, <2>1 DEF Proceeds, Needed
    <2> QED
      BY <1>3, <2>2 DEF CallsAhead
  <1>4. CASE stage = "mode"
    <2>1. marketsLoaded' /\ onewaySet'
      BY <1>4 DEF Proceeds, SetUp
    <2>2. stage' \in {"create", "margin"}
      BY <1>4, <2>1 DEF Proceeds, Needed
    <2> QED
      BY <1>4, <2>2 DEF CallsAhead
  <1>5. CASE stage = "markets"
    <2>1. stage' \in {"mode", "create", "margin"}
      BY <1>5 DEF Proceeds, Needed
    <2> QED
      BY <1>5, <2>1 DEF CallsAhead
  <1> QED
    BY <1>2, <1>3, <1>4, <1>5 DEF ConfigStages

(* An order that returns is through with its calls.                        *)
LEMMA ReturnAdvances ==
  ASSUME TypeOK, stage # "idle", Return
  PROVE  Advances
  BY DEF TypeOK, Return, Advances, CallsAhead, ConfigStages

(* A failed attempt is followed by the next one, up to the last.           *)
LEMMA RetryAdvances ==
  ASSUME TypeOK, stage # "idle", RetryOrFail
  PROVE  Advances
  <1>1. CASE Return
    BY <1>1, ReturnAdvances
  <1>2. CASE ~Exhausted /\ attempt' = attempt + 1 /\ UNCHANGED stage
    BY <1>2, ResilienceAssumption DEF Exhausted, Advances, TypeOK
  <1> QED
    BY <1>1, <1>2 DEF RetryOrFail

(* Whatever the outcome of a call, the order is nearer to its end.         *)
LEMMA CallAdvances ==
  ASSUME TypeOK, SetUp, Call
  PROVE  Advances
  <1>1. stage # "idle"
    BY InProgress DEF Call, FailsFast, RoundsToNothing, ConfigAnswered, Raises, Unreachable,
                      ConfigAnswerLost, OrderAnswerLost, OrderAnswered, Attempts
  <1>2. CASE FailsFast \/ RoundsToNothing
    BY <1>1, <1>2, ReturnAdvances DEF FailsFast, RoundsToNothing
  <1>3. CASE ConfigAnswered
    BY <1>3, ProceedsAdvances DEF ConfigAnswered, Advances
  <1>4. ASSUME NEW error \in Errors, Raises(error) PROVE Advances
    <2>1. CASE Tolerated(error)
      BY <1>4, <2>1, ProceedsAdvances DEF Raises, Tolerated, ConfigStages, Advances
    <2>2. CASE ~Tolerated(error)
      BY <1>1, <1>4, <2>2, ReturnAdvances DEF Raises
    <2> QED
      BY <2>1, <2>2
  <1>5. CASE Unreachable \/ ConfigAnswerLost \/ \E e \in 1 .. order.qty : OrderAnswerLost(e)
    BY <1>1, <1>5, RetryAdvances DEF Unreachable, ConfigAnswerLost, OrderAnswerLost
  <1>6. CASE \E e \in 0 .. order.qty : OrderAnswered(e)
    BY <1>1, <1>6, ReturnAdvances DEF OrderAnswered
  <1> QED
    BY <1>2, <1>3, <1>4, <1>5, <1>6 DEF Call

(* place_order makes boundedly many calls, each at most MaxRetries + 1     *)
(* times: the calls ahead of it are a number that no step raises, and the  *)
(* attempts of one call are bounded.                                       *)
THEOREM OrdersAdvance == Spec => OrderAdvances
  <1>1. LiveInv /\ [Next]_vars => [stage # "idle" /\ now' = now => Advances]_vars
    <2> SUFFICES ASSUME LiveInv, [Next]_vars, stage # "idle", now' = now, vars' # vars
                 PROVE  Advances
      OBVIOUS
    <2>1. ~Passes
      BY BoundsAssumption DEF Passes, LiveInv, TypeOK
    <2>2. Call \/ Rearm
      BY <2>1 DEF Next, SubmitOpen, SubmitClose, Submits, Read, Commit, Rollback
    <2>3. CASE Call
      BY <2>3, CallAdvances DEF LiveInv
    <2>4. CASE Rearm
      BY <2>4, ReturnAdvances DEF LiveInv, Rearm
    <2> QED
      BY <2>2, <2>3, <2>4
  <1> QED
    BY <1>1, LiveInvariant, PTL DEF Spec, OrderAdvances
=============================================================================
