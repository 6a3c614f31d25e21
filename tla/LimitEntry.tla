------------------------------ MODULE LimitEntry ------------------------------
(***************************************************************************)
(* Resting limit entries (backend/app/execution/limit.py): an entry that   *)
(* is reached fills as maker at its limit, one that is not within its time *)
(* falls back to the market.                                               *)
(*                                                                         *)
(* A request is a record [client, symbol, side, qty, type, reference,      *)
(* limit, timeout], client, limit or timeout Missing where none is given.  *)
(* A book is a function from keys to resting requests; an operation        *)
(* returns the book after it and the orders it sent to the adapter.        *)
(***************************************************************************)
EXTENDS Integers, FiniteSets, TLC

CONSTANT Missing

Reached(req, price) ==
  /\ price # Missing /\ price > 0
  /\ \/ req.side = "buy"  /\ price <= req.limit
     \/ req.side = "sell" /\ price >= req.limit

\* A limit that is reached fills as maker even at the instant of its time-out.
ResolveLimit(req, created, now, price) ==
  IF Reached(req, price) THEN "fill_maker"
  ELSE IF now - created >= req.timeout THEN "fallback_market" ELSE "rest"

Acceptable(req) == req.type = "limit" /\ req.limit # Missing /\ req.timeout # Missing

FillMaker(req) == [req EXCEPT !.reference = req.limit]

\* Without a price of the moment, the one the order was made with.
FallbackMarket(req, price) ==
  LET known == price # Missing /\ price # 0
      own   == req.reference # Missing /\ req.reference # 0
  IN [req EXCEPT !.type = "market",
                 !.reference = IF known THEN price ELSE IF own THEN req.reference ELSE req.limit]

KeyOf(book, req, now) ==
  IF req.client # Missing THEN req.client ELSE <<"limit", Cardinality(DOMAIN book), now>>

\* An order that can be reached at once does not rest; a key in use is taken over.
Submit(book, req, now, price) ==
  IF ~Acceptable(req) THEN [book |-> book, sent |-> {}]
  ELSE IF ResolveLimit(req, now, now, price) = "fill_maker"
       THEN [book |-> book, sent |-> {FillMaker(req)}]
  ELSE [book |-> (KeyOf(book, req, now) :> [req |-> req, created |-> now]) @@ book, sent |-> {}]

\* prices[symbol] is Missing where there is none.
Poll(book, now, prices) ==
  LET PriceOf(key) == prices[book[key].req.symbol]
      Fate(key) == ResolveLimit(book[key].req, book[key].created, now, PriceOf(key))
      Having(fate) == {key \in DOMAIN book : Fate(key) = fate}
  IN [book |-> [key \in Having("rest") |-> book[key]],
      sent |-> {FillMaker(book[key].req) : key \in Having("fill_maker")}
         \union {FallbackMarket(book[key].req, PriceOf(key)) : key \in Having("fallback_market")}]
==============================================================================
