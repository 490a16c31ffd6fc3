----------------------------- MODULE OrderBook ------------------------------
(***************************************************************************)
(* The order book of order_book_matching_engine.cpp: two maps from prices  *)
(* to the orders resting there in order of arrival.  One step per turn of  *)
(* the matching loops.                                                     *)
(***************************************************************************)
EXTENDS Integers, Sequences, SequencesExt, FiniteSetsExt

CONSTANTS Prices, Quantities, MaxOrders    \* MaxOrders bounds the orders of a run

VARIABLES bids_, asks_,    \* price -> the orders at that price, the empty levels erased
          order,           \* the order being added, or NoOrder
          fill,            \* the last fill of the order being added, or NoFill
          sent             \* the orders added so far, as they were sent

vars == <<bids_, asks_, order, fill, sent>>
NoOrder == [id |-> 0]
NoFill == [match_id |-> 0]

\* for a buy and a sell: the other side, its best price, and whether it crosses the order
Book(side) == IF side = "Buy" THEN bids_ ELSE asks_
Opposite(o) == IF o.side = "Buy" THEN asks_ ELSE bids_
Best(o) == IF o.side = "Buy" THEN Min(DOMAIN asks_) ELSE Max(DOMAIN bids_)
CrossesStrictly(o) ==
  /\ o.qty > 0 /\ DOMAIN Opposite(o) # {}
  /\ IF o.side = "Buy" THEN Best(o) < o.price ELSE Best(o) > o.price
Crosses(o) ==
  /\ o.qty > 0 /\ DOMAIN Opposite(o) # {}
  /\ IF o.side = "Buy" THEN Best(o) <= o.price ELSE Best(o) >= o.price

best_bid == IF DOMAIN bids_ = {} THEN 0 ELSE Max(DOMAIN bids_)
best_ask == IF DOMAIN asks_ = {} THEN 0 ELSE Min(DOMAIN asks_)

\* a map with the level at price p replaced, or erased when it is empty
WithLevel(book, p, level) ==
  [q \in (DOMAIN book \ {p}) \cup (IF level = <<>> THEN {} ELSE {p}) |->
     IF q = p THEN level ELSE book[q]]
SetBook(side, book) ==
  IF side = "Buy" THEN bids_' = book /\ UNCHANGED asks_ ELSE asks_' = book /\ UNCHANGED bids_

Init ==
  /\ bids_ = [p \in {} |-> <<>>] /\ asks_ = [p \in {} |-> <<>>]
  /\ order = NoOrder /\ fill = NoFill /\ sent = <<>>

add_order ==
  /\ order = NoOrder /\ Len(sent) < MaxOrders
  /\ \E s \in {"Buy", "Sell"}, p \in Prices, q \in Quantities :
       order' = [id |-> Len(sent) + 1, side |-> s, price |-> p, qty |-> q]
  /\ sent' = Append(sent, order') /\ UNCHANGED <<bids_, asks_, fill>>

\* match_buy, match_sell: against the first order of the best level
MatchLast ==
  /\ order # NoOrder /\ Crosses(order)
  /\ LET level == Opposite(order)[Best(order)]
         resting == Last(level)
         qty == Min({order.qty, resting.qty})
         left == IF resting.qty = qty THEN Front(level) ELSE [level EXCEPT ![Len(level)].qty = @ - qty]
     IN /\ fill' = [match_id |-> resting.id, price |-> resting.price, qty |-> qty]
        /\ order' = [order EXCEPT !.qty = @ - qty]
        /\ SetBook(resting.side, WithLevel(Opposite(order), Best(order), left))
  /\ UNCHANGED sent
Match ==
  /\ order # NoOrder /\ Crosses(order)
  /\ LET level == Opposite(order)[Best(order)]
         resting == Head(level)
         qty == Min({order.qty, resting.qty})
         left == IF resting.qty = qty THEN Tail(level) ELSE [level EXCEPT ![1].qty = @ - qty]
     IN /\ fill' = [match_id |-> resting.id, price |-> resting.price, qty |-> qty]
        /\ order' = [order EXCEPT !.qty = @ - qty]
        /\ SetBook(resting.side, WithLevel(Opposite(order), Best(order), left))
  /\ UNCHANGED sent

\* what is left of the order rests at its price, and the fills are returned
Rest ==
  /\ order # NoOrder /\ ~Crosses(order)
  /\ LET book == Book(order.side)
         level == IF order.price \in DOMAIN book THEN book[order.price] ELSE <<>>
     IN IF order.qty > 0 THEN SetBook(order.side, WithLevel(book, order.price, Append(level, order)))
        ELSE UNCHANGED <<bids_, asks_>>
  /\ order' = NoOrder /\ fill' = NoFill /\ UNCHANGED sent

Next == add_order \/ Match \/ Rest

----------------------------------------------------------------------------
Resting(side) == UNION {ToSet(Book(side)[p]) : p \in DOMAIN Book(side)}
Open == Resting("Buy") \cup Resting("Sell") \cup (IF order = NoOrder THEN {} ELSE {order})
\* what is open of an order, and what was traded of the orders of one side
OpenOf(k) == SumFunction([o \in {o \in Open : o.id = k} |-> o.qty])
Traded(side) ==
  SumFunction([k \in {k \in DOMAIN sent : sent[k].side = side} |-> sent[k].qty - OpenOf(k)])

(* Between two orders the book is not crossed, so that best_bid < best_ask *)
(* whenever both are there; and at every moment as much was bought as was  *)
(* sold, counted over the whole history of partial fills.                  *)
BookIsSound ==
  /\ order = NoOrder /\ best_bid > 0 /\ best_ask > 0 => best_bid < best_ask
  /\ Traded("Buy") = Traded("Sell")

(* Price-time priority (order_book_matching_engine.cpp:3): nobody is       *)
(* overtaken.  A fill is at the resting order's own price, within the      *)
(* limit, and no order still resting on that side had a better price, or   *)
(* the same price earlier.                                                 *)
PriceTimePriority ==
  fill # NoFill =>
    LET r == sent[fill.match_id]  sign == IF r.side = "Sell" THEN 1 ELSE -1 IN
    /\ fill.price = r.price /\ r.side # order.side
    /\ sign * fill.price <= sign * order.price
    /\ \A o \in Resting(r.side) :
         sign * o.price > sign * r.price \/ (o.price = r.price /\ o.id >= r.id)
=============================================================================
