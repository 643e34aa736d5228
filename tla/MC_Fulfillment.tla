--------------------------- MODULE MC_Fulfillment ----------------------------
(* Instantiation of Fulfillment for TLC. u1 owns f1, u2 only requests.    *)
(* Stock 3 with request quantities 1 and 2 lets two requests fit one at a *)
(* time but not together; the owner may set the stock to 1 or 3.          *)
EXTENDS Fulfillment

CONSTANTS u1, u2, f1, r1, r2, h1, h2

MCUsers == {u1, u2}
MCFoods == {f1}
MCReqs == {r1, r2}
MCOwner == [f \in MCFoods |-> u1]
MCInitStock == [f \in MCFoods |-> 3]
MCStockValues == {1, 3}
MCReqQtys == {1, 2}
\* Quantities of a client that sends zero or a negative number.
MCReqQtysSigned == {-1, 1}
OneHandler == {h1}
TwoHandlers == {h1, h2}
=============================================================================
