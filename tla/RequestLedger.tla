---------------------------- MODULE RequestLedger ----------------------------
(***************************************************************************)
(* What the fulfillment engine promises (spec.md sections 3, 4.2, 8): a    *)
(* request is created Pending, is resolved once, to Accepted or Rejected,  *)
(* and acceptance takes its quantity from the food's stock in the same     *)
(* step, only when the stock covers it. The owner may set the stock.       *)
(***************************************************************************)
EXTENDS Integers

CONSTANTS Foods, Reqs, StockValues, ReqQtys

NoRow == -1
Pending == 0
Accepted == 1
Rejected == 2

VARIABLES stock, requests

Request(r, f, q) ==
    /\ requests[r].status = NoRow
    /\ q < stock[f]
    /\ requests' = [requests EXCEPT ![r] =
                      [food |-> f, status |-> Pending, qty |-> q]]
    /\ UNCHANGED stock

Accept(r) ==
    LET f == requests[r].food IN
    /\ requests[r].status = Pending
    /\ stock[f] >= requests[r].qty
    /\ requests' = [requests EXCEPT ![r].status = Accepted]
    /\ stock' = [stock EXCEPT ![f] = stock[f] - requests[r].qty]

Reject(r) ==
    /\ requests[r].status = Pending
    /\ requests' = [requests EXCEPT ![r].status = Rejected]
    /\ UNCHANGED stock

Restock(f, q) ==
    /\ stock' = [stock EXCEPT ![f] = q]
    /\ UNCHANGED requests

Next ==
    \/ \E r \in Reqs, f \in Foods, q \in ReqQtys : Request(r, f, q)
    \/ \E r \in Reqs : Accept(r) \/ Reject(r)
    \/ \E f \in Foods, q \in StockValues : Restock(f, q)

Spec ==
    /\ stock \in [Foods -> Nat]
    /\ requests = [r \in Reqs |-> [food |-> "none", status |-> NoRow, qty |-> 0]]
    /\ [][Next]_<<stock, requests>>
=============================================================================
