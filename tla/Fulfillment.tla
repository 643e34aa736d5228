----------------------------- MODULE Fulfillment -----------------------------
(***************************************************************************)
(* The food and request endpoints of the HTTP server: every handler runs   *)
(* on its own goroutine and reaches the shared Postgres database through   *)
(* synchronous round trips, so the steps of different handlers interleave *)
(* at every database call.                                                 *)
(*                                                                         *)
(*   POST /my-foods/request/action  request.requestAction.Serve            *)
(*   POST /foods/request/{id}       request.requestCreate.Serve            *)
(*   PUT  /my-foods/{id}            food.myFoodUpdate.Serve                *)
(*   DELETE /my-foods/{id}          food.myFoodDelete.Serve                *)
(*                                                                         *)
(* Each database statement is one atomic step. The two UPDATEs of          *)
(* AcceptRequest run in one transaction and are one step: their writes are *)
(* invisible to other handlers until commit and both lock rows in the same *)
(* order (request, then food), so no interleaving inside it is observable. *)
(* Response codes are computed with the ErrorChain operators, exactly as   *)
(* the use cases build their errors.                                       *)
(***************************************************************************)
EXTENDS Integers, FiniteSets, ErrorChain

CONSTANTS
    Users,        \* user ids (model values)
    Foods,        \* food ids (model values)
    Reqs,         \* request ids the server may generate (model values)
    Handlers,     \* concurrent handler goroutines
    Owner,        \* Owner[f]: foods.id_user, never changed by any endpoint
    InitStock,    \* InitStock[f]: foods.quantity when the run starts
    StockValues,  \* quantities an owner may send to PUT /my-foods/{id}
    ReqQtys,      \* quantities a requester may send to POST /foods/request
    DBFaults,     \* TRUE: any statement may fail
    MaxCrashes    \* bound on log.Fatal exits of the server process

ASSUME Owner \in [Foods -> Users] /\ InitStock \in [Foods -> Nat]
ASSUME DBFaults \in BOOLEAN /\ MaxCrashes \in Nat

(* requests.status values of the code; NoRow: no row with that id.        *)
NoRow == -1
Pending == 0
Accepted == 1
Rejected == 2

Actions == {"accept", "reject", "other"}
None == "none"

VARIABLES
    stock,      \* foods.quantity
    deletedAt,  \* foods.deleted_at IS NOT NULL
    requests,   \* the requests table: [food, status, qty] per id (id_user is
                \* stored but never read by these handlers)
    hs,         \* per handler goroutine: step, inputs, last response
    decs,       \* ghost: stock decrements applied on behalf of each request
    crashes     \* number of log.Fatal exits so far

vars == <<stock, deletedAt, requests, hs, decs, crashes>>

NoResp == [op |-> None, food |-> None, code |-> 0, outcome |-> None]
Idle == [pc |-> "idle", actor |-> None, req |-> None, food |-> None,
         act |-> None, qty |-> 0, resp |-> NoResp]
NoRequest == [food |-> None, status |-> NoRow, qty |-> 0]

-----------------------------------------------------------------------------
(* Status codes of each failure, built as the code builds them.           *)
DBErr == Plain("db")
AlreadyDoneCode ==
    ResponseCode(Wrap("request_action", "action request error", 422,
        WrapCode("get_request_food_by_id_request", 422,
                 Plain("action already accepted or rejected"))))
ReadFailCode ==
    ResponseCode(Wrap("request_action", "action request error", 422,
        WrapCode("get_request_food_by_id_request", 500, DBErr)))
ForbiddenCode ==
    ResponseCode(Wrap("request_action", "id not valid", 403, Plain("forbidden")))
NotEnoughCode ==
    ResponseCode(Wrap("request_action", "too many quantity requested", 422,
                      Plain("too many quantity requested")))
RejectFailCode ==
    ResponseCode(Wrap("request_action", "action cannot be processed", 422,
        WrapCode("reject_request", 500, DBErr)))
AcceptFailCode ==
    ResponseCode(Wrap("request_action", "action cannot be processed", 422,
        WrapCode("accept_request", 500, DBErr)))
(* action.go:99 wraps err, which is nil on this path: the wrap panics.     *)
UnknownActionCode ==
    ResponseCode(Wrap("request_action", "unknown", 500, NilErr))
FoodNotFoundCode(ev, c) ==
    ResponseCode(Wrap(ev, "food not found", c, Plain("scanning food")))
CreateFailCode ==
    ResponseCode(Wrap("create_request", "create food error", 422,
        WrapCode("update_my_foods", 500, DBErr)))
UpdateFailCode ==
    ResponseCode(WrapError(WithMessage(ErrorEvent("update_my_foods"), "update food error"),
        WrapCode("update_my_foods", 500, DBErr)))
DeleteFailCode ==
    ResponseCode(Wrap("delete_my_food", "create food error", 422,
        WrapCode("delete_my_food", 500, DBErr)))

-----------------------------------------------------------------------------
Init ==
    /\ stock = InitStock
    /\ deletedAt = [f \in Foods |-> FALSE]
    /\ requests = [r \in Reqs |-> NoRequest]
    /\ hs = [h \in Handlers |-> Idle]
    /\ decs = [r \in Reqs |-> 0]
    /\ crashes = 0

(* The use case returns: the handler is idle again, its response recorded. *)
Respond(h, op, code, outcome) ==
    hs' = [hs EXCEPT ![h] = [Idle EXCEPT !.resp =
              [op |-> op, food |-> hs[h].food, code |-> code, outcome |-> outcome]]]

Goto(h, pc) == hs' = [hs EXCEPT ![h].pc = pc]

(* GetDetailByID finds a food only while deleted_at IS NULL.               *)
FoodVisible(f) == ~deletedAt[f]

(* foodRepositories.Update: every column, quantity included, is set from  *)
(* the payload, unconditionally.                                           *)
SetQuantity(f, q) == stock' = [stock EXCEPT ![f] = q]

(* A statement fails (connection lost, constraint, cancelled context).    *)
Fails == DBFaults

(* log.Fatal: the process exits, every in-flight request is lost, and the  *)
(* server is started again with idle handlers.                             *)
Crash ==
    /\ crashes < MaxCrashes
    /\ hs' = [h \in Handlers |-> [Idle EXCEPT !.resp = [NoResp EXCEPT !.outcome = "lost"]]]
    /\ crashes' = crashes + 1

-----------------------------------------------------------------------------
(* POST /my-foods/request/action                                          *)

(* The body and the idUser header are parsed; the body may be malformed.  *)
ActStart(h) ==
    /\ hs[h].pc = "idle"
    /\ \E u \in Users, r \in Reqs, a \in Actions :
          hs' = [hs EXCEPT ![h] = [Idle EXCEPT !.pc = "act_read", !.actor = u,
                                               !.req = r, !.act = a]]
    /\ UNCHANGED <<stock, deletedAt, requests, decs, crashes>>

ActBadBody(h) ==
    /\ hs[h].pc = "idle"
    /\ Respond(h, "action", ResponseCode(Wrap("request_action", "create request error",
                                              422, Plain("json"))), "bad_body")
    /\ UNCHANGED <<stock, deletedAt, requests, decs, crashes>>

(* Variants of the checks below, each a plausible slip in the code; they  *)
(* are used to show that the properties detect such a slip.                *)
IsPendingRowAnyStatus(r) == requests[r].status # NoRow
IsOwnerUnchecked(h, f) == TRUE
EnoughStockUnchecked(stockQty, reqQty) == TRUE

(* The WHERE clause of GetRequestFoodByIDRequest: id_request = $1 AND      *)
(* status = 0 (sql.ErrNoRows otherwise).                                   *)
IsPendingRow(r) == requests[r].status = Pending

(* action.go:64, reqFood.IDUserFood != uuidUser is Forbidden.              *)
IsOwner(h, f) == Owner[f] = hs[h].actor

(* action.go:82, reqFood.Stock < reqFood.Quantity is NotEnoughQuantity.    *)
EnoughStock(stockQty, reqQty) == ~(stockQty < reqQty)

(* GetRequestFoodByIDRequest: the join row, only while status = 0; then   *)
(* the owner check, the branch on the action and the stock check, all on  *)
(* that snapshot.                                                          *)
GetRequestFoodByIDRequest(h) ==
    /\ hs[h].pc = "act_read"
    /\ LET r == hs[h].req
           f == requests[r].food
       IN \/ /\ Fails
             /\ Respond(h, "action", ReadFailCode, "read_failed")
          \/ /\ ~IsPendingRow(r)
             /\ Respond(h, "action", AlreadyDoneCode, "already_done")
          \/ /\ IsPendingRow(r)
             /\ \/ /\ ~IsOwner(h, f)
                   /\ Respond(h, "action", ForbiddenCode, "forbidden")
                \/ /\ IsOwner(h, f)
                   /\ hs[h].act = "reject"
                   /\ hs' = [hs EXCEPT ![h].pc = "act_reject", ![h].food = f]
                \/ /\ IsOwner(h, f)
                   /\ hs[h].act = "accept"
                   /\ ~EnoughStock(stock[f], requests[r].qty)
                   /\ Respond(h, "action", NotEnoughCode, "not_enough")
                \/ /\ IsOwner(h, f)
                   /\ hs[h].act = "accept"
                   /\ EnoughStock(stock[f], requests[r].qty)
                   /\ hs' = [hs EXCEPT ![h].pc = "act_accept", ![h].food = f]
                \/ /\ IsOwner(h, f)
                   /\ hs[h].act = "other"
                   /\ Respond(h, "action", UnknownActionCode, "unknown_action")
    /\ UNCHANGED <<stock, deletedAt, requests, decs, crashes>>

(* RejectRequest: UPDATE requests SET status = 2 WHERE id_request = $2.    *)
RejectRequest(h) ==
    /\ hs[h].pc = "act_reject"
    /\ \/ /\ Fails
          /\ Respond(h, "action", RejectFailCode, "reject_failed")
          /\ UNCHANGED requests
       \/ /\ requests' = [requests EXCEPT ![hs[h].req].status = Rejected]
          /\ Respond(h, "action", 200, "ok")
    /\ UNCHANGED <<stock, deletedAt, decs, crashes>>

(* Both statements of the accept transaction, committed together:         *)
(*   UPDATE requests SET status = 1 WHERE id_request = $2                  *)
(*   UPDATE foods SET quantity = foods.quantity - requests.quantity ...    *)
ApplyAccept(r) ==
    LET f == requests[r].food IN
    /\ requests' = [requests EXCEPT ![r].status = Accepted]
    /\ stock' = [stock EXCEPT ![f] = stock[f] - requests[r].qty]
    /\ decs' = [decs EXCEPT ![r] = decs[r] + 1]

(* Variant: a failed second statement without tx.Rollback, the status    *)
(* update of the first statement is kept.                                  *)
StatementFailedNoRollback(r) ==
    /\ requests' = [requests EXCEPT ![r].status = Accepted]
    /\ UNCHANGED <<stock, decs>>

(* A statement of the accept transaction fails: tx.Rollback undoes both.  *)
StatementFailed(r) == UNCHANGED <<stock, requests, decs>>

(* AcceptRequest: BeginTx, the two statements, Commit. A failing          *)
(* statement rolls back; a failing BeginTx or Commit is log.Fatal, and a  *)
(* Commit that reports an error may or may not have committed.            *)
AcceptRequest(h) ==
    /\ hs[h].pc = "act_accept"
    /\ \/ /\ Fails
          /\ Crash
          /\ UNCHANGED <<stock, requests, decs>>
       \/ /\ Fails
          /\ StatementFailed(hs[h].req)
          /\ Respond(h, "action", AcceptFailCode, "accept_failed")
          /\ UNCHANGED crashes
       \/ /\ ApplyAccept(hs[h].req)
          /\ Respond(h, "action", 200, "ok")
          /\ UNCHANGED crashes
       \/ /\ Fails
          /\ ApplyAccept(hs[h].req)
          /\ Crash
    /\ UNCHANGED deletedAt

-----------------------------------------------------------------------------
(* POST /foods/request/{id}                                                *)

FreeReqs == {r \in Reqs : requests[r].status = NoRow}
Inserting == {h \in Handlers : hs[h].pc \in {"cre_read", "cre_insert"}}

(* uuid.New() never repeats: a create starts only while an unused id is   *)
(* left for it (the bound of Reqs).                                       *)
CreStart(h) ==
    /\ hs[h].pc = "idle"
    /\ Cardinality(FreeReqs) > Cardinality(Inserting)
    /\ \E f \in Foods, q \in ReqQtys :
          hs' = [hs EXCEPT ![h] = [Idle EXCEPT !.pc = "cre_read", !.food = f, !.qty = q]]
    /\ UNCHANGED <<stock, deletedAt, requests, decs, crashes>>

(* Variant: the check of create_request.go:76 with < for <=.             *)
QuantityAvailableOffByOne(stockQty, reqQty) == ~(stockQty < reqQty)

(* create_request.go:76, food.Quantity <= payload.Quantity is rejected.   *)
QuantityAvailable(stockQty, reqQty) == ~(stockQty <= reqQty)

(* GetDetailByID (deleted_at IS NULL), then the quantity check.            *)
CreRead(h) ==
    /\ hs[h].pc = "cre_read"
    /\ LET f == hs[h].food IN
       \/ /\ Fails \/ ~FoodVisible(f)
          /\ Respond(h, "create", FoodNotFoundCode("create_request", 400), "not_found")
       \/ /\ FoodVisible(f)
          /\ ~QuantityAvailable(stock[f], hs[h].qty)
          /\ Respond(h, "create", NotEnoughCode, "not_enough")
       \/ /\ FoodVisible(f)
          /\ QuantityAvailable(stock[f], hs[h].qty)
          /\ Goto(h, "cre_insert")
    /\ UNCHANGED <<stock, deletedAt, requests, decs, crashes>>

(* Variant: the food's stock bound to the quantity placeholder.           *)
InsertedRowStockQty(h) == [food |-> hs[h].food, status |-> Pending, qty |-> stock[hs[h].food]]

(* The row inserted: id_food and quantity from the payload.               *)
InsertedRow(h) == [food |-> hs[h].food, status |-> Pending, qty |-> hs[h].qty]

(* requestRepository.Create: INSERT INTO requests with a fresh uuid; the  *)
(* status column takes its default, 0.                                     *)
CreInsert(h) ==
    /\ hs[h].pc = "cre_insert"
    /\ \/ /\ Fails
          /\ Respond(h, "create", CreateFailCode, "insert_failed")
          /\ UNCHANGED requests
       \/ \E r \in FreeReqs :
             /\ requests' = [requests EXCEPT ![r] = InsertedRow(h)]
             /\ Respond(h, "create", 201, "ok")
    /\ UNCHANGED <<stock, deletedAt, decs, crashes>>

-----------------------------------------------------------------------------
(* PUT /my-foods/{id}: every column is overwritten with the payload.       *)

UpdStart(h) ==
    /\ hs[h].pc = "idle"
    /\ \E u \in Users, f \in Foods, q \in StockValues :
          hs' = [hs EXCEPT ![h] = [Idle EXCEPT !.pc = "upd_read", !.actor = u,
                                               !.food = f, !.qty = q]]
    /\ UNCHANGED <<stock, deletedAt, requests, decs, crashes>>

UpdRead(h) ==
    /\ hs[h].pc = "upd_read"
    /\ LET f == hs[h].food IN
       \/ /\ Fails \/ ~FoodVisible(f)
          /\ Respond(h, "update", FoodNotFoundCode("update_my_foods", 404), "not_found")
       \/ /\ FoodVisible(f)
          /\ Owner[f] # hs[h].actor
          /\ Respond(h, "update", ForbiddenCode, "forbidden")
       \/ /\ FoodVisible(f)
          /\ Owner[f] = hs[h].actor
          /\ Goto(h, "upd_write")
    /\ UNCHANGED <<stock, deletedAt, requests, decs, crashes>>

(* foodRepositories.Update (UPDATE foods SET quantity = $4 ... WHERE       *)
(* id_food = $10), then GetDetailByID again for the response body.         *)
UpdWrite(h) ==
    /\ hs[h].pc = "upd_write"
    /\ LET f == hs[h].food IN
       \/ /\ Fails
          /\ Respond(h, "update", UpdateFailCode, "update_failed")
          /\ UNCHANGED stock
       \/ /\ SetQuantity(f, hs[h].qty)
          /\ \/ /\ FoodVisible(f)
                /\ Respond(h, "update", 200, "ok")
             \/ /\ Fails \/ ~FoodVisible(f)
                /\ Respond(h, "update", FoodNotFoundCode("update_my_foods", 404), "not_found")
    /\ UNCHANGED <<deletedAt, requests, decs, crashes>>

-----------------------------------------------------------------------------
(* DELETE /my-foods/{id}                                                   *)

DelStart(h) ==
    /\ hs[h].pc = "idle"
    /\ \E u \in Users, f \in Foods :
          hs' = [hs EXCEPT ![h] = [Idle EXCEPT !.pc = "del_read", !.actor = u, !.food = f]]
    /\ UNCHANGED <<stock, deletedAt, requests, decs, crashes>>

DelRead(h) ==
    /\ hs[h].pc = "del_read"
    /\ LET f == hs[h].food IN
       \/ /\ Fails \/ ~FoodVisible(f)
          /\ Respond(h, "delete", FoodNotFoundCode("delete_my_food", 404), "not_found")
       \/ /\ FoodVisible(f)
          /\ Owner[f] # hs[h].actor
          /\ Respond(h, "delete", ForbiddenCode, "forbidden")
       \/ /\ FoodVisible(f)
          /\ Owner[f] = hs[h].actor
          /\ Goto(h, "del_write")
    /\ UNCHANGED <<stock, deletedAt, requests, decs, crashes>>

(* The WHERE clause of DeleteByID, "id_food = $3 AND deleted_at != NULL":  *)
(* a comparison with NULL is NULL, so no row ever matches.                 *)
DeleteMatches(f) == FALSE

DeleteByID(h) ==
    /\ hs[h].pc = "del_write"
    /\ LET f == hs[h].food IN
       \/ /\ Fails
          /\ Respond(h, "delete", DeleteFailCode, "delete_failed")
          /\ UNCHANGED deletedAt
       \/ /\ deletedAt' = [deletedAt EXCEPT ![f] = deletedAt[f] \/ DeleteMatches(f)]
          /\ Respond(h, "delete", 200, "ok")
    /\ UNCHANGED <<stock, requests, decs, crashes>>

-----------------------------------------------------------------------------
(* A handler's steps after its request arrived.                           *)
Serve(h) ==
    \/ GetRequestFoodByIDRequest(h) \/ RejectRequest(h) \/ AcceptRequest(h)
    \/ CreRead(h) \/ CreInsert(h)
    \/ UpdRead(h) \/ UpdWrite(h)
    \/ DelRead(h) \/ DeleteByID(h)

(* A client sends a request to an idle handler.                            *)
Arrive(h) ==
    \/ ActStart(h) \/ ActBadBody(h) \/ CreStart(h) \/ UpdStart(h) \/ DelStart(h)

Next == \E h \in Handlers : Arrive(h) \/ Serve(h)

Spec == Init /\ [][Next]_vars


-----------------------------------------------------------------------------
TypeOK ==
    /\ stock \in [Foods -> Int]
    /\ deletedAt \in [Foods -> BOOLEAN]
    /\ \A r \in Reqs : requests[r] = NoRequest \/
          requests[r] \in [food : Foods,
                           status : {Pending, Accepted, Rejected}, qty : ReqQtys]
    /\ \A h \in Handlers : hs[h].pc \in {"idle", "act_read", "act_reject", "act_accept",
          "cre_read", "cre_insert", "upd_read", "upd_write", "del_read", "del_write"}
    /\ decs \in [Reqs -> Nat]
    /\ crashes \in 0..MaxCrashes

(* foods.quantity never goes below zero (spec.md section 3): the stock     *)
(* check of action.go:82 on the snapshot read at action.go:56 must still   *)
(* hold when AcceptRequest decrements the row.                             *)
StockNeverNegative == \A f \in Foods : stock[f] >= 0

(* A request's quantity is taken from the stock exactly once, and only if *)
(* the request ends Accepted: never twice for one request, never for a    *)
(* request that ends Rejected.                                             *)
ExactlyOnceDecrement ==
    \A r \in Reqs : decs[r] = IF requests[r].status = Accepted THEN 1 ELSE 0

(* Accepted and Rejected are terminal: no handler step changes the status *)
(* of a resolved request (RejectRequest and AcceptRequest update by id    *)
(* only, so this rests on the status = 0 filter of the earlier read).     *)
StatusTerminal ==
    [][\A r \in Reqs : requests[r].status \in {Accepted, Rejected} =>
                         requests'[r].status = requests[r].status]_requests

(* Only the food's owner resolves a request: every step that changes a    *)
(* request's status or takes stock for it is the accept or reject step of *)
(* a handler acting for the owner of the request's food.                  *)
OwnerOnlyResolves ==
    [][\A r \in Reqs :
         (requests[r].status # NoRow /\
          (requests'[r].status # requests[r].status \/ decs'[r] # decs[r])) =>
            \E h \in Handlers : /\ hs[h].req = r
                                /\ hs[h].pc \in {"act_accept", "act_reject"}
                                /\ hs[h].actor = Owner[requests[r].food]]_<<requests, decs>>

(* The handlers implement the promised request ledger (RequestLedger).    *)
Ledger == INSTANCE RequestLedger
              WITH stock <- stock, requests <- requests, Foods <- Foods,
                   Reqs <- Reqs, StockValues <- StockValues, ReqQtys <- ReqQtys
LedgerSpec == Ledger!Spec

(* The status codes spec.md section 4.2 gives the outcomes of an action:  *)
(* 422 already done, 403 forbidden, 422 not enough stock, 422 for a       *)
(* failed reject, 500 for a failed accept, 200 on success.                *)
SpecActionCode ==
    [already_done |-> 422, forbidden |-> 403, not_enough |-> 422,
     reject_failed |-> 422, accept_failed |-> 500, ok |-> 200]

ActionCodesPerSpec ==
    \A h \in Handlers :
        (hs[h].resp.op = "action" /\ hs[h].resp.outcome \in DOMAIN SpecActionCode) =>
            hs[h].resp.code = SpecActionCode[hs[h].resp.outcome]

(* spec.md section 3: a request's quantity is a positive integer, so an   *)
(* accept only ever lowers the food's stock. Neither create_request.go:76 *)
(* nor action.go:82 looks at the sign of the quantity.                     *)
AcceptNeverRaisesStock ==
    [][\A r \in Reqs :
         (requests[r].status = Pending /\ requests'[r].status = Accepted) =>
             stock'[requests[r].food] <= stock[requests[r].food]]_<<stock, requests>>
=============================================================================
