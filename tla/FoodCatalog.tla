----------------------------- MODULE FoodCatalog -----------------------------
(***************************************************************************)
(* Food creation and the read endpoints of foods and requests:             *)
(*                                                                         *)
(*   POST /foods                   food.foodCreate.Serve                   *)
(*   GET  /foods                   food.foodList.Serve                     *)
(*   GET  /foods/{id}              food.foodGet.Serve                      *)
(*   GET  /my-foods                food.myFoodList.Serve                   *)
(*   GET  /my-foods/{id}           food.myFoodGet.Serve                    *)
(*   GET  /my-foods/request        request.requestUserList.Serve           *)
(*   GET  /my-foods/request/{id}   request.requestFoodList.Serve           *)
(*                                                                         *)
(* Each of these use cases makes a single database call, so each is one    *)
(* atomic step: nothing it read before the call can go stale. A step      *)
(* records the response the client gets in resp, next to the tables, so   *)
(* invariants relate what a client was told to what is stored.             *)
(*                                                                         *)
(* A repository call is modelled by the set of results it can return,     *)
(* each [err, rows]: the error value (ErrorChain) and the ids scanned.    *)
(* The list loops stop at the first rows.Next() = FALSE and never look at *)
(* rows.Err(), so a connection lost during the iteration ends the loop    *)
(* early with a nil error: any part of the matching rows may come back.   *)
(*                                                                         *)
(* deleted_at is left out: DeleteByID matches no row (Fulfillment), so no *)
(* endpoint ever sets it and every row has deleted_at IS NULL.            *)
(***************************************************************************)
EXTENDS Integers, FiniteSets, ErrorChain

CONSTANTS
    Users,      \* user ids (model values)
    Foods,      \* food ids: the initial rows and those a create may generate
    InitFoods,  \* InitFoods[f]: the foods row of f when the run starts, or NoFood
    ReqRow,     \* ReqRow[r]: [food, user] of the requests row r
    FoodQtys,   \* quantities a client may send to POST /foods
    DBFaults    \* TRUE: any statement may fail, also during the iteration

NoFood == [owner |-> "none", qty |-> 0]
(* A path parameter that uuid.Parse rejects.                               *)
BadID == "bad_id"

ASSUME InitFoods \in [Foods -> [owner : Users, qty : Int] \cup {NoFood}]
ASSUME DBFaults \in BOOLEAN

VARIABLES
    foods,  \* the foods table: id_user and quantity of each id, or NoFood
    resp    \* the last response: endpoint, caller, key, code, error, ids

vars == <<foods, resp>>

Reqs == DOMAIN ReqRow
NoResp == [op |-> "none", actor |-> "none", key |-> "none", code |-> 0,
           err |-> NilErr, rows |-> {}]

Fails == DBFaults

DBErr == Plain("db")
Ok(rows) == [err |-> NilErr, rows |-> rows]
Failed(e) == [err |-> e, rows |-> {}]

(* The ids a loop over rows.Next() appends before it stops: all matching  *)
(* rows, or, when the connection fails during the loop, any part of them. *)
Scanned(match) == IF Fails THEN SUBSET match ELSE {match}

Exists(f) == foods[f] # NoFood

Init ==
    /\ foods = InitFoods
    /\ resp = NoResp

Reply(op, actor, key, code, err, rows) ==
    resp' = [op |-> op, actor |-> actor, key |-> key, code |-> code,
             err |-> err, rows |-> rows]

(* response.Success with the repository's rows, or response.Failed with  *)
(* wrapped, the error the use case built around the repository's error:   *)
(* the code is the one ResponseCode reads from it.                        *)
Answer(op, actor, key, okCode, out, wrapped) ==
    \/ /\ out.err = NilErr
       /\ Reply(op, actor, key, okCode, NilErr, out.rows)
    \/ /\ out.err # NilErr
       /\ Reply(op, actor, key, ResponseCode(wrapped), wrapped, {})

-----------------------------------------------------------------------------
(* Repository calls: the results each can return.                          *)

(* The results of a call that fails only under a condition.               *)
When(c, results) == IF c THEN results ELSE {}

(* foodRepositories.List: every row of foods, no WHERE clause. A failed   *)
(* QueryRows or Scan returns the driver's error as it is.                 *)
List == When(Fails, {Failed(DBErr)}) \cup {Ok(s) : s \in Scanned({f \in Foods : Exists(f)})}

(* foodRepositories.ListMy: WHERE id_user = $1; errors wrapped with 500.  *)
ListMy(u) ==
    When(Fails, {Failed(WrapCode("list_my_foods", 500, DBErr))})
    \cup {Ok(s) : s \in Scanned({f \in Foods : Exists(f) /\ foods[f].owner = u})}

(* foodRepositories.GetDetailByID: the row, or a "scanning food" error    *)
(* (sql.ErrNoRows included).                                              *)
GetDetailByID(f) ==
    When(Fails \/ ~Exists(f), {Failed(Plain("scanning food"))}) \cup When(Exists(f), {Ok({f})})

(* requestRepository.ListbyFood / ListbyUser: a failed QueryRows returns  *)
(* the driver's error as it is, a failed Scan is wrapped with 500.        *)
ListRequests(ev, match) ==
    When(Fails, {Failed(DBErr), Failed(WrapCode(ev, 500, DBErr))})
    \cup {Ok(s) : s \in Scanned(match)}

ListbyFood(f) == ListRequests("list_requests_food", {r \in Reqs : ReqRow[r].food = f})

ListbyUser(u) == ListRequests("update_my_foods", {r \in Reqs : ReqRow[r].user = u})

(* Variant: payload.IDUser never set and the body without id_user: the   *)
(* row is inserted with the zero uuid.                                    *)
NewFoodZeroOwner(actor, bodyUser, q) == [owner |-> "nil_uuid", qty |-> q]

(* The row create_my_food.go inserts under a fresh uuid: id_user is the  *)
(* idUser header, set over whatever the body carries; the body's quantity.*)
NewFood(actor, bodyUser, q) == [owner |-> actor, qty |-> q]

(* foodRepositories.Create: INSERT INTO foods; on failure the driver's   *)
(* error as it is. table is the foods table after the call.               *)
Create(f, row) ==
    When(Fails, {[err |-> DBErr, rows |-> {}, table |-> foods]})
    \cup {[err |-> NilErr, rows |-> {f}, table |-> [foods EXCEPT ![f] = row]]}

-----------------------------------------------------------------------------
(* The use cases. u is the id the JWT middleware put in the idUser header;*)
(* it always parses as a uuid, so the header's parse errors never occur.  *)
(* An id in the path may be malformed (BadID): uuid.Parse fails, 400.     *)

BadIDErr(ev) == Wrap(ev, "id not valid", 400, Plain("invalid UUID length"))

(* POST /foods: data.Cast of the body (422 when malformed), then Create.  *)
CreateFood ==
    \E u \in Users :
       \/ /\ Reply("create_food", u, "none", 422,
                   Wrap("create_food", "create food error", 422, Plain("json")), {})
          /\ UNCHANGED foods
       \/ \E f \in {g \in Foods : ~Exists(g)}, bodyUser \in Users, q \in FoodQtys :
             \E out \in Create(f, NewFood(u, bodyUser, q)) :
                /\ foods' = out.table
                /\ Answer("create_food", u, f, 201, out,
                          Wrap("create_food", "create food error", 422, out.err))

(* GET /foods: List, errors wrapped with 500.                             *)
ListFoods ==
    \E u \in Users, out \in List :
       /\ Answer("list_foods", u, "none", 200, out,
                 Wrap("get_foods", "find error", 500, out.err))
       /\ UNCHANGED foods

(* GET /foods/{id}: any user sees any food; a failed read is 404.         *)
DetailFood ==
    \E u \in Users :
       \/ /\ Reply("detail_food", u, BadID, 400, BadIDErr("get_detail_shared_food"), {})
          /\ UNCHANGED foods
       \/ \E f \in Foods : \E out \in GetDetailByID(f) :
             /\ Answer("detail_food", u, f, 200, out,
                       Wrap("get_detail_shared_food", "food not found", 404, out.err))
             /\ UNCHANGED foods

(* GET /my-foods: ListMy of the caller, errors wrapped with 500.          *)
ListMyFoods ==
    \E u \in Users : \E out \in ListMy(u) :
       /\ Answer("list_my_foods", u, "none", 200, out,
                 Wrap("list_my_foods", "find error", 500, out.err))
       /\ UNCHANGED foods

(* detail_my_food.go:64: uuidUser != food.IDUser is Forbidden.             *)
IsOwner(u, f) == foods[f].owner = u

(* GET /my-foods/{id}: GetDetailByID (404), then the owner check (403).   *)
DetailMyFood ==
    \E u \in Users :
       \/ /\ Reply("detail_my_food", u, BadID, 400, BadIDErr("get_detail_my_food"), {})
          /\ UNCHANGED foods
       \/ \E f \in Foods : \E out \in GetDetailByID(f) :
             /\ \/ /\ out.err = NilErr /\ ~IsOwner(u, f)
                   /\ Reply("detail_my_food", u, f, 403,
                            Wrap("get_detail_my_food", "id not valid", 403, Plain("forbidden")), {})
                \/ /\ out.err # NilErr \/ IsOwner(u, f)
                   /\ Answer("detail_my_food", u, f, 200, out,
                             Wrap("get_detail_my_food", "food not found", 404, out.err))
             /\ UNCHANGED foods

(* GET /my-foods/request/{id}: ListbyFood; the idUser check is commented  *)
(* out, and the repository's error goes to response.Failed unwrapped.     *)
ListRequestsFood ==
    \E u \in Users :
       \/ /\ Reply("list_requests_food", u, BadID, 400, BadIDErr("list_requests_food"), {})
          /\ UNCHANGED foods
       \/ \E f \in Foods : \E out \in ListbyFood(f) :
             /\ Answer("list_requests_food", u, f, 200, out, out.err)
             /\ UNCHANGED foods

(* GET /my-foods/request: ListbyUser of the caller, error unwrapped.      *)
ListRequestsUser ==
    \E u \in Users : \E out \in ListbyUser(u) :
       /\ Answer("list_requests_user", u, "none", 200, out, out.err)
       /\ UNCHANGED foods

Next ==
    \/ CreateFood \/ ListFoods \/ DetailFood \/ ListMyFoods \/ DetailMyFood
    \/ ListRequestsFood \/ ListRequestsUser

Spec == Init /\ [][Next]_vars

-----------------------------------------------------------------------------
Ops == {"none", "create_food", "list_foods", "detail_food", "list_my_foods",
        "detail_my_food", "list_requests_food", "list_requests_user"}

TypeOK ==
    /\ foods \in [Foods -> [owner : Users, qty : Int] \cup {NoFood}]
    /\ resp.op \in Ops
    /\ resp.code \in {0, 200, 201, 400, 403, 404, 422, 500}
    /\ resp.rows \subseteq Foods \cup Reqs

(* The rows a list query matches, by endpoint.                            *)
Matching(op, actor, key) ==
    CASE op = "list_foods"         -> {f \in Foods : Exists(f)}
      [] op = "list_my_foods"      -> {f \in Foods : Exists(f) /\ foods[f].owner = actor}
      [] op = "list_requests_food" -> {r \in Reqs : ReqRow[r].food = key}
      [] op = "list_requests_user" -> {r \in Reqs : ReqRow[r].user = actor}

(* spec.md section 7: nothing is silently swallowed, and every failure    *)
(* path returns a constructed error chain, never a bare error. So a 200   *)
(* list holds every row its query matches, and a failed read answers with *)
(* a chain. The list loops stop at rows.Next() = FALSE without checking   *)
(* rows.Err(); list_by_food.go:59 and list_by_user.go:59 pass the         *)
(* repository's error to response.Failed as it is.                       *)
FailuresAreReported ==
    /\ resp.err # NilErr => resp.err.kind = "chain"
    /\ (resp.code = 200 /\ resp.op \in {"list_foods", "list_my_foods",
                                        "list_requests_food", "list_requests_user"}) =>
          resp.rows = Matching(resp.op, resp.actor, resp.key)
=============================================================================
