# TLA+ models of the sharefood backend

This directory holds TLA+ models of the sharefood HTTP backend (`src/`) and
the TLC configurations that check them. Food owners post food with a
quantity. Other users request part of it. The owner accepts a request, which
takes the quantity from the food's stock, or rejects it.

## The system and how its parts interact

| Part | Code | State it touches |
|---|---|---|
| Router | `internal/router/router.go`, `internal/handler/http.go` | none. Each HTTP request runs `handle` on its own goroutine, and a `recover` turns a panic into 500. |
| Request action (accept / reject) | `ucase/request/action.go`, `repositories/request.go` | `requests.status`, `foods.quantity` |
| Request creation | `ucase/request/create_request.go`, `repositories/request.go` | inserts a row into `requests` |
| Owner update / delete of a food | `ucase/food/update_my_food.go`, `ucase/food/delete_my_food.go`, `repositories/food.go` | `foods.quantity` (and every other column), `foods.deleted_at` |
| Error chain | `consts/error.go` | pure. It builds the `consts.Errors` value that decides the status code. |
| Response | `response/ucase_response.go`, `appctx/response.go` | pure. The status code is the last frame's code. |
| Users, login, JWT | `ucase/user/*`, `repositories/user.go`, `middleware/*` | the `users` table |
| Food creation | `ucase/food/create_my_food.go`, `repositories/food.go` | inserts a row into `foods` |
| Lists and details | `ucase/food/list*.go`, `detail*.go`, `ucase/request/list_*.go` | read only |

The handlers share nothing in memory. They interact only through the
Postgres tables, and each database statement is a synchronous round trip, so
the steps of concurrent handlers interleave at every statement. Nothing
serialises two requests that touch the same request row or food row:
- the use case reads a snapshot first (`GetRequestFoodByIDRequest` or
  `GetDetailByID`);
- it decides on that snapshot (owner check, stock check);
- it then writes by id only.

`AcceptRequest` runs its two UPDATEs in one transaction. A failing BeginTx or
Commit is `log.Fatal`, which ends the whole process.

## Modules

- **`ErrorChain.tla`** has pure operators for `consts/error.go`:
  - `ErrorEvent`, `WithCode`, `WithMessage`, `WrapError`, `transformFieldError`;
  - the status-code lookup of `response.Failed` (`FailedStatusCode`);
  - the router's panic recovery (`ResponseCode`).

  An error value is a record with a kind (`chain`, `plain`, `fields`, `nil`).
  Messages are tokens. `WrapError(nil)` evaluates to `Panic`, as
  `errors.Cause(nil).Error()` does in Go.
- **`ErrorPropagation.tla`** starts from one failing call. Each step
  (`WrapLayer`) is one more layer wrapping the error with a builder
  `ErrorEvent(ev)[.WithMessage(m)][.WithCode(c)]`. The ghost `layers` keeps the
  builders applied. The last step (`Reply`) is the use case answering
  `response.Failed(err)` for one of its endpoint names. The router then writes
  it (`Generate`), or answers the recovered panic. `out` is the envelope
  written, and `endpoint` is the name it was built for.
- **`ResponseEnvelope.tla`** has pure operators for the envelope:
  - `appctx.NewResponse`, the clone of a zero template;
  - `parseResponseStatus` as a recursive loop over the tokens of the endpoint
    name (`ParseStep`, `ParseFrom`, `ParseResponseStatus`), with Go's
    first-match `switch`;
  - `response.Failed`, which gives `failure` from 500 up and `error` below;
  - `Generate`, which falls back on the message catalog for a zero code or a
    missing message;
  - the router's answer to a recovered panic.

  A derived string is a sequence of pieces: `Word(w)`, `Title(w)` and
  `Space`. `EntityOf`, `StateOf` and `MessageOf` are the reference derivation
  of spec.md §4.4, which the property compares with the loop.
- **`Fulfillment.tla`** is the core. Variables:
  - `stock` is `foods.quantity`, and `deletedAt` is `foods.deleted_at IS NOT NULL`;
  - `requests` is the requests table: food, status and quantity per id;
  - `hs` holds, per handler goroutine, its step (`pc`), the inputs it parsed
    and its last response (operation, code, outcome);
  - `decs` is a ghost count of stock decrements per request;
  - `crashes` counts `log.Fatal` exits.

  The actions follow the code's statements:

  | Endpoint | Actions (the step of each is one database statement) |
  |---|---|
  | POST `/my-foods/request/action` | `ActStart` / `ActBadBody` (body cast), `GetRequestFoodByIDRequest` (the read and every check and branch of the use case), `RejectRequest`, `AcceptRequest` |
  | POST `/foods/request/{id}` | `CreStart`, `CreRead` (GetDetailByID and the quantity check), `CreInsert` |
  | PUT `/my-foods/{id}` | `UpdStart`, `UpdRead` (GetDetailByID and the owner check), `UpdWrite` (Update, then the re-read) |
  | DELETE `/my-foods/{id}` | `DelStart`, `DelRead`, `DeleteByID` |

  `AcceptRequest` has four outcomes:
  - BeginTx fails: crash;
  - a statement fails: rollback, then an error response;
  - both commit: 200;
  - Commit reports an error after applying: crash.

  A crash returns every handler to idle, with its response lost. Response
  codes are computed with the `ErrorChain` operators, exactly as each use case
  chains its builders.
- **`RequestLedger.tla`** is the abstract promise of spec.md §3, §4.2 and §8:
  - a request is created Pending while its quantity is below the stock;
  - it is resolved once, Accepted or Rejected;
  - Accept takes the quantity in the same step, only when the stock covers it;
  - the owner may set the stock.

  `Fulfillment` instantiates it with the identity mapping on `stock` and
  `requests` (`LedgerSpec`).
- **`UserAccounts.tla`** models accounts and authentication over the users
  table:
  - register (`ucase/user/register.go`): `RegStart` / `RegBadBody` (cast and
    validation), `RegCheck` (`IsRegistered`), `RegInsert` (hash, uuid,
    `GenerateJWT`, `userRepository.Create`);
  - login (`ucase/user/login.go`): `LoginStart` / `LoginBadBody`, then
    `LoginRead` (`GetByEmail`, the bcrypt check, `GenerateJWT`);
  - `ValidateBearerToken` (`middleware/jwt_validate.go`): the client sends
    no token, a forged token or one it was given;
  - `Expire`: two hours pass and an issued token expires;
  - GET `/users` (`ucase/user/list.go`): `UsersList` runs behind a token that
    passes the middleware. `userRepository.List` returns every row, stored
    hash included (`UserRows`). Because `rows.Err` is never checked, a
    failing connection can truncate the list (`ListedRows`). A failed query
    or Scan is answered 500.

  Variables:
  - `users` maps an id to the row `[email, pwd]`. `pwd` is the bcrypt hash,
    modelled as `Hash(p)`, and `CompareHashAndPassword` succeeds only
    against the hash of the same password.
  - `hs` holds each handler's step and last response.
  - `tokens` is the set of tokens the server handed out.

  `IsRegistered` treats a failed query as "registered", as `user.go:142`
  does. `GetByEmail` may return any of several rows with the same e-mail
  (QueryRow without ORDER BY). The schema is not in the repository, so
  whether `users.email` is UNIQUE is the constant `EmailUnique`.
- **`FoodCatalog.tla`** models food creation and every food and request
  read:
  - `CreateFood` (POST `/foods`);
  - `ListFoods` and `DetailFood` (GET `/foods`, `/foods/{id}`);
  - `ListMyFoods` and `DetailMyFood` (GET `/my-foods`, `/my-foods/{id}`);
  - `ListRequestsUser` and `ListRequestsFood` (GET `/my-foods/request`,
    `/my-foods/request/{id}`).

  Each of these use cases makes exactly one database call, so each one is a
  single atomic action. Variables:
  - `foods` maps an id to `[owner, qty]`, or to `NoFood`;
  - `resp` holds the last response: endpoint, caller, path key, code, error
    value and the ids returned.

  The requests table is the constant `ReqRow`: these endpoints never write
  it. Each repository call (`List`, `ListMy`, `GetDetailByID`, `ListbyFood`,
  `ListbyUser`, `Create`) is an operator that gives the set of results the
  call can return. The rows come from `Scanned`: the loops over
  `rows.Next()` never check `rows.Err()`, so a connection lost during the
  iteration returns any part of the matching rows with a nil error.
- **`MC_ErrorPropagation.tla`**, **`MC_Fulfillment.tla`**,
  **`MC_UserAccounts.tla`** and **`MC_FoodCatalog.tla`** give the constants
  for TLC.

## Runs

| Run | cfg | Expect | What it shows |
|---|---|---|---|
| error_propagation | MC_ErrorPropagation.cfg | pass | Through up to 3 layers, with any events, messages and codes, the client sees the innermost layer's code (`VisibleCodeIsInnermost`) and the failing call's message (`ErrorTextIsOrigin`). The chain has one frame per layer, in order (`ChainRecordsEveryLayer`). For each of the 12 endpoint names in the code, the envelope written carries the innermost code. Its status word, entity, state and message are the ones spec.md §4.4 derives (`EnvelopeReportsFailure`). |
| fulfillment_seq | MC_Fulfillment_seq.cfg | pass | With one handler, statement failures and one crash: stock never goes negative, every Accepted request is charged exactly once, Accepted and Rejected are terminal, and the handlers refine `RequestLedger`. |
| fulfillment_conc | MC_Fulfillment_conc.cfg | pass | With two concurrent handlers, failures and a crash: only the food's owner changes a request's status or takes stock for it (`OwnerOnlyResolves`). The owner check happens at the read, and the write comes in a later step after another handler may have run. |
| overcommit | MC_Fulfillment_overcommit.cfg | violation | `StockNeverNegative` fails with two handlers. Both accepts pass the stock check on their own snapshot, then both subtract. |
| double_apply | MC_Fulfillment_double.cfg | violation | `ExactlyOnceDecrement` fails. Two actions on one pending request both pass the `status = 0` read. Because the UPDATEs filter by id only, both commit. |
| reject_failure_code | MC_Fulfillment_rejectcode.cfg | violation | `ActionCodesPerSpec` fails. A failed reject is answered 500, where spec.md §4.2 says 422. `WrapError` keeps the repository's code. |
| negative_quantity | MC_Fulfillment_negqty.cfg | violation | `AcceptNeverRaisesStock` fails. A request for -1 passes both quantity checks, and accepting it raises the stock. spec.md §3 says the quantity is positive. |
| users_conc | MC_UserAccounts_conc.cfg | pass | Two concurrent handlers, failing statements, UNIQUE(email). Anyone who registered is never refused 401 with the right password (`NoFalseLoginRejection`). The middleware only lets through registered ids that hold an issued token. The same holds for every GET `/users` answer (`PassedIdentityIsIssued`). |
| users_dup_email | MC_UserAccounts_dupemail.cfg | violation | Without UNIQUE(email), two registrations of one e-mail both pass `IsRegistered` and both insert. A later login may then read the other row and refuse the right password (`NoFalseLoginRejection`). |
| users_taken_on_error | MC_UserAccounts_taken.cfg | violation | `TakenMeansRegistered` fails. A failed `IsRegistered` query is answered 422 "Email Already Registered". |
| catalog | MC_FoodCatalog.cfg | pass | Creation and all reads, with failing statements, stay well typed (`TypeOK`). It is the passing counterpart of `list_failures` and fires every catalog action. The catalog's ownership checks are each one guard or assignment of the step that answers, so no property restates them. |
| list_failures | MC_FoodCatalog_failures.cfg | violation | `FailuresAreReported` fails. spec.md §7 says nothing is silently swallowed and every failure is an error chain. A connection lost while a list iterates gives 200 with part of the rows. A failed QueryRows of the request lists reaches `response.Failed` as a bare error, and its status code is 0. |

Two disagreements with spec.md have no run of their own:
- The DELETE filter `deleted_at != NULL` matches no row, yet the owner gets
  200. spec.md §9 already records this as a latent defect.
- The JWT middleware answers 400 to a missing, forged or expired token.
  spec.md §7 lists AuthenticationFailure as 401.
- `response.Failed` puts `Error` or `Failure` at the end of the state
  (`requestActionError`). spec.md §4.4 gives `RequestActionFailed` as its
  example. The entity starts with a lower-case token. The reference in
  `ResponseEnvelope` follows the code on these two points. It checks the
  derivation itself: which tokens are title-cased, and where the outcome word
  goes.

One more defect has no run. GET `/users` selects the password column, and
`entity.User` serialises it, so every holder of a valid token receives every
account's bcrypt hash. Nothing in spec.md, a comment or a test states that
the hash is private. `UsersList` returns the hashes as the code does.

Each property of a passing run has a mutant in `PROJECT.json`. The mutant is a
plausible slip in the code that TLC must catch:
- a dropped rollback;
- the password stored unhashed;
- the bcrypt check with its arguments swapped;
- the JWT signature check dropped;
- a created food owned by the zero uuid;
- a dropped owner check;
- a dropped stock check;
- a read without the `status = 0` filter;
- `<` for `<=` in the create check;
- an inserted row with the wrong quantity;
- three slips in `WrapError`;
- `>` for `>=` in the failure threshold of `response.Failed`.

### Bounds

- **Users, foods, requests, quantities.** Two users: `u1` owns the one food
  `f1`, and `u2` does not. There are two request ids. The initial stock is 3,
  requests ask for 1 or 2, and the owner may set the stock to 1 or 3. With
  these values:
  - two requests fit the stock one at a time but not together, which is what
    the overcommit and double-apply interleavings need;
  - stock = quantity and stock < quantity both occur, so the create and
    accept boundaries are exercised;
  - the owner's update can lower the stock under a checked request.
- **Handlers.** One handler gives the sequential run. Two handlers give every
  pairwise interleaving, and that is the smallest case of every race above.
- **Faults.** `DBFaults = TRUE` lets any statement fail. `MaxCrashes = 1`
  allows one process exit, which is enough to reach a crash between commit
  and response.
- **Scale.** The concurrent run has about 1.5 million distinct states and
  takes about a minute.
- **UserAccounts.** The model has one e-mail, two passwords and two user
  ids. That is the smallest setting where two clients compete for one
  e-mail, and where a login can use the wrong password.
  Two handlers give the register/register race.
- **FoodCatalog.** Two users, and one initial food `f1` of `u1` with two
  requests on it, one by each user. Two free ids, `f2` and `f3`, let both
  users create a food, and a client may send either user as `id_user` in the
  body. That is the smallest setting where a body naming someone else could
  matter, and where ownership tells the /my-foods lists apart. Two matching
  rows are enough for a list to come back truncated.
- **ErrorPropagation.** Three layers are one more than any path in the code
  has (repository, then use case). The three codes 403, 422 and 500 are
  enough to tell an inner code from an outer one. 500 is the boundary of
  the `failure`/`error` word. `Endpoints` holds every endpoint name the code
  passes to `response.NewResponse`, from two to four tokens. For a one-token
  name, `case 0` would shadow `len-1` and drop the outcome word. No endpoint
  has such a name, so this is not a hazard of the code. The run has about
  320,000 distinct states.

### Fairness

No run checks a liveness property, so every specification is `Init /\
[][Next]_vars` with no fairness. Every branch of every use case returns, and
Go rejects a function path with no return, so the model adds no liveness
claim about handlers answering. Nothing claims that a pending request gets
resolved either: that needs an owner who calls the action endpoint.

Deadlock is checked in every Fulfillment run: an idle handler can always
take a new request. Only `MC_ErrorPropagation.cfg` sets `CHECK_DEADLOCK
FALSE`, because a failure stops propagating at the depth bound.

## Not modelled

- **Food creation inside Fulfillment.** `Fulfillment` starts from a fixed
  set of foods so that its concurrent run stays small. Creation is modelled
  in `FoodCatalog`.
- **Columns other than quantity and deleted_at.** No request handler reads
  them.
- **Composition of UserAccounts and Fulfillment.** `Fulfillment` takes the
  `idUser` header as any member of `Users`. `UserAccounts` shows that the
  header is the id of a registered account holding an issued token.
- **User GetByID, token signing, content-type middleware.** None of
  them changes state. HMAC signing is cryptography: the model only knows
  whether a token was signed with the server's secret.
- **Who may list a food's requests.** `/my-foods/request/{id}`
  (`list_by_food.go`) has its idUser check commented out, so any
  authenticated user lists the requests of any food. Neither spec.md nor the
  code states who should see them, so no property claims it.
- **What a status code of 0 becomes.** `Generate` replaces it with the
  message catalog's status (`pkg/msg`, `msg.yaml`), which is not part of
  `src/`. `list_failures` therefore checks the error value the use case
  passes, not the HTTP code on the wire.
- **Validation of a food's quantity.** `entity.Food` has no validation tags.
  `data.Cast` is not in `src/`, so whether a negative quantity is refused
  cannot be read from the code.
- **The envelope's language, meta and `SuccessWithMetadata`**, plus tracing
  and logging. `SuccessWithMetadata` is never called. The language only
  selects the catalog text.
- **The shared response template.** `appctx.NewResponse` clones `rsp`,
  which is never written after `once.Do`. No request can therefore see
  another's fields, and spec.md §9's concern is a design note, not a hazard
  of this code.
- **The SQS consumer, the example endpoints and the code generator.** They
  are scaffolding.

## Retry after a lost response

A Commit error is `log.Fatal`. The accept may have committed while the
client never got the answer. In `fulfillment_seq` the owner can retry the
same request after the crash (`ActStart` on that request). The retry never
takes stock twice (`ExactlyOnceDecrement`) and never changes a resolved
status (`StatusTerminal`). It is answered 422 "already done", which spec.md
gives for every resolved request, so the client cannot tell a committed
accept from a reject.

## Plan for later sittings

1. **Two foods,** so that requests on different foods can interfere through
   the shared UPDATE ... FROM of `AcceptRequest`.
2. **Reads over the fulfillment state.** Check what a list shows while
   accepts run, instead of over a fixed requests table.
3. **A run for the user-list truncation** and for the password-hash
   disclosure, if a run slot is freed. The model already has both
   (`ListedRows`, `UserRows`).
