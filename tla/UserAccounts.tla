----------------------------- MODULE UserAccounts -----------------------------
(***************************************************************************)
(* Accounts and authentication: POST /user/register (user.userRegister),   *)
(* POST /user/login (user.userLogin) and the bearer-token check that       *)
(* guards every other endpoint (middleware.ValidateBearerToken), over the  *)
(* users table (repositories/user.go), and GET /users (user.userList)      *)
(* behind that check.                                                      *)
(*                                                                         *)
(* Handlers are goroutines that interleave at each database statement.    *)
(* Register reads (IsRegistered) and writes (Create) in two statements.   *)
(* Whether users.email carries a UNIQUE constraint is a property of the   *)
(* schema, which is not part of the repository: EmailUnique says which.   *)
(***************************************************************************)
EXTENDS Integers, FiniteSets, ErrorChain

CONSTANTS
    Emails,       \* e-mail addresses clients send (model values)
    Pwds,         \* passwords clients send (model values)
    Ids,          \* user ids uuid.New() may return (model values)
    Handlers,     \* concurrent handler goroutines
    DBFaults,     \* TRUE: any statement may fail
    EmailUnique   \* TRUE: the schema has UNIQUE(email)

ASSUME DBFaults \in BOOLEAN /\ EmailUnique \in BOOLEAN

(* Status codes the code uses, the consts.Code constants.                 *)
CodeSuccess == 200
CodeCreated == 201
CodeBadRequest == 400
CodeAuthenticationFailure == 401
CodeNotFound == 404
CodeUnprocessableEntity == 422

None == "none"

VARIABLES
    users,    \* users table: id |-> [email, pwd] (pwd is the stored hash)
    hs,       \* per handler goroutine: step, inputs, last response
    tokens    \* bearer tokens handed to clients by register and login

vars == <<users, hs, tokens>>

NoUser == [email |-> None, pwd |-> None]
NoResp == [op |-> None, code |-> 0, outcome |-> None, id |-> None,
           email |-> None, pwd |-> None, rows |-> {}]
Idle == [pc |-> "idle", email |-> None, pwd |-> None, resp |-> NoResp]

(* bcrypt: the stored value is a one-way hash of the password, and         *)
(* CompareHashAndPassword(hash, p) succeeds iff hash is a hash of p.       *)
Hash(p) == [hashOf |-> p]
Hashes == {Hash(p) : p \in Pwds}
CompareHashAndPassword(hash, p) == hash = Hash(p)

(* GenerateJWT: an HS256 token with claim id_user, valid for two hours.    *)
(* A token a client forges (or alters) is not signed with the secret.      *)
GenerateJWT(id) == [id |-> id, expired |-> FALSE, signed |-> TRUE]
Forged == [id : Ids, expired : {FALSE}, signed : {FALSE}]
Token == [id : Ids, expired : BOOLEAN, signed : {TRUE}]

Registered(e) == {i \in Ids : users[i].email = e}
FreeIds == {i \in Ids : users[i] = NoUser}
Inserting == {h \in Handlers : hs[h].pc = "reg_insert"}

Fails == DBFaults

Init ==
    /\ users = [i \in Ids |-> NoUser]
    /\ hs = [h \in Handlers |-> Idle]
    /\ tokens = {}

Respond(h, op, code, outcome, id) ==
    hs' = [hs EXCEPT ![h] = [Idle EXCEPT !.resp =
              [op |-> op, code |-> code, outcome |-> outcome, id |-> id,
               email |-> hs[h].email, pwd |-> hs[h].pwd, rows |-> {}]]]

-----------------------------------------------------------------------------
(* POST /user/register                                                     *)

(* The body is cast and validated; uuid.New() never repeats, so a register *)
(* starts only while an unused id is left for it (the bound of Ids).       *)
RegStart(h) ==
    /\ hs[h].pc = "idle"
    /\ Cardinality(FreeIds) > Cardinality(Inserting)
    /\ \E e \in Emails, p \in Pwds :
          hs' = [hs EXCEPT ![h] = [Idle EXCEPT !.pc = "reg_check", !.email = e, !.pwd = p]]
    /\ UNCHANGED <<users, tokens>>

(* data.Cast or govalidator rejects the body.                              *)
RegBadBody(h) ==
    /\ hs[h].pc = "idle"
    /\ Respond(h, "register", CodeBadRequest, "bad_body", None)
    /\ UNCHANGED <<users, tokens>>

(* IsRegistered: SELECT ... WHERE email = $1 LIMIT 1; every outcome but    *)
(* sql.ErrNoRows, a failed query included, counts as registered.          *)
IsRegistered(e) == Fails \/ Registered(e) # {}

RegCheck(h) ==
    /\ hs[h].pc = "reg_check"
    /\ \/ /\ IsRegistered(hs[h].email)
          /\ Respond(h, "register", CodeUnprocessableEntity, "taken", None)
       \/ /\ Registered(hs[h].email) = {}
          /\ hs' = [hs EXCEPT ![h].pc = "reg_insert"]
    /\ UNCHANGED <<users, tokens>>

(* Variant: the plain password stored (payload.Password never replaced by  *)
(* the hash).                                                              *)
NewAccountPlainPassword(h) == [email |-> hs[h].email, pwd |-> hs[h].pwd]

(* The row Create inserts: the e-mail and the bcrypt hash of the password. *)
NewAccount(h) == [email |-> hs[h].email, pwd |-> Hash(hs[h].pwd)]

(* bcrypt.GenerateFromPassword, uuid.New, GenerateJWT, then                *)
(* userRepository.Create (INSERT INTO users); the token is returned only   *)
(* when the insert succeeded.                                              *)
RegInsert(h) ==
    /\ hs[h].pc = "reg_insert"
    /\ \/ /\ Fails \/ (EmailUnique /\ Registered(hs[h].email) # {})
          /\ Respond(h, "register", CodeInternalServerError, "insert_failed", None)
          /\ UNCHANGED <<users, tokens>>
       \/ /\ ~(EmailUnique /\ Registered(hs[h].email) # {})
          /\ \E i \in FreeIds :
                /\ users' = [users EXCEPT ![i] = NewAccount(h)]
                /\ tokens' = tokens \cup {GenerateJWT(i)}
                /\ Respond(h, "register", CodeCreated, "ok", i)

-----------------------------------------------------------------------------
(* POST /user/login                                                        *)

LoginStart(h) ==
    /\ hs[h].pc = "idle"
    /\ \E e \in Emails, p \in Pwds :
          hs' = [hs EXCEPT ![h] = [Idle EXCEPT !.pc = "login_read", !.email = e, !.pwd = p]]
    /\ UNCHANGED <<users, tokens>>

LoginBadBody(h) ==
    /\ hs[h].pc = "idle"
    /\ Respond(h, "login", CodeBadRequest, "bad_body", None)
    /\ UNCHANGED <<users, tokens>>

(* Variant: the arguments of CompareHashAndPassword swapped.              *)
PasswordMatchesSwapped(hash, p) == CompareHashAndPassword(p, hash)

(* bcrypt.CompareHashAndPassword(userAccount.Password, payload.Password).  *)
PasswordMatches(hash, p) == CompareHashAndPassword(hash, p)

(* GetByEmail: QueryRow of WHERE email = $1 AND deleted_at IS NULL with no *)
(* ORDER BY, so with several matching rows any one of them is scanned;     *)
(* then the password check and GenerateJWT.                               *)
LoginRead(h) ==
    /\ hs[h].pc = "login_read"
    /\ LET e == hs[h].email
           p == hs[h].pwd
       IN \/ /\ Fails \/ Registered(e) = {}
             /\ Respond(h, "login", CodeNotFound, "not_found", None)
             /\ UNCHANGED tokens
          \/ \E i \in Registered(e) :
                \/ /\ ~PasswordMatches(users[i].pwd, p)
                   /\ Respond(h, "login", CodeAuthenticationFailure, "bad_password", None)
                   /\ UNCHANGED tokens
                \/ /\ PasswordMatches(users[i].pwd, p)
                   /\ tokens' = tokens \cup {GenerateJWT(i)}
                   /\ Respond(h, "login", CodeSuccess, "ok", i)
    /\ UNCHANGED users

-----------------------------------------------------------------------------
(* middleware.ValidateBearerToken, run before a protected use case.        *)

(* Two hours pass: a token handed out earlier expires.                     *)
Expire ==
    /\ \E t \in tokens :
          /\ ~t.expired
          /\ tokens' = (tokens \ {t}) \cup {[t EXCEPT !.expired = TRUE]}
    /\ UNCHANGED <<users, hs>>

(* Variant: the signing method accepted without the HMAC check.           *)
SignatureValidUnchecked(t) == TRUE

(* jwt.Parse verifies the HMAC signature with the server's secret.        *)
SignatureValid(t) == t.signed

(* A client calls a protected endpoint with no token, a forged token, or  *)
(* one it was given. A passing request carries claims["id_user"] on to    *)
(* the use case as the idUser header.                                      *)
ValidateBearerToken(h) ==
    /\ hs[h].pc = "idle"
    /\ \/ Respond(h, "auth", ResponseCode(WrapCode("validate_bearer_token_middleware",
                     CodeBadRequest, Plain("unauthorized"))), "no_token", None)
       \/ \E t \in tokens \cup Forged :
             \/ /\ ~SignatureValid(t) \/ t.expired
                /\ Respond(h, "auth", ResponseCode(WrapCode("validate_bearer_token_middleware",
                              CodeBadRequest, Plain("jwt validation"))), "invalid_token", None)
             \/ /\ SignatureValid(t) /\ ~t.expired
                /\ Respond(h, "auth", 0, "pass", t.id)
    /\ UNCHANGED <<users, tokens>>

-----------------------------------------------------------------------------
(* GET /users                                                              *)

(* The rows of users: id_user, email and the stored password hash.        *)
UserRows == {[id |-> i, email |-> users[i].email, pwd |-> users[i].pwd] : i \in Ids \ FreeIds}

(* userRepository.List: SELECT ... password ... FROM users with no filter; *)
(* the rows.Next loop never checks rows.Err, so a connection lost midway  *)
(* ends the loop early and the rows read so far come back as the result.  *)
ListedRows == IF Fails THEN SUBSET UserRows ELSE {UserRows}

(* A request that passed ValidateBearerToken runs userList.Serve: a failed *)
(* query or Scan answers 500 "Ini messagenya", otherwise 200 with the     *)
(* entity.User values, whose Password field is serialised as "password". *)
UsersList(h) ==
    /\ hs[h].pc = "idle"
    /\ \E t \in tokens \cup Forged :
          /\ SignatureValid(t) /\ ~t.expired
          /\ \/ /\ Fails
                /\ Respond(h, "list_users", CodeInternalServerError, "list_failed", t.id)
             \/ \E rows \in ListedRows :
                   hs' = [hs EXCEPT ![h] = [Idle EXCEPT !.resp =
                             [op |-> "list_users", code |-> CodeSuccess, outcome |-> "ok",
                              id |-> t.id, email |-> None, pwd |-> None, rows |-> rows]]]
    /\ UNCHANGED <<users, tokens>>

-----------------------------------------------------------------------------
Next ==
    \/ \E h \in Handlers :
          \/ RegStart(h) \/ RegBadBody(h) \/ RegCheck(h) \/ RegInsert(h)
          \/ LoginStart(h) \/ LoginBadBody(h) \/ LoginRead(h)
          \/ ValidateBearerToken(h) \/ UsersList(h)
    \/ Expire

Spec == Init /\ [][Next]_vars

-----------------------------------------------------------------------------
TypeOK ==
    /\ users \in [Ids -> {NoUser} \cup [email : Emails, pwd : Hashes]]
    /\ tokens \subseteq Token
    /\ \A h \in Handlers :
          hs[h].pc \in {"idle", "reg_check", "reg_insert", "login_read"}

(* A login is refused with a wrong-password 401 only when no account with *)
(* that e-mail has that password: whoever registered can log in.           *)
NoFalseLoginRejection ==
    \A h \in Handlers :
        (hs[h].resp.op = "login" /\ hs[h].resp.outcome = "bad_password") =>
            \A i \in Registered(hs[h].resp.email) :
                ~CompareHashAndPassword(users[i].pwd, hs[h].resp.pwd)

(* A request the middleware lets through, and every GET /users answered    *)
(* (the user list, password hashes included, is served only behind it),  *)
(* acts as an account that proved its password (register or login) within *)
(* the token's lifetime: its id is the id of a token the server issued.   *)
PassedIdentityIsIssued ==
    \A h \in Handlers :
        \/ hs[h].resp.op = "list_users"
        \/ hs[h].resp.op = "auth" /\ hs[h].resp.outcome = "pass"
        =>
            /\ users[hs[h].resp.id] # NoUser
            /\ \E t \in tokens : t.id = hs[h].resp.id

(* A register refused with 422 "Email Already Registered" names an e-mail *)
(* that some account really holds.                                         *)
TakenMeansRegistered ==
    \A h \in Handlers :
        (hs[h].resp.op = "register" /\ hs[h].resp.outcome = "taken") =>
            Registered(hs[h].resp.email) # {}
=============================================================================
