--------------------------- MODULE ResponseEnvelope ---------------------------
(***************************************************************************)
(* The envelope a use case answers with: response.NewResponse(endpoint)    *)
(* and its Failed method with parseResponseStatus                          *)
(* (internal/response/ucase_response.go), the appctx.Response template,    *)
(* Generate and Byte (internal/appctx/response.go), and how router.handle  *)
(* writes it or answers a recovered panic (internal/router/router.go).     *)
(*                                                                         *)
(* An endpoint name is the sequence of its snake_case tokens. A derived    *)
(* string is a sequence of pieces: Word(w) for a token as written,        *)
(* Title(w) for cases.Title applied to it, and Space for " ". Upper(s) is  *)
(* strings.ToUpper(s).                                                      *)
(* The text of the message catalog (pkg/msg) is not in the repository: a  *)
(* value looked up there is the model value Catalog.                      *)
(***************************************************************************)
EXTENDS ErrorChain
LOCAL INSTANCE Integers
LOCAL INSTANCE Sequences
LOCAL INSTANCE SequencesExt

Word(w) == [word |-> w]
Title(w) == [title |-> w]
Space == [title |-> " "]
Upper(s) == [upper |-> s]
Catalog == [catalog |-> TRUE]
Unset == [unset |-> TRUE]

(* appctx.NewResponse: once.Do builds the zero template rsp, and each call *)
(* returns a copy of it, so every response starts from the zero value.    *)
NewResponse ==
    [code |-> 0, status |-> Unset, entity |-> <<>>, state |-> <<>>,
     message |-> <<>>, errors |-> Unset]

(* One turn of the loop over the tokens: Go's switch takes the first case *)
(* that matches, so index 0 wins over len-1 for a one-token name.         *)
ParseStep(acc, i, ws, status) ==
    LET str == ws[i] IN
    IF i = 1
    THEN [entity |-> acc.entity \o <<Word(str)>>, state |-> acc.state \o <<Word(str)>>,
          message |-> acc.message \o <<Title(str)>>]
    ELSE IF i = Len(ws)
    THEN [entity |-> acc.entity \o <<Title(str)>>,
          state |-> acc.state \o <<Title(str), Title(status)>>,
          message |-> acc.message \o <<Space, Title(str), Space, Title(status)>>]
    ELSE [entity |-> acc.entity \o <<Title(str)>>,
          state |-> acc.state \o <<Title(str)>>,
          message |-> acc.message \o <<Space, Title(str)>>]

RECURSIVE ParseFrom(_, _, _, _)
ParseFrom(acc, i, ws, status) ==
    IF i > Len(ws) THEN acc
    ELSE ParseFrom(ParseStep(acc, i, ws, status), i + 1, ws, status)

(* parseResponseStatus: the loop, then WithStatus(ToUpper(status)),       *)
(* WithEntity, WithState and WithMessage on a fresh response.             *)
ParseResponseStatus(responseStatus, endpointName) ==
    LET p == ParseFrom([entity |-> <<>>, state |-> <<>>, message |-> <<>>],
                       1, endpointName, responseStatus)
    IN [NewResponse EXCEPT !.status = Upper(responseStatus), !.entity = p.entity,
                           !.state = p.state, !.message = p.message]

(* Variant: only codes above 500 counted as a failure.                    *)
FailedAbove500(endpointName, err) ==
    LET statusCode == FailedStatusCode(err)
        responseStatus == IF statusCode > 500 THEN "failure" ELSE "error"
    IN [ParseResponseStatus(responseStatus, endpointName)
            EXCEPT !.code = statusCode, !.errors = err]

(* response.Failed: the code of the chain's last frame (0 for any other   *)
(* error), outcome "failure" from 500 up and "error" below, then          *)
(* WithCode(statusCode).WithError(err). The transaction id is always nil. *)
Failed(endpointName, err) ==
    LET statusCode == FailedStatusCode(err)
        responseStatus == IF statusCode >= 500 THEN "failure" ELSE "error"
    IN [ParseResponseStatus(responseStatus, endpointName)
            EXCEPT !.code = statusCode, !.errors = err]

(* Generate: a missing message or a zero code is taken from the catalog.  *)
Generate(r) ==
    [r EXCEPT !.message = IF r.message = <<>> THEN Catalog ELSE r.message,
              !.code = IF r.code = 0 THEN Catalog ELSE r.code]

(* The deferred recover in router.handle answers a panic with a bare      *)
(* appctx.Response{Code: 500}, whose message Byte takes from the catalog. *)
RecoveredPanic == Generate([NewResponse EXCEPT !.code = CodeInternalServerError])

-----------------------------------------------------------------------------
(* The derivation spec.md section 4.4 describes: the entity is the name    *)
(* in camel case, the state the entity followed by the outcome word, and   *)
(* the message every token title-cased, separated by spaces, followed by   *)
(* the outcome word.                                                       *)
EntityOf(ws) == <<Word(ws[1])>> \o [i \in 1..Len(ws) - 1 |-> Title(ws[i + 1])]
StateOf(ws, outcome) == EntityOf(ws) \o <<Title(outcome)>>
MessageOf(ws, outcome) ==
    <<Title(ws[1])>> \o FlattenSeq([i \in 1..Len(ws) - 1 |-> <<Space, Title(ws[i + 1])>>])
        \o <<Space, Title(outcome)>>
=============================================================================
