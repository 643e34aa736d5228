----------------------------- MODULE ErrorChain -----------------------------
(***************************************************************************)
(* The typed error chain of internal/consts/error.go and the status-code   *)
(* lookup of response.Failed (internal/response/ucase_response.go).        *)
(*                                                                         *)
(* An error value is a record with a kind:                                 *)
(*   "chain"  - a consts.Errors, a non-empty stack of WrappedError frames; *)
(*   "plain"  - any other error (consts.Error, a driver error, fmt.Errorf);*)
(*   "fields" - a validation.Errors of ozzo-validation;                    *)
(*   "nil"    - the nil error interface.                                   *)
(* Messages are tokens: their text is never inspected, only carried.       *)
(***************************************************************************)
LOCAL INSTANCE Integers
LOCAL INSTANCE Sequences
LOCAL INSTANCE SequencesExt

CodeInternalServerError == 500

NilErr == [kind |-> "nil", msg |-> "", frames |-> <<>>]
Plain(m) == [kind |-> "plain", msg |-> m, frames |-> <<>>]
FieldsErr(m) == [kind |-> "fields", msg |-> m, frames |-> <<>>]

(* A runtime panic: calling Error() on a nil error interface.              *)
Panic == [kind |-> "panic", msg |-> "", frames |-> <<>>]

(* Errors.Error() returns the message of the first frame, e[0].            *)
Chain(fs) == [kind |-> "chain", msg |-> fs[1].err.msg, frames |-> fs]

(* ErrorEvent(event): status 500, cause "internal server error".           *)
ErrorEvent(event) ==
    [code |-> CodeInternalServerError, event |-> event,
     err |-> Plain("internal server error")]

WithCode(b, statusCode) == [b EXCEPT !.code = statusCode]

WithMessage(b, message) == [b EXCEPT !.err = Plain(message)]

(* Variant: the cause is kept as it is instead of flattened to a message  *)
(* (a nil cause is stored instead of panicking).                           *)
transformFieldErrorKeepCause(e) ==
    IF e.kind = "fields" THEN FieldsErr(e.msg) ELSE [e EXCEPT !.frames = <<>>]

(* transformFieldError: a validation error becomes a field list, any other *)
(* error its own message; errors.Cause(nil) is nil and nil.Error() panics.  *)
transformFieldError(e) ==
    CASE e.kind = "fields" -> FieldsErr(e.msg)
      [] e.kind = "nil"    -> Panic
      [] OTHER             -> Plain(e.msg)

(* Variants of WrapError, each a plausible slip in it.                     *)
(* The new frame takes the builder's code instead of the chain's.          *)
WrapErrorOwnCode(b, e) ==
    IF e.kind = "chain"
    THEN Chain(Append(e.frames, [code |-> b.code, event |-> b.event,
                                 err |-> transformFieldError(b.err)]))
    ELSE IF transformFieldError(e) = Panic THEN Panic
         ELSE Chain(<< [code |-> b.code, event |-> b.event, err |-> transformFieldError(e)] >>)

(* The first frame carries the builder's message instead of the cause's.   *)
WrapErrorBuilderText(b, e) ==
    IF e.kind = "chain"
    THEN Chain(Append(e.frames, [code |-> Last(e.frames).code, event |-> b.event,
                                 err |-> transformFieldError(b.err)]))
    ELSE IF transformFieldError(e) = Panic THEN Panic
         ELSE Chain(<< [code |-> b.code, event |-> b.event, err |-> transformFieldError(b.err)] >>)

(* The new frame is put in front of the chain instead of appended.         *)
WrapErrorPrepend(b, e) ==
    IF e.kind = "chain"
    THEN Chain(<< [code |-> Last(e.frames).code, event |-> b.event,
                   err |-> transformFieldError(b.err)] >> \o e.frames)
    ELSE IF transformFieldError(e) = Panic THEN Panic
         ELSE Chain(<< [code |-> b.code, event |-> b.event, err |-> transformFieldError(e)] >>)

(* WrapError: wrapping a chain appends a frame that copies the status code  *)
(* of the chain's last frame and carries the builder's own message; any     *)
(* other error starts a one-frame chain with the builder's code and the     *)
(* wrapped error's message (the builder's message is dropped).              *)
WrapError(b, e) ==
    IF e.kind = "chain"
    THEN Chain(Append(e.frames,
                      [code  |-> Last(e.frames).code,
                       event |-> b.event,
                       err   |-> transformFieldError(b.err)]))
    ELSE IF transformFieldError(e) = Panic
         THEN Panic
         ELSE Chain(<< [code  |-> b.code,
                        event |-> b.event,
                        err   |-> transformFieldError(e)] >>)

(* response.Failed: the status code is the last frame's code of a chain,   *)
(* 0 for any other error.                                                  *)
FailedStatusCode(e) ==
    IF e.kind = "chain" THEN Last(e.frames).code ELSE 0

(* router.handle recovers a panic and answers 500.                         *)
ResponseCode(e) ==
    IF e = Panic THEN CodeInternalServerError ELSE FailedStatusCode(e)

(* The builder chain every use case writes:                                *)
(*   ErrorEvent(ev).WithMessage(m).WithCode(c).WrapError(e)                *)
Wrap(ev, m, c, e) == WrapError(WithCode(WithMessage(ErrorEvent(ev), m), c), e)

(* The repository form without a message: ErrorEvent(ev).WithCode(c).Wrap  *)
WrapCode(ev, c, e) == WrapError(WithCode(ErrorEvent(ev), c), e)
=============================================================================
