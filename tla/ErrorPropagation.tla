--------------------------- MODULE ErrorPropagation --------------------------
(***************************************************************************)
(* One failure crossing the layers of a request: a repository call fails   *)
(* with an error, then each layer above it (repository, use case) wraps it *)
(* with its own builder, ErrorEvent(ev) followed optionally by WithMessage *)
(* and WithCode, and finally response.Failed turns it into a status code.  *)
(***************************************************************************)
EXTENDS Integers, Sequences, ResponseEnvelope

CONSTANTS
    Events,     \* event names of the layers
    Msgs,       \* error messages (tokens)
    Codes,      \* status codes a layer may set with WithCode
    MaxDepth,   \* number of layers a failure crosses
    Endpoints   \* endpoint names given to response.NewResponse (token sequences)

ASSUME MaxDepth \in Nat /\ MaxDepth >= 2

VARIABLES
    base,       \* the error returned by the failing call
    err,        \* the error as seen by the current layer
    layers,     \* ghost: the builders applied so far, innermost first
    replied,    \* the use case has answered
    endpoint,   \* the use case's endpoint name, once it answers
    out         \* the envelope router.handle writes, once it answers

vars == <<base, err, layers, replied, endpoint, out>>

Builder == [code : Codes \cup {CodeInternalServerError}, event : Events,
            err : {Plain(m) : m \in Msgs \cup {"internal server error"}}]

BaseErrors == {Plain(m) : m \in Msgs} \cup {FieldsErr(m) : m \in Msgs} \cup {NilErr}

Init ==
    /\ base \in BaseErrors
    /\ err = base
    /\ layers = <<>>
    /\ replied = FALSE
    /\ endpoint = <<>>
    /\ out = NewResponse

(* A layer wraps the error it received:                                    *)
(*   errorEvent[.WithMessage(m)][.WithCode(c)].WrapError(err)              *)
WrapLayer ==
    /\ ~replied
    /\ Len(layers) < MaxDepth
    /\ err # Panic
    /\ \E ev \in Events, m \in Msgs, c \in Codes, setMsg, setCode \in BOOLEAN :
          LET b0 == ErrorEvent(ev)
              b1 == IF setMsg THEN WithMessage(b0, m) ELSE b0
              b  == IF setCode THEN WithCode(b1, c) ELSE b1
          IN /\ err' = WrapError(b, err)
             /\ layers' = Append(layers, b)
    /\ UNCHANGED <<base, replied, endpoint, out>>

(* The use case returns response.Failed(err) for its endpoint name and    *)
(* router.response writes it (Generate, WriteHeader, Byte); an error that  *)
(* panicked is answered by the deferred recover instead.                   *)
Reply ==
    /\ ~replied
    /\ replied' = TRUE
    /\ \E e \in Endpoints :
          /\ endpoint' = e
          /\ out' = IF err = Panic THEN RecoveredPanic ELSE Generate(Failed(e, err))
    /\ UNCHANGED <<base, err, layers>>

Next == WrapLayer \/ Reply

Spec == Init /\ [][Next]_vars

-----------------------------------------------------------------------------
Frame == [code : Codes \cup {CodeInternalServerError}, event : Events,
          err : {Plain(m) : m \in Msgs \cup {"internal server error"}} \cup
                {FieldsErr(m) : m \in Msgs}]

TypeOK ==
    /\ base \in BaseErrors
    /\ layers \in Seq(Builder)
    /\ err \in BaseErrors \cup {Panic} \/
          (err.frames \in Seq(Frame) /\ err.frames # <<>> /\ err = Chain(err.frames))
    /\ replied \in BOOLEAN
    /\ endpoint \in Endpoints \cup {<<>>}
    /\ replied = (endpoint # <<>>)

(* The status code the client sees (response.Failed on the last frame) is  *)
(* the code set by the innermost layer, whatever the outer layers set with *)
(* WithCode: WrapError copies the chain's code into every new frame.       *)
VisibleCodeIsInnermost ==
    err.kind = "chain" => ResponseCode(err) = layers[1].code

(* Errors.Error() is the text of the failing call's own error: the         *)
(* innermost frame holds the wrapped error's message, not the builder's.   *)
ErrorTextIsOrigin ==
    err.kind = "chain" => err.msg = base.msg

(* The chain keeps one frame per layer, innermost first, each tagged with  *)
(* its layer's event, so the log shows the whole path of the failure.      *)
ChainRecordsEveryLayer ==
    err.kind = "chain" =>
        /\ Len(err.frames) = Len(layers)
        /\ \A i \in 1..Len(layers) : err.frames[i].event = layers[i].event


(* The envelope the client receives for the failure names the endpoint and *)
(* classifies it by the innermost layer's code, as spec.md section 4.4     *)
(* describes: entity, state and message derived token by token from the   *)
(* endpoint name (parseResponseStatus), the outcome word "failure" for a  *)
(* 5xx and "error" otherwise (response.Failed), and the code of the first *)
(* layer to wrap it; an error that never became a chain, or a panic, gets *)
(* no derived fields from Failed's caller.                                *)
EnvelopeReportsFailure ==
    (replied /\ err.kind = "chain") =>
        LET code == layers[1].code
            outcome == IF code >= 500 THEN "failure" ELSE "error"
        IN /\ out.code = code
           /\ out.status = Upper(outcome)
           /\ out.entity = EntityOf(endpoint)
           /\ out.state = StateOf(endpoint, outcome)
           /\ out.message = MessageOf(endpoint, outcome)
=============================================================================
