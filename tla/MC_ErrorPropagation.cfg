CONSTANTS
    Events <- MCEvents
    Msgs <- MCMsgs
    Codes <- MCCodes
    MaxDepth = 3
    Endpoints <- MCEndpoints
SPECIFICATION Spec
INVARIANT TypeOK
INVARIANT VisibleCodeIsInnermost
INVARIANT ErrorTextIsOrigin
INVARIANT ChainRecordsEveryLayer
INVARIANT EnvelopeReportsFailure
CHECK_DEADLOCK FALSE
