\* One handler, a client that sends a negative request quantity.
CONSTANTS
    u1 = u1
    u2 = u2
    f1 = f1
    r1 = r1
    r2 = r2
    h1 = h1
    h2 = h2
    Users <- MCUsers
    Foods <- MCFoods
    Reqs <- MCReqs
    Handlers <- OneHandler
    Owner <- MCOwner
    InitStock <- MCInitStock
    StockValues <- MCStockValues
    ReqQtys <- MCReqQtysSigned
    DBFaults = FALSE
    MaxCrashes = 0
SPECIFICATION Spec
PROPERTY AcceptNeverRaisesStock
