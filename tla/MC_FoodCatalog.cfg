\* Creation and all reads with failing statements.
CONSTANTS
    u1 = u1
    u2 = u2
    f1 = f1
    f2 = f2
    f3 = f3
    r1 = r1
    r2 = r2
    Users <- MCUsers
    Foods <- MCFoods
    InitFoods <- MCInitFoods
    ReqRow <- MCReqRow
    FoodQtys <- MCFoodQtys
    DBFaults = TRUE
SPECIFICATION Spec
INVARIANT TypeOK
