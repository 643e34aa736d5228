--------------------------- MODULE MC_FoodCatalog ----------------------------
(* Instantiation of FoodCatalog for TLC. u1 owns f1 with two requests on  *)
(* it, one of u1 and one of u2; f2 and f3 are ids a create may take, so   *)
(* both users can end up owning foods.                                    *)
EXTENDS FoodCatalog

CONSTANTS u1, u2, f1, f2, f3, r1, r2

MCUsers == {u1, u2}
MCFoods == {f1, f2, f3}
MCInitFoods == [f \in MCFoods |-> IF f = f1 THEN [owner |-> u1, qty |-> 2] ELSE NoFood]
MCReqRow == [r \in {r1, r2} |-> [food |-> f1, user |-> IF r = r1 THEN u1 ELSE u2]]
MCFoodQtys == {1, 2}
=============================================================================
