------------------------- MODULE MC_ErrorPropagation -------------------------
EXTENDS ErrorPropagation

MCEvents == {"get_request_food_by_id_request", "request_action"}
MCMsgs == {"db", "too many quantity requested"}
MCCodes == {403, 422, 500}

(* Every endpoint name the use cases give response.NewResponse.            *)
MCEndpoints ==
    { <<"create", "food">>, <<"create", "request">>, <<"delete", "my", "food">>,
      <<"get", "detail", "my", "food">>, <<"get", "detail", "shared", "food">>,
      <<"get", "foods">>, <<"list", "my", "foods">>,
      <<"list", "requests", "food">>, <<"list", "requests", "user">>,
      <<"request", "action">>, <<"update", "my", "foods">>,
      <<"validate", "bearer", "token", "middleware">> }
=============================================================================
