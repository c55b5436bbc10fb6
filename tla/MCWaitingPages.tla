--------------------------- MODULE MCWaitingPages ---------------------------
(* The instance of WaitingPages that TLC explores. *)
EXTENDS WaitingPages

MCShopFlaws == {<<"/p", "marker">>, <<"kakaoLogin", "callback">>}

=============================================================================
