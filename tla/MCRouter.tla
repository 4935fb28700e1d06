------------------------------ MODULE MCRouter ------------------------------
(* An instance of Router.                                                  *)
EXTENDS Router

MCPatterns ==
    {<<"">>, <<"a">>, <<"*">>, <<"a", "">>, <<"*", "">>, <<"a", "b">>, <<"*", "c">>, <<"", "a">>}

MCAsked ==
    {<<"">>, <<"a">>, <<"b">>, <<"a", "">>, <<"a", "b">>, <<"a", "c">>, <<"b", "c">>,
     <<"b", "d">>, <<"a", "b", "c">>, <<"", "a">>}
=============================================================================
