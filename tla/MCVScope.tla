------------------------------ MODULE MCVScope ------------------------------
(* Instances of VScope: calls of the client library as the example programs *)
(* make them.                                                               *)
EXTENDS VScope

Library ==
  {<<"logic", "start", "read", "stop">>, <<"intern", "start", "state">>,
   <<"intern", "start", "stop">>, <<"state">>, <<"read">>,
   <<"edge">>, <<"pattern">>, <<"off">>, <<"open">>}
=============================================================================
