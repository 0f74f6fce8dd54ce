--------------------------- MODULE MCProxyServing ---------------------------
(***************************************************************************)
(* Model-checking instance of ProxyServing: a membership change to two     *)
(* replicas in reverse order, to a wrapping id, and to an id outside       *)
(* db_urls.                                                                *)
(***************************************************************************)
EXTENDS ProxyServing, TLC

MCMemberLists == {<<2, 1>>, <<0>>, <<1, 4>>}
MCIdLists     == {<<1>>} \union MCMemberLists
=============================================================================
