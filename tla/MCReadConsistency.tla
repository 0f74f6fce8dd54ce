------------------------- MODULE MCReadConsistency -------------------------
(***************************************************************************)
(* Model-checking instance of ReadConsistency, with the constants of       *)
(* MCProxyServer.                                                          *)
(***************************************************************************)
EXTENDS ReadConsistency, TLC

MCMemberLists == {<<1, 2>>, <<2, 1>>, <<1, 4>>}

MCSymmetry == Permutations(Clients) \union Permutations(Vals) \union Permutations(Keys)
=============================================================================
