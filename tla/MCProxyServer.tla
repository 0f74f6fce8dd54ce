--------------------------- MODULE MCProxyServer ---------------------------
(***************************************************************************)
(* Model-checking instance of ProxyServer: two node servers (so two        *)
(* session slots), three clients (so the pool can be full), the three      *)
(* db_urls of node_server.py, one key and two values.                      *)
(***************************************************************************)
EXTENDS ProxyServer, TLC

\* CHANGE-MEMBERSHIP lines: two orders of replicas 1 and 2, and a list
\* naming id 4, which db_urls (3 entries) does not have.
MCMemberLists == {<<1, 2>>, <<2, 1>>, <<1, 4>>}

MCSymmetry == Permutations(Clients) \union Permutations(Vals) \union Permutations(Keys)
=============================================================================
