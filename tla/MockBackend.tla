---------------------------- MODULE MockBackend ----------------------------
(***************************************************************************)
(* One backend replica as implemented by the Flask mock                    *)
(* src/meta-server/test_flask.py: an in-memory dictionary served over the  *)
(* HTTP API /write, /read, /read-all, /add-learner, /change-membership and *)
(* /metrics.  A replica's state is its key-value dictionary.               *)
(*                                                                         *)
(* An HTTP response is a record [shape, val, items]:                       *)
(*   shape "text"  a body that is not JSON ("Ok" or "Err" from /write),    *)
(*   shape "Ok"    a JSON object with key "Ok" and payload val,            *)
(*   shape "OK"    the JSON object {"OK": []} that /read-all returns for   *)
(*                 an empty database (upper-case key, line 138),           *)
(*   shape "none"  an empty body (never produced by this mock, but handled *)
(*                 by the client, node_server.py line 400).                *)
(* val is the text or the string payload, items the list payload of       *)
(* /read-all (kept apart so that any two responses can be compared).      *)
(* The mock's cluster_state bookkeeping (log_index, learners, members,     *)
(* configs) is only echoed back inside membership and metrics payloads,    *)
(* which the proxy turns into text; it is abstracted to the payload tags   *)
(* "membership" and "metrics".                                             *)
(***************************************************************************)
EXTENDS FiniteSets

CONSTANTS
    Keys,       \* keys a client may use (lower-case tokens, see proxy_server.py:31)
    Vals,       \* non-empty values a client may PUT
    Absent      \* marks a key that is not in the dictionary

ASSUME Absent \notin Vals
ASSUME "" \notin Vals /\ "Err" \notin Vals

\* A replica's database: the Python dict `database` of test_flask.py.
Db == [Keys -> Vals \union {Absent}]

EmptyDb == [k \in Keys |-> Absent]

Text(s)     == [shape |-> "text", val |-> s, items |-> {}]
OkJson(x)   == [shape |-> "Ok", val |-> x, items |-> {}]
OkItems(S)  == [shape |-> "Ok", val |-> "", items |-> S]
ErrText     == Text("Err")
NoBody      == [shape |-> "none", val |-> "none", items |-> {}]

\* The requests the node server sends (node_server.py lines 24-26, 43, 81-83,
\* 97, 107, 122-124, 138), abstracted to their operation and arguments.
PutReq(k, v)   == [op |-> "put", key |-> k, val |-> v]
DelReq(k)      == [op |-> "del", key |-> k]
ReadReq(k)     == [op |-> "read", key |-> k]
ReadAllReq     == [op |-> "readall"]
AddLearnerReq  == [op |-> "addlearner"]
ChangeMemReq   == [op |-> "chmem"]
MetricsReq     == [op |-> "metrics"]

\* The pairs of a database, the list [{"k":k,"v":v}, ...] of /read-all.
Items(db) == {<<k, db[k]>> : k \in {x \in Keys : db[x] # Absent}}

(***************************************************************************)
(* The routes of test_flask.py.  Each returns the replica's response to   *)
(* one request and its database afterwards.                                *)
(***************************************************************************)

\* write() (lines 57-100): Put stores the value and answers "Ok"; Del of a
\* present key answers "Ok", of an absent key the text "Err" (status 200).
WriteRoute(db, req) ==
    IF req.op = "put"
    THEN [resp |-> Text("Ok"), db |-> [db EXCEPT ![req.key] = req.val]]
    ELSE IF db[req.key] # Absent
    THEN [resp |-> Text("Ok"), db |-> [db EXCEPT ![req.key] = Absent]]
    ELSE [resp |-> ErrText, db |-> db]

\* read() (lines 103-129): {"Ok": value}, or {"Ok": ""} for a missing key.
ReadRoute(db, req) ==
    [resp |-> OkJson(IF db[req.key] = Absent THEN "" ELSE db[req.key]),
     db   |-> db]

\* read_all() (lines 132-146): {"OK": []} when empty, {"Ok": [...]} else.
ReadAllRoute(db) ==
    [resp |-> IF Items(db) = {} THEN [shape |-> "OK", val |-> "", items |-> {}]
                                ELSE OkItems(Items(db)),
     db   |-> db]

\* add_learner(), change_membership(), metrics() (lines 149-278) answer
\* {"Ok": ...} and leave the key-value database alone.
AddLearnerRoute(db)       == [resp |-> OkJson("membership"), db |-> db]
ChangeMembershipRoute(db) == [resp |-> OkJson("membership"), db |-> db]
MetricsRoute(db)          == [resp |-> OkJson("metrics"), db |-> db]

\* The route a request reaches (the @app.route table).
Handle(db, req) ==
    CASE req.op \in {"put", "del"}  -> WriteRoute(db, req)
      [] req.op = "read"            -> ReadRoute(db, req)
      [] req.op = "readall"         -> ReadAllRoute(db)
      [] req.op = "addlearner"      -> AddLearnerRoute(db)
      [] req.op = "chmem"           -> ChangeMembershipRoute(db)
      [] req.op = "metrics"         -> MetricsRoute(db)
=============================================================================
