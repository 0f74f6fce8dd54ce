--------------------------- MODULE BackendClient ---------------------------
(***************************************************************************)
(* Server._http_request (node_server.py lines 373-414): one request sent  *)
(* to every replica named in the server's current_ids, one after another,  *)
(* in list order, and the per-replica responses folded into one result.    *)
(*                                                                         *)
(* A call to a replica ends in one of three ways: the replica answers; the *)
(* call raises a RequestException before the replica handled the request *)
(* (connection refused, "refused"); or it raises after the replica        *)
(* handled it (the connection reset or dropped while the answer was on    *)
(* its way, "lost").  Both exceptions are recorded as the text "Err".      *)
(* How each call ends is an input of the fan-out: a function `f` from the *)
(* positions of current_ids to these endings.  A replica id that does not *)
(* index db_urls raises an IndexError at line 380, which is not a          *)
(* RequestException: it ends the loop and propagates to the caller, after  *)
(* the requests to the earlier positions have already been handled.        *)
(***************************************************************************)
EXTENDS MockBackend, Integers, Sequences

CONSTANTS
    NumUrls,            \* Len(db_urls), node_server.py line 19
    ReplicaCallsMayFail, \* a call may be refused before the replica sees it
    ResponsesMayBeLost   \* a call may fail after the replica handled it

ASSUME NumUrls \in Nat \ {0}
ASSUME ReplicaCallsMayFail \in BOOLEAN /\ ResponsesMayBeLost \in BOOLEAN

Urls == 1..NumUrls

\* db_urls[id - 1] is defined for -NumUrls <= id - 1 < NumUrls (Python
\* indexes a list from its end for a negative index).
ValidId(id) == -NumUrls <= id - 1 /\ id - 1 < NumUrls

\* The position in db_urls (1-based) that db_urls[id - 1] reads.
UrlOf(id) == IF id - 1 >= 0 THEN id ELSE NumUrls + id

IsErr(r) == r.shape = "text" /\ r.val = "Err"

\* The loop of lines 379-403 from position i on.  acc.dbs are the replicas'
\* databases, acc.resps the responses so far, acc.hit the replicas the
\* request reached, acc.fault whether an IndexError ended the loop.
RECURSIVE FanOut(_, _, _, _, _)
FanOut(acc, ids, req, f, i) ==
    IF i > Len(ids) THEN acc
    ELSE IF ~ValidId(ids[i]) THEN [acc EXCEPT !.fault = TRUE]
    ELSE LET u       == UrlOf(ids[i])
             h       == Handle(acc.dbs[u], req)
             reached == f[i] # "refused"
         IN FanOut([acc EXCEPT
                      !.dbs[u] = IF reached THEN h.db ELSE @,
                      !.resps  = Append(@, IF f[i] = "answered" THEN h.resp ELSE ErrText),
                      !.hit    = IF reached THEN @ \union {u} ELSE @],
                   ids, req, f, i + 1)

\* Lines 405-414: "Err" if every response is "Err" (also when there is no
\* response at all), else the first response that is neither "Err" nor
\* None, else None.
SelectResponse(resps) ==
    LET usable == {i \in DOMAIN resps : ~IsErr(resps[i]) /\ resps[i].shape # "none"}
    IN IF \A i \in DOMAIN resps : IsErr(resps[i]) THEN ErrText
       ELSE IF usable = {} THEN NoBody
       ELSE resps[CHOOSE i \in usable : \A j \in usable : i <= j]

\* The whole of _http_request: the databases afterwards, the replicas the
\* request reached, and either the selected response or a fault.
HttpRequest(dbs, ids, req, f) ==
    LET out == FanOut([dbs |-> dbs, resps |-> <<>>, hit |-> {}, fault |-> FALSE],
                      ids, req, f, 1)
    IN [dbs   |-> out.dbs,
        hit   |-> out.hit,
        fault |-> out.fault,
        resp  |-> SelectResponse(out.resps)]

\* How one call may end (lines 383-403).
CallEndings ==
    {"answered"} \union (IF ReplicaCallsMayFail THEN {"refused"} ELSE {})
                 \union (IF ResponsesMayBeLost THEN {"lost"} ELSE {})

\* The failure patterns of one fan-out over current_ids: every call ends
\* in any of its endings, independently of the others.
Failures(ids) == [DOMAIN ids -> CallEndings]
=============================================================================
