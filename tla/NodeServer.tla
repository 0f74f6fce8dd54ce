---------------------------- MODULE NodeServer ----------------------------
(***************************************************************************)
(* The node servers of src/meta-server/node_server.py: NumServers          *)
(* instances of class Server (ids 0 .. NumServers-1), each served by its   *)
(* own single-threaded XML-RPC server, sharing the module-level `log`.     *)
(*                                                                         *)
(* Each method is an operator over the current state that returns what the *)
(* method returns together with the state it leaves behind; the proxy's    *)
(* actions (ProxyServer.tla) call them as the proxy's handlers call the    *)
(* methods over XML-RPC.  `F`, `F1`, `F2` are the failure patterns of the  *)
(* method's fan-outs (BackendClient.tla).  A result with fault = TRUE is a *)
(* method that raised (an IndexError from _http_request), which XML-RPC    *)
(* turns into a Fault for the caller.                                      *)
(*                                                                         *)
(* Server.cache is left out: lines 59-60 write it and nothing reads it     *)
(* (the reads at lines 38-39 and the updates at 30 and 87-88 are          *)
(* commented out), so no behaviour of the system depends on it.            *)
(***************************************************************************)
EXTENDS BackendClient

CONSTANT
    NumServers      \* count, node_server.py line 427

Servers == 0 .. NumServers - 1

VARIABLES
    reps,           \* reps[u]: the database of the replica at db_urls[u]
    currentIds,     \* currentIds[s]: Server s's self.current_ids
    log             \* the shared module-level log, one record per entry

\* Python truthiness of a string: `x and x != ""` (lines 59, 76).
Truthy(x) == x # ""

IsOkText(r) == r.shape = "text" /\ r.val = "Ok"

\* write_log (lines 367-371): one entry naming the server, appended under
\* log_lock.  The entry's text is abstracted to the kind of operation.
WriteLog(s, op) == Append(log, [srv |-> s, op |-> op])

\* get (lines 36-70) on the selected response of /read.
GetValue(resp) ==
    CASE resp.shape = "Ok"   -> resp.val      \* {"Ok": v}: v, possibly ""
      [] resp.shape = "OK"   -> ""            \* a dict without "Ok"
      [] resp.shape = "text" -> resp.val      \* a str, returned as it is
      [] OTHER               -> ""            \* None

NodeGet(s, k, F) ==
    LET r == HttpRequest(reps, currentIds[s], ReadReq(k), F)
    IN [fault |-> r.fault, val |-> GetValue(r.resp)]

\* put (lines 22-34).
NodePut(s, k, v, action, F) ==
    LET r  == HttpRequest(reps, currentIds[s], PutReq(k, v), F)
        ok == ~r.fault /\ IsOkText(r.resp)
    IN [fault |-> r.fault, ok |-> ok, dbs |-> r.dbs, hit |-> r.hit,
        log |-> IF ok THEN WriteLog(s, action) ELSE log]

\* A variant of delete that writes its log entry before looking at the
\* response of /write.
NodeDeleteLogFirst(s, k, F1, F2) ==
    LET g == NodeGet(s, k, F1)
        r == HttpRequest(reps, currentIds[s], DelReq(k), F2)
    IN IF g.fault \/ ~Truthy(g.val)
       THEN [fault |-> g.fault, ok |-> FALSE, dbs |-> reps, hit |-> {}, log |-> log]
       ELSE [fault |-> r.fault, ok |-> ~r.fault /\ IsOkText(r.resp),
             dbs |-> r.dbs, hit |-> r.hit, log |-> WriteLog(s, "del")]

\* delete (lines 72-92): a get of the key first; a falsy value returns
\* False without sending /write.
NodeDelete(s, k, F1, F2) ==
    LET g  == NodeGet(s, k, F1)
        r  == HttpRequest(reps, currentIds[s], DelReq(k), F2)
        ok == ~r.fault /\ IsOkText(r.resp)
    IN IF g.fault
       THEN [fault |-> TRUE, ok |-> FALSE, dbs |-> reps, hit |-> {}, log |-> log]
       ELSE IF ~Truthy(g.val)
       THEN [fault |-> FALSE, ok |-> FALSE, dbs |-> reps, hit |-> {}, log |-> log]
       ELSE [fault |-> r.fault, ok |-> ok, dbs |-> r.dbs, hit |-> r.hit,
             log |-> IF ok THEN WriteLog(s, "del") ELSE log]

\* list (lines 94-102): the selected response of /read-all.
NodeList(s, F) ==
    LET r == HttpRequest(reps, currentIds[s], ReadAllReq, F)
    IN [fault |-> r.fault, resp |-> r.resp]

\* add_learner (lines 104-115): success when the response is a dict with
\* key "Ok".
NodeAddLearner(s, F) ==
    LET r  == HttpRequest(reps, currentIds[s], AddLearnerReq, F)
        ok == ~r.fault /\ r.resp.shape = "Ok"
    IN [fault |-> r.fault, ok |-> ok,
        log |-> IF ok THEN WriteLog(s, "learner") ELSE log]

\* change_membership (lines 117-133): the request goes to the replicas of
\* the old current_ids; on success the log entry is written and
\* current_ids becomes the requested list.
NodeChangeMembership(s, ids, F) ==
    LET r  == HttpRequest(reps, currentIds[s], ChangeMemReq, F)
        ok == ~r.fault /\ r.resp.shape = "Ok"
    IN [fault |-> r.fault, ok |-> ok,
        log |-> IF ok THEN WriteLog(s, "membership") ELSE log,
        ids |-> IF ok THEN [currentIds EXCEPT ![s] = ids] ELSE currentIds]

\* _format_metrics (lines 145-360): a response that is not a dict (the
\* text "Err") is returned as it is (lines 150-151); a dict is rendered as
\* a report, whose text is abstracted to the tag "report".
FormatMetrics(resp) == IF resp.shape = "text" THEN resp.val ELSE "report"

\* metrics (lines 135-143): None for a None response, else the formatted one.
NodeMetrics(s, F) ==
    LET r == HttpRequest(reps, currentIds[s], MetricsReq, F)
    IN [fault |-> r.fault,
        out   |-> IF r.resp.shape = "none" THEN "none" ELSE FormatMetrics(r.resp)]
=============================================================================
