---------------------------- MODULE ProxyServer ----------------------------
(***************************************************************************)
(* The front-door proxy of src/meta-server/proxy_server.py composed with   *)
(* the node servers (NodeServer.tla) and the backend replicas              *)
(* (MockBackend.tla).                                                      *)
(*                                                                         *)
(* ProxyServer is registered with a SimpleXMLRPCServer, which serves one   *)
(* request at a time (no ThreadingMixIn, line 275), and every node server  *)
(* is likewise single-threaded and is called only by the proxy.  So each   *)
(* client request runs to completion before the next one starts, and each  *)
(* is one atomic action here.  Within a request, every call to a replica   *)
(* may fail independently: the failure patterns are chosen with \E.        *)
(*                                                                         *)
(* A client logs in with get_id and then sends command lines to            *)
(* `function`, passing its id.  The client program is not part of the      *)
(* repository; a client here sends only its own id and stops after exit.   *)
(* `last` records the request just served and what it answered; the       *)
(* properties read it.                                                     *)
(***************************************************************************)
EXTENDS NodeServer

CONSTANTS
    Clients,        \* client connections
    NoId,           \* a client without an id; get_id's None
    MemberLists,    \* id lists a CHANGE-MEMBERSHIP line may carry
    MaxLog,         \* bound on the length of the shared log
    CallersKeepIds  \* TRUE: a caller may go on using its id after EXIT

ASSUME NoId \notin Servers
ASSUME MemberLists \subseteq Seq(Int) \ {<<>>}
ASSUME MaxLog \in Nat
ASSUME CallersKeepIds \in BOOLEAN

VARIABLES
    clientIds,      \* ProxyServer.client_ids: slot i is taken
    session,        \* session[c]: the id client c holds, or NoId
    last            \* the request just served and its outcome

vars == <<reps, currentIds, log, clientIds, session, last>>

NoKey == "nokey"
NoVal == "noval"

Outcomes == {"ok", "failed", "found", "notfound", "absent", "fault", "error",
             "list", "empty", "data", "log", "emptylog", "report", "unavailable", "usage", "login", "noid",
             "bye", "init"}
Cmds == {"login", "exit", "put", "get", "del", "list", "log", "add-learner",
         "change-membership", "metrics", "bad", "init"}

\* The record of a served request: client, command, the server it ran on,
\* key and value involved, outcome, and whether a /write reached a replica.
Served(c, cmd, s, k, v, out, wrote) ==
    last' = [c |-> c, cmd |-> cmd, srv |-> s, key |-> k, val |-> v,
             out |-> out, wrote |-> wrote]

Outcome(r) == IF r.fault THEN "fault" ELSE IF r.ok THEN "ok" ELSE "failed"

LogEntry == [srv : Servers, op : {"add", "update", "del", "learner", "membership"}]

TypeOK ==
    /\ reps \in [Urls -> Db]
    /\ currentIds \in [Servers -> MemberLists \union {<<1>>}]
    /\ log \in Seq(LogEntry) /\ Len(log) <= MaxLog
    /\ clientIds \in [Servers -> BOOLEAN]
    /\ session \in [Clients -> Servers \union {NoId}]
    /\ last.cmd \in Cmds /\ last.out \in Outcomes /\ last.wrote \in BOOLEAN
    /\ last.key \in Keys \union {NoKey}
    /\ last.val \in Vals \union {NoVal, "", "Err", "report"}

Init ==
    /\ reps = [u \in Urls |-> EmptyDb]
    /\ currentIds = [s \in Servers |-> <<1>>]          \* line 20
    /\ log = <<>>                                     \* line 8
    /\ clientIds = [s \in Servers |-> FALSE]           \* line 14
    /\ session = [c \in Clients |-> NoId]
    /\ last = [c |-> NoId, cmd |-> "init", srv |-> NoId, key |-> NoKey,
               val |-> NoVal, out |-> "init", wrote |-> FALSE]

(***************************************************************************)
(* Session registry: get_id (lines 19-26) and exit (lines 57-60).          *)
(***************************************************************************)
\* Variants of get_id: one that hands out the slot without marking it
\* taken, one whose scan runs one slot past the end of client_ids.
GetIdNoMark(c) ==
    LET free == {i \in Servers : ~clientIds[i]}
        i    == CHOOSE j \in free : \A x \in free : j <= x
    IN /\ session[c] = NoId
       /\ free # {}
       /\ session' = [session EXCEPT ![c] = i]
       /\ Served(c, "login", i, NoKey, NoVal, "login", FALSE)
       /\ UNCHANGED <<reps, currentIds, log, clientIds>>

GetIdScanPastEnd(c) ==
    LET free == {i \in 0 .. NumServers : i = NumServers \/ ~clientIds[i]}
        i    == CHOOSE j \in free : \A x \in free : j <= x
    IN /\ session[c] = NoId
       /\ clientIds' = [j \in Servers |-> IF j = i THEN TRUE ELSE clientIds[j]]
       /\ session' = [session EXCEPT ![c] = i]
       /\ Served(c, "login", i, NoKey, NoVal, "login", FALSE)
       /\ UNCHANGED <<reps, currentIds, log>>

GetId(c) ==
    LET free == {i \in Servers : ~clientIds[i]}
        i    == CHOOSE j \in free : \A x \in free : j <= x
    IN /\ session[c] = NoId
       /\ IF free = {}
          THEN /\ Served(c, "login", NoId, NoKey, NoVal, "noid", FALSE)
               /\ UNCHANGED <<clientIds, session>>
          ELSE /\ clientIds' = [clientIds EXCEPT ![i] = TRUE]
               /\ session' = [session EXCEPT ![c] = i]
               /\ Served(c, "login", i, NoKey, NoVal, "login", FALSE)
       /\ UNCHANGED <<reps, currentIds, log>>

Exit(c) ==
    LET s == session[c] IN
    /\ s # NoId
    /\ clientIds' = [clientIds EXCEPT ![s] = FALSE]
    \* function(client_id, clause) acts on whatever id it is given: nothing
    \* stops a caller from sending more commands with the id it released.
    /\ \/ session' = [session EXCEPT ![c] = NoId]
       \/ CallersKeepIds /\ UNCHANGED session
    /\ Served(c, "exit", s, NoKey, NoVal, "bye", FALSE)
    /\ UNCHANGED <<reps, currentIds, log>>

(***************************************************************************)
(* Command handlers, dispatched by `function` (lines 29-54).  Data         *)
(* commands run on the caller's node server servers[client_id];            *)
(* ADD-LEARNER, CHANGE-MEMBERSHIP and METRICS always run on servers[0].    *)
(***************************************************************************)

\* put (lines 63-81): a get decides "add" or "update", then the node's put.
Put(c, k, v) ==
    LET s == session[c] IN
    /\ s # NoId
    /\ Len(log) < MaxLog
    /\ \E F1, F2 \in Failures(currentIds[s]) :
         LET g == NodeGet(s, k, F1)
             p == NodePut(s, k, v, IF Truthy(g.val) THEN "update" ELSE "add", F2)
         IN IF g.fault
            THEN /\ Served(c, "put", s, k, v, "fault", FALSE)
                 /\ UNCHANGED <<reps, log>>
            ELSE /\ reps' = p.dbs
                 /\ log' = p.log
                 /\ Served(c, "put", s, k, v, Outcome(p), p.hit # {})
    /\ UNCHANGED <<currentIds, clientIds, session>>

\* get (lines 84-94): a value that is not "" is reported as found.
Get(c, k) ==
    LET s == session[c] IN
    /\ s # NoId
    /\ \E F \in Failures(currentIds[s]) :
         LET g == NodeGet(s, k, F) IN
         Served(c, "get", s, k, g.val,
                IF g.fault THEN "fault"
                ELSE IF Truthy(g.val) THEN "found" ELSE "notfound", FALSE)
    /\ UNCHANGED <<reps, currentIds, log, clientIds, session>>

\* delete (lines 153-166): a get first; an absent key is reported without
\* calling the node's delete, which does its own get before /write.
Del(c, k) ==
    LET s == session[c] IN
    /\ s # NoId
    /\ Len(log) < MaxLog
    /\ \E F1, F2, F3 \in Failures(currentIds[s]) :
         LET g == NodeGet(s, k, F1)
             d == NodeDelete(s, k, F2, F3)
         IN IF g.fault \/ ~Truthy(g.val)
            THEN /\ Served(c, "del", s, k, g.val,
                           IF g.fault THEN "fault" ELSE "absent", FALSE)
                 /\ UNCHANGED <<reps, log>>
            ELSE /\ reps' = d.dbs
                 /\ log' = d.log
                 /\ Served(c, "del", s, k, g.val, Outcome(d), d.hit # {})
    /\ UNCHANGED <<currentIds, clientIds, session>>

\* _format_list_output (lines 105-150), abstracted to the branch it takes:
\* "empty" for a falsy value or an empty item list (lines 107-108,
\* 124-125), "list" for one line per item and the total (127-148), and
\* "data" for a value that is neither dict nor list, shown as it is
\* (lines 121-122).  node list turns None into {} (node lines 100-102).
FormatListOutput(r) ==
    CASE r.shape = "none"                  -> "empty"
      [] r.shape = "text"                  -> IF Truthy(r.val) THEN "data" ELSE "empty"
      [] r.shape = "OK"                    -> "empty"          \* {"OK": []}
      [] r.shape = "Ok" /\ r.items = {}    -> IF Truthy(r.val) THEN "list" ELSE "empty"
      [] OTHER                             -> "list"

\* list (lines 97-103) and its formatting; the "data" branch shows the
\* value itself.
List(c) ==
    LET s == session[c] IN
    /\ s # NoId
    /\ \E F \in Failures(currentIds[s]) :
         LET l   == NodeList(s, F)
             out == FormatListOutput(l.resp)
         IN Served(c, "list", s, NoKey,
                   IF ~l.fault /\ out = "data" THEN l.resp.val ELSE NoVal,
                   IF l.fault THEN "fault" ELSE out, FALSE)
    /\ UNCHANGED <<reps, currentIds, log, clientIds, session>>

\* _format_log_output (lines 177-199): the empty-log message for an empty
\* list, else one line per entry and the total.  get_log always returns a
\* list, so the branch of lines 198-199 is never taken.
FormatLogOutput(l) == IF l = <<>> THEN "emptylog" ELSE "log"

\* log (lines 169-175): get_log reads the shared log.
Log(c) ==
    LET s == session[c] IN
    /\ s # NoId
    /\ Served(c, "log", s, NoKey, NoVal, FormatLogOutput(log), FALSE)
    /\ UNCHANGED <<reps, currentIds, log, clientIds, session>>

\* add_learner (lines 202-221) on servers[0]; exceptions are caught.
AddLearner(c) ==
    /\ session[c] # NoId
    /\ Len(log) < MaxLog
    /\ \E F \in Failures(currentIds[0]) :
         LET a == NodeAddLearner(0, F) IN
         /\ log' = a.log
         /\ Served(c, "add-learner", 0, NoKey, NoVal,
                   IF a.fault THEN "error" ELSE Outcome(a), FALSE)
    /\ UNCHANGED <<reps, currentIds, clientIds, session>>

\* change_membership (lines 224-242) on servers[0]; exceptions are caught.
ChangeMembership(c, ids) ==
    /\ session[c] # NoId
    /\ Len(log) < MaxLog
    /\ \E F \in Failures(currentIds[0]) :
         LET m == NodeChangeMembership(0, ids, F) IN
         /\ log' = m.log
         /\ currentIds' = m.ids
         /\ Served(c, "change-membership", 0, NoKey, NoVal,
                   IF m.fault THEN "error" ELSE Outcome(m), FALSE)
    /\ UNCHANGED <<reps, clientIds, session>>

\* metrics (lines 245-258) on servers[0]; exceptions are caught.
Metrics(c) ==
    /\ session[c] # NoId
    /\ \E F \in Failures(currentIds[0]) :
         LET m == NodeMetrics(0, F) IN
         Served(c, "metrics", 0, NoKey,
                IF m.fault \/ m.out = "none" THEN NoVal ELSE m.out,
                IF m.fault THEN "error"
                ELSE IF m.out = "none" THEN "unavailable" ELSE "report", FALSE)
    /\ UNCHANGED <<reps, currentIds, log, clientIds, session>>

\* A line that is empty, unknown, of the wrong arity, or carries a node id
\* that is not an integer (lines 34-35, 53-54, 64-65, 85-86, 98-99,
\* 154-155, 170-171, 205-206, 218-219, 227-228, 239-240, 247-248) is
\* answered with a message and changes nothing.
BadLine(c) ==
    /\ session[c] # NoId
    /\ Served(c, "bad", session[c], NoKey, NoVal, "usage", FALSE)
    /\ UNCHANGED <<reps, currentIds, log, clientIds, session>>

Next ==
    \E c \in Clients :
        \/ GetId(c)
        \/ Exit(c)
        \/ \E k \in Keys, v \in Vals : Put(c, k, v)
        \/ \E k \in Keys : Get(c, k) \/ Del(c, k)
        \/ List(c)
        \/ Log(c)
        \/ AddLearner(c)
        \/ \E ids \in MemberLists : ChangeMembership(c, ids)
        \/ Metrics(c)
        \/ BadLine(c)

Spec == Init /\ [][Next]_vars

(***************************************************************************)
(* Properties                                                              *)
(***************************************************************************)

\* Session registry (get_id, exit): no two clients act with the same id,
\* across any sequence of logins and exits: get_id never hands out an id
\* whose holder can still use it.
SessionIdsDistinct ==
    \A c, d \in Clients :
        c # d /\ session[c] # NoId => session[d] # session[c]

\* Spec section 8: "if every replica returns Err or times out, the result
\* is exactly Err/failure, never a partial success".  A PUT or DEL that
\* the proxy reports as failed (every replica call of its write ended in
\* "Err", lines 401-407) left every replica's database as it was.
FailedWriteChangesNothing ==
    [][ last'.cmd \in {"put", "del"} /\ last'.out = "failed" => reps' = reps ]_vars

\* The shared log (write_log) gets exactly one entry for each PUT, DEL,
\* ADD-LEARNER and CHANGE-MEMBERSHIP that reports success, naming the node
\* server that ran it, and no entry for anything else, faults included.
LogRecordsExactlySuccesses ==
    [][ LET mutating == last'.cmd \in {"put", "del", "add-learner", "change-membership"}
        IN IF mutating /\ last'.out = "ok"
           THEN /\ Len(log') = Len(log) + 1
                /\ SubSeq(log', 1, Len(log)) = log
                /\ log'[Len(log')].srv = last'.srv
           ELSE log' = log ]_vars

\* Spec section 7: when every replica call fails, the failure reaches the
\* user as a failure.  The marker "Err" that _http_request selects then
\* (line 407) is never shown as the key's value by GET, as the listing by
\* LIST, or as the cluster report by METRICS.
FailureNotShownAsData ==
    last.cmd \in {"get", "list", "metrics"} => last.val # "Err"

\* Spec section 8: a DEL of a key that no replica holds never sends a
\* /write that reaches a replica.
DelAbsentNeverWrites ==
    [][ (last'.cmd = "del" /\ \A u \in Urls : reps[u][last'.key] = Absent)
          => ~last'.wrote ]_vars

\* Spec section 7: no request ends in an unhandled exception; every
\* failure reaches the client as a typed result.
NoUnhandledFault == last.out # "fault"

\* put (lines 69-78) reads the key first "to tell an add from an update":
\* a successful PUT logged as "add" overwrote no value on any replica, and
\* one logged as "update" wrote over a key some replica held.
PutLabelMatchesReplicas ==
    [][ (last'.cmd = "put" /\ last'.out = "ok") =>
          LET changed == {u \in Urls : reps'[u][last'.key] # reps[u][last'.key]}
          IN IF log'[Len(log')].op = "add"
             THEN \A u \in changed : reps[u][last'.key] = Absent
             ELSE \E u \in Urls : reps[u][last'.key] # Absent ]_vars
=============================================================================
