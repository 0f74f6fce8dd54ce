------------------------- MODULE HttpRequestSteps --------------------------
(***************************************************************************)
(* Server._http_request (node_server.py lines 373-414) one replica call at *)
(* a time, as the single thread of a node server runs it: each iteration   *)
(* of the loop over current_ids is a step, the calls to later replicas     *)
(* have not happened yet when an earlier one is answered.                  *)
(*                                                                         *)
(* requests.post and requests.get are called without a timeout (lines    *)
(* 383-385).  A replica in `Hanging` accepts the connection and never      *)
(* answers: a call to it neither returns nor raises, and the loop waits.   *)
(***************************************************************************)
EXTENDS BackendClient

CONSTANTS
    IdLists,    \* the current_ids lists the server may hold
    Hanging     \* replicas (positions in db_urls) that never answer

ASSUME Hanging \subseteq Urls

VARIABLES
    reps,       \* reps[u]: the database of the replica at db_urls[u]
    pc,         \* "idle", or "busy" while a request is being served
    ids,        \* the current_ids the loop iterates over
    req,        \* the request being served
    result,     \* the last answer: [fault, resp]
    i,          \* the position of current_ids the loop is at
    resps       \* `responses`, the list built by the loop

vars == <<reps, pc, ids, req, result, i, resps>>

\* The requests a node server sends (MockBackend).
Requests ==
    {PutReq(k, v) : k \in Keys, v \in Vals} \union {DelReq(k) : k \in Keys}
      \union {ReadReq(k) : k \in Keys}
      \union {ReadAllReq, AddLearnerReq, ChangeMemReq, MetricsReq}

NoResult == [fault |-> FALSE, resp |-> NoBody]

Shapes == {"text", "Ok", "OK", "none"}

TypeOK ==
    /\ reps \in [Urls -> Db]
    /\ pc \in {"idle", "busy"}
    /\ ids \in IdLists
    /\ req \in Requests
    /\ result.fault \in BOOLEAN /\ result.resp.shape \in Shapes
    /\ i \in 1 .. Len(ids) + 1
    /\ DOMAIN resps = 1 .. i - 1
    /\ \A j \in DOMAIN resps : resps[j].shape \in Shapes

Init ==
    /\ reps = [u \in Urls |-> EmptyDb]
    /\ pc = "idle"
    /\ ids = CHOOSE l \in IdLists : TRUE
    /\ req = ReadAllReq
    /\ result = NoResult
    /\ i = 1
    /\ resps = <<>>

\* A variant that keeps the responses of the previous request.
ReceiveNoReset(l, r) ==
    /\ pc = "idle"
    /\ pc' = "busy"
    /\ ids' = l
    /\ req' = r
    /\ i' = Len(resps) + 1
    /\ UNCHANGED <<reps, result, resps>>

\* A node-server method calls _http_request: `responses = []` (line 377).
Receive(l, r) ==
    /\ pc = "idle"
    /\ pc' = "busy"
    /\ ids' = l
    /\ req' = r
    /\ i' = 1
    /\ resps' = <<>>
    /\ UNCHANGED <<reps, result>>

\* The loop is at a position of current_ids.
AtValidId == pc = "busy" /\ i <= Len(ids) /\ ValidId(ids[i])

\* db_urls[id - 1] raises IndexError (line 380): the exception leaves the
\* loop and the method; XML-RPC reports a fault to the caller.
IndexFault ==
    /\ pc = "busy"
    /\ i <= Len(ids)
    /\ ~ValidId(ids[i])
    /\ pc' = "idle"
    /\ result' = [NoResult EXCEPT !.fault = TRUE]
    /\ UNCHANGED <<reps, ids, req, i, resps>>

\* The replica answers (lines 383-400): it handles the request and its
\* response is appended.
CallOk ==
    /\ AtValidId
    /\ LET u == UrlOf(ids[i])
           h == Handle(reps[u], req)
       IN /\ u \notin Hanging
          /\ reps' = [reps EXCEPT ![u] = h.db]
          /\ resps' = Append(resps, h.resp)
    /\ i' = i + 1
    /\ UNCHANGED <<pc, ids, req, result>>

\* A variant that starts the request over after a RequestException.
CallFailsRestart ==
    /\ AtValidId
    /\ ReplicaCallsMayFail
    /\ UrlOf(ids[i]) \notin Hanging
    /\ resps' = <<>>
    /\ i' = 1
    /\ UNCHANGED <<reps, pc, ids, req, result>>

\* The call raises a RequestException before the replica handled the
\* request (lines 401-403): "Err" is appended and the loop goes on with
\* the next position.
CallFails ==
    /\ AtValidId
    /\ ReplicaCallsMayFail
    /\ UrlOf(ids[i]) \notin Hanging
    /\ resps' = Append(resps, ErrText)
    /\ i' = i + 1
    /\ UNCHANGED <<reps, pc, ids, req, result>>

\* The replica handled the request, and then the call raised (the
\* connection dropped before the answer was read): "Err" is appended all
\* the same.
CallLost ==
    /\ AtValidId
    /\ ResponsesMayBeLost
    /\ LET u == UrlOf(ids[i]) IN
         /\ u \notin Hanging
         /\ reps' = [reps EXCEPT ![u] = Handle(reps[u], req).db]
    /\ resps' = Append(resps, ErrText)
    /\ i' = i + 1
    /\ UNCHANGED <<pc, ids, req, result>>

\* After the loop (lines 405-414): the selected response is returned.
Return ==
    /\ pc = "busy"
    /\ i > Len(ids)
    /\ result' = [fault |-> FALSE, resp |-> SelectResponse(resps)]
    /\ pc' = "idle"
    /\ UNCHANGED <<reps, ids, req, i, resps>>

\* The steps of the node server's thread while it serves a request.
ServerStep == IndexFault \/ CallOk \/ CallFails \/ CallLost \/ Return

Next ==
    \/ \E l \in IdLists, r \in Requests : Receive(l, r)
    \/ ServerStep

\* The thread of a node server does nothing but serve the request it
\* holds, so a step that stays possible is eventually taken.  Callers are
\* not obliged to send anything: Receive has no fairness.
Spec == Init /\ [][Next]_vars /\ WF_vars(ServerStep)

-----------------------------------------------------------------------------
\* Every request a node server receives is eventually answered, with a
\* response or a fault: _http_request returns.
RequestsAnswered == pc = "busy" ~> pc = "idle"
=============================================================================
