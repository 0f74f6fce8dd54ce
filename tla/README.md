# TLA+ models of the meta-server access layer

This directory holds TLA+ models of `src/meta-server/`. That code is a two-tier access layer
in front of a replicated key-value store. The models can be checked with TLC.

## 1. The system

| Part | Source | State it keeps | Operations |
|---|---|---|---|
| Backend client | `node_server.py` `Server._http_request` (373-414) | none | one request fanned out to every id of `current_ids`, then one response selected |
| Node server (node proxy) | `node_server.py` `class Server` | `current_ids` (membership view, initially `[1]`), `cache` (never read), the module-level `log` shared by all instances | `put`, `get`, `delete`, `list`, `add_learner`, `change_membership`, `metrics`, `get_log`, `write_log` |
| Session registry | `proxy_server.py` `client_ids`, `get_id`, `exit` | one flag per slot | lowest free slot on login, `None` when the pool is full, release on exit |
| Command dispatcher | `proxy_server.py` `function` and handlers | none | parses a line, checks arity, calls the node server of the caller's slot; ADD-LEARNER, CHANGE-MEMBERSHIP and METRICS always go to `servers[0]` |
| Mock backend | `test_flask.py` | `database` dict, `cluster_state` | `/write` (Put, Del), `/read`, `/read-all`, `/add-learner`, `/change-membership`, `/metrics` |
| Output formatting | `_format_list_output`, `_format_log_output` (proxy), `_format_metrics` (node) | none | turn a node server's answer into the text the user sees; which branch is taken decides whether a failure looks like data |
| Authentication | `proxy_server.py` `authenticate` | static table | never consulted by `get_id` or `function` |
| Start-up: `serve_forever` threads | both servers | none | one thread for the proxy, one per node server; `ProxyServing` composes them |

**How the parts interact.** A client logs in with `get_id` and then sends command lines to
`ProxyServer.function`, passing its slot number. The proxy calls node server `servers[slot]`
over XML-RPC. The node server's method calls `_http_request`. That loop sends the HTTP request
to `db_urls[id - 1]` for each id in `current_ids`, in order. A `RequestException` from one
replica is recorded as `"Err"`. The loop then returns `"Err"` if every response was `"Err"`,
and otherwise the first response that is neither `"Err"` nor `None`.

**Concurrency.** The proxy runs on a plain `SimpleXMLRPCServer`, which serves one request at a
time. Each node server also runs on its own single-threaded server and is called only by the
proxy. So client requests never interleave. What does interleave with a request is the
environment. Each call to a replica may fail independently of the others, between the steps
of one command. A call may fail before the replica sees the request (refused). It may also fail
after the replica has handled it (the connection drops while the answer is in flight). The code
records both as `"Err"`.

**The hard behaviour:**
- **Partial failure of a fan-out.** A write reaches some replicas and not others. The replicas
  diverge, and the reported outcome depends on which response came first.
- **The text `"Err"` treated as data.** When every replica call fails, `get` returns the string
  `"Err"` as if it were a stored value.
- **Check-then-act across separate fan-outs.** PUT decides "add" or "update" from a read. DEL
  reads twice, once in the proxy and once in the node, before it writes.
- **Python list indexing.** `db_urls[id - 1]` wraps around for ids ≤ 0 and raises `IndexError`
  for large ids. `IndexError` escapes the `RequestException` handler, part-way through the loop.
- **Optimistic membership.** `current_ids` changes on an `Ok` from the replicas of the old list,
  and only on `servers[0]`.
- **No timeouts.** `requests` calls have no timeout. One hanging replica blocks the
  single-threaded chain.

**What makes each part correct:**
- Session registry: no slot is held by two clients.
- Backend client: a write reported as failed changed no replica, and total failure is reported
  as failure.
- Node server: the log has one entry for each success and none otherwise. DEL never writes for
  an absent key. GET never invents a value, and reads back what the same session wrote.
- Dispatcher: no request ends in an unhandled fault.

## 2. Modules

| Module | Models | Main definitions |
|---|---|---|
| `MockBackend` | `test_flask.py`: one replica | `Db`, one operator per route (`WriteRoute`, `ReadRoute`, `ReadAllRoute`, ...), `Handle` |
| `BackendClient` (extends MockBackend) | `_http_request` | `FanOut` (RECURSIVE loop over positions of `current_ids`), `ValidId` / `UrlOf` (Python indexing), `SelectResponse`, `HttpRequest` |
| `NodeServer` (extends BackendClient) | `class Server` | variables `reps`, `currentIds`, `log`; `NodeGet`, `NodePut`, `NodeDelete`, `NodeList`, `NodeAddLearner`, `NodeChangeMembership`, `NodeMetrics`, `WriteLog` |
| `ProxyServer` (extends NodeServer) | `class ProxyServer` | variables `clientIds`, `session`, `last`; one action per handler (`GetId`, `Exit`, `Put`, `Get`, `Del`, `List`, `Log`, `AddLearner`, `ChangeMembership`, `Metrics`, `BadLine`); `FormatListOutput` and `FormatLogOutput`, which give the branch the formatter takes (`empty`, `list` or `data`; `emptylog` or `log`); the properties |
| `HttpRequestSteps` (extends BackendClient) | the loop of `_http_request`, one replica call per step, on one node server's thread | loop state `i`, `resps` (`responses`); `Receive`, `IndexFault`, `CallOk`, `CallFails` (refused), `CallLost` (handled, answer lost), `Return`; replicas in `Hanging` never answer; `RequestsAnswered` |
| `Dispatcher` | `ProxyServer.function` and the checks at the head of each handler | tokens as records `[text, upper, quoted]`; `Lower` (`lower()`), `StripQuotes`, `IsInt` (`int()`), `Fixed`, `Exit`, `AddLearner`, `ChangeMembership`, `Metrics`, `Dispatch` |
| `DispatchTable` (extends Dispatcher) | the dispatcher of spec section 4.4, as a reference | `OpName`, `Arity`, `SpecDispatch`; variable `line`, grown one token at a time; `ForwardsAsSpecified`, `ActsAsSpecified` |
| `ReadConsistency` (extends ProxyServer) | an observer, no code of its own | history variable `acked` (the last acknowledged write of each key, the view it went through, and whether a replica's copy changed since); `ReadYourWrites` |
| `ProxyServing` (extends BackendClient) | the proxy's one `serve_forever` thread composed with the node servers' threads | `Loop == INSTANCE HttpRequestSteps` (the busy node server; only one can be busy, since the proxy thread is their only caller); variables `currentIds`, `sent` (the command each client waits on), `backlog` (accepted connections, oldest first), `serving`, `stage` (which node call of the handler is in flight); `Send`, `Take`, `Finish`, `NodeStep`; `CommandsAnswered`, `CommandsTakenUp` |
| `MCProxyServer`, `MCReadConsistency`, `MCProxyServing`, `MCDispatchTable` | model-checking instances | member lists, symmetry, token alphabet |

Node-server methods are operators. Each returns what the method returns (`fault` when it
raised) together with the state it leaves. A proxy action calls those operators the way a
handler calls the methods over XML-RPC. Every request is one atomic action, because no two
requests overlap (see Concurrency above). In the action, `\E F \in Failures(ids)` picks the
positions whose replica call fails, once for each fan-out in the request. `last` records the
request just served: client, command, server, key, value, outcome, and whether a `/write`
reached a replica. The action properties read it.

**Abstractions.**
- Values are model values. `""` and `"Err"` are the real strings. User values can never be
  `"Err"`, because the proxy lower-cases every line.
- Response shapes are records `[shape, val, items]`: text, `{"Ok": x}`, `{"OK": []}`, and an
  empty body. `items` holds the list payload of `/read-all`, so that any two responses can be
  compared.
- Each URL of `db_urls` is an independent copy of the mock. The repository starts the mock on
  21001 only; 21002 and 21003 belong to the external store, which the spec treats as opaque.
  The findings that rest on replicas disagreeing (4, 7) need replicas that can disagree;
  spec section 4.1 allows for that ("even if other replicas disagree").
- The mock's `cluster_state` appears only in payloads that are turned into text, so it becomes
  the payload tags `"membership"` and `"metrics"`.
- `Server.cache` is written and never read, so it is left out.
- Log entries keep the server and the kind of operation, not the text.
- Malformed command lines change nothing and share one action, `BadLine`.
- The client program is not in the repository. A modelled client uses only its own slot, and
  stops after `exit` or when it gets no id.

## 3. Runs

| Run | Cfg | Expect | Checks |
|---|---|---|---|
| `proxy_core` | `MCProxyServer.cfg` | pass | `TypeOK`; `SessionIdsDistinct`; `LogRecordsExactlySuccesses` (one entry, naming the right server, for each command that reports success, and none for failures, faults or lost answers) |
| `failure_shown_as_data` | `MCFailureShownAsData.cfg` | violation | `FailureNotShownAsData`: when every replica call fails, the marker `"Err"` is never shown as a GET value, a LIST listing or a METRICS report. TLC's trace is a login and a GET that reports "found: Err"; with the invariant narrowed to LIST alone, or to METRICS alone, TLC finds the same three-state trace for that command |
| `del_absent_writes` | `MCDelAbsentNeverWrites.cfg` | violation | `DelAbsentNeverWrites`: a DEL whose two reads fail treats `"Err"` as present, and its `/write` reaches the replica |
| `bad_member_id_fault` | `MCNoUnhandledFault.cfg` | violation | `NoUnhandledFault`: `CHANGE-MEMBERSHIP 1 4` succeeds, and the next PUT on session 0 raises `IndexError` |
| `read_your_writes` | `MCReadYourWrites.cfg` | violation | `ReadYourWrites`, for a GET through the same view as the write: session 0 sends `CHANGE-MEMBERSHIP 1 2`; a PUT whose call to replica 1 is refused is applied by replica 2 and acknowledged; the same session's GET is answered first by replica 1 and reports "not found". TLC's trace also holds a PUT that failed outright and changed nothing |
| `lost_write_answer` | `MCLostWriteAnswer.cfg` | violation | `FailedWriteChangesNothing`, with no call refused and answers that may be lost: a login and a PUT on `[1]` whose Ok from replica 1 is lost. The PUT is reported failed and not logged, but replica 1 holds the value |
| `put_label_add_overwrites` | `MCPutLabel.cfg` | violation | `PutLabelMatchesReplicas`, with no failures and one client: PUT on `[1]`, CHANGE-MEMBERSHIP `2 1`, PUT again; the read is answered by replica 2, so the write is logged as an add and overwrites replica 1's value |
| `stale_session_id` | `MCStaleSessionId.cfg` | violation | `SessionIdsDistinct`, with `CallersKeepIds = TRUE`: a caller that keeps its id after EXIT shares it with the next client that logs in |
| `proxy_serving` | `MCProxyServing.cfg` | pass | `TypeOK`; `RequestsAnswered` (every node call is answered); `CommandsAnswered` (every client command is answered, through put's two and delete's three replica requests), when every replica eventually answers |
| `session_starvation` | `MCSessionStarvation.cfg` | violation | `CommandsTakenUp`, with replica 2 never answering: client 1's `CHANGE-MEMBERSHIP 2 1` gives `servers[0]` the list `2 1`; client 0's GET then waits on replica 2 forever, and client 1's next command is never taken up by the proxy |
| `dispatch_table` | `MCDispatchTable.cfg` | pass | `ForwardsAsSpecified`: on all 75,895 lines of up to three tokens, the lines forwarded, their method and arguments are those of spec section 4.4 |
| `dispatch_divergence` | `MCActsAsSpecified.cfg` | violation | `ActsAsSpecified`: a line the proxy acts on is treated as spec section 4.4 says. TLC's trace is `METRICS`, which goes to `servers[0]`, not to the session's node server. `EXIT x`, which the spec's arity table rejects, is another violating line |

**Bounds.**
- 3 clients and 2 node servers, so the pool can be full and two sessions use different node
  servers.
- `NumUrls = 3`, as in `db_urls`.
- One key. `proxy_core` uses two values; with every call able to end in three ways, a second
  key made the run take over six minutes. Every handler names one key, and the fan-out
  touches only that key, so a second key adds no behaviour of the code.
- Member lists `<<1,2>>`, `<<2,1>>` and `<<1,4>>`. These give a two-replica fan-out in both
  orders, and an id outside `db_urls`.
- `MaxLog = 2` successful mutations, enough for a membership change followed by a write that
  misses a replica, or for a write and a delete.
- `CallersKeepIds` is FALSE except in `stale_session_id`: callers drop their id at EXIT.
- `ProxyServing`: two clients, each bound to its own node server, one key and one value, and
  every command. A node server starts on `[1]`, as `Server.__init__` sets it; CHANGE-MEMBERSHIP
  (to `servers[0]`) can move it to `2 1`, `0` (wraps to replica 3) or `1 4` (`IndexError` at
  the second position). Calls may be refused or their answers lost. That gives every branch of
  the loop, a second session whose own server's view differs, and a handler waiting behind
  another. 310,256 states in about 30 s.
- `DispatchTable`: every command word, one other word and one numeral, each in upper or lower
  case and quoted or not, on lines of up to three tokens. Three tokens are enough for every
  arity in the table and for a CHANGE-MEMBERSHIP with two ids. The line stops growing at
  three tokens, so these runs set `CHECK_DEADLOCK FALSE`; that end is the end of the
  enumeration, not of the system.
- `ReplicaCallsMayFail` (a call refused) is TRUE except in `put_label_add_overwrites`, which
  needs no failure at all, and `lost_write_answer`, which shows that a lost answer alone is
  enough. `ResponsesMayBeLost` (handled, answer lost) is TRUE in `proxy_core`,
  `proxy_serving` and `lost_write_answer`. It is FALSE in the other violation runs, where it
  would only add behaviours: their traces need none.
- Clients, values and keys form symmetry sets. This is sound: no property names a particular
  client, value or key.
- `proxy_core` reaches 9,175 distinct states (about a million generated) in about 30 s.

**Fairness.** ProxyServer assumes none; its properties are safety properties, and nothing in
the code forces a client to send anything. `ProxyServing.Spec` assumes weak fairness of
the node server's steps (`NodeStep`, which is `HttpRequestSteps`' `ServerStep`) and of the
proxy's `Take` and `Finish`: `run_server` gives each node server a thread, and the proxy's
`__main__` one thread, that do nothing but loop in `serve_forever`, so a step that stays
possible is taken. The accept backlog is FIFO, as the listening socket's queue is. `Send` is
not fair: clients need not send anything. A call to a replica in `Hanging` is never enabled.
Nothing in the code (no timeout) makes it enabled again, and that is what `session_starvation`
shows.

**No refinement check.** The one-step `HttpRequest` of `BackendClient` and the loop of
`HttpRequestSteps` translate the same lines, 373-414, so a check that one implements the other
compares two models, not the model with the code. Both now have the same three endings of a
call. The stepwise loop is kept for what only it can show: a call that never returns
(`session_starvation`) and the liveness of `proxy_serving`.

Each property of a passing run has a mutant in `PROJECT.json`: a plausible bug that TLC shows
the property catches. For example, `GetIdNoMark` hands out a slot without marking it taken,
`NodeDeleteLogFirst` writes the log entry before the response is checked, and `FinishNoAdvance`
never moves a handler on to its next node call.

## 4. Findings

1. `node_server.py:65`, `proxy_server.py:121`, `node_server.py:150`: when every replica call
   fails, `_http_request` returns the marker `"Err"` and the proxy shows it as data. GET answers
   "found: Err". `_format_list_output` finds neither dict nor list and prints the data format
   "Err". `_format_metrics` returns the non-dict unchanged, and the proxy passes it on as the
   report (`failure_shown_as_data`). Spec section 7 says a total failure reaches the user as
   a failure.
2. `proxy_server.py:160` / `node_server.py:76`: the same `"Err"` passes DEL's existence checks,
   so a DEL of an absent key sends `/write` (`del_absent_writes`). Spec section 8 says it never
   does.
3. `node_server.py:380`: a membership list with an id outside 1..3 is accepted. After that,
   every data command of session 0 faults with `IndexError`, and CHANGE-MEMBERSHIP cannot
   repair it (`bad_member_id_fault`).

4. `node_server.py:410`: an acknowledged PUT is not read back by the same session through the
   same view. This happens when the call to the first replica was refused, the second applied
   the write, and the first replica answers the GET (`read_your_writes`). Spec section 8's
   round trip holds only when every replica took the write. Section 4.1's first-responder rule
   allows the stale answer.
5. `node_server.py:401`: a call that fails after the replica handled the write is recorded as
   `"Err"`, just like a refused one. A PUT whose answers are all lost is reported failed and
   never logged, although the replicas changed (`lost_write_answer`). Spec section 8 says a
   write on which every replica returns `Err` is a failure, "never a partial success". Without
   idempotent calls or a read-back, the code cannot give that, and the spec does not say what a
   lost answer means.
6. `node_server.py:383`: no timeout on replica calls. One replica that never answers blocks the
   node server, although the other replicas are up. The proxy runs on one thread that waits
   on that node call, so the commands of every other session are never even taken up
   (`session_starvation`). Spec section 5 requires a bounded timeout classified as `Err`, and
   says the proxy imposes no serialization across sessions.
7. `proxy_server.py:72`: the comment at line 69 says the read tells an add from an update. After
   a membership change, with no failure at all, a PUT is logged as an add although it
   overwrote a value (`put_label_add_overwrites`).
8. `proxy_server.py:251`: `METRICS` is sent to `servers[0]`. Spec section 4.4 routes only the
   membership commands there (`dispatch_divergence`).
9. `proxy_server.py:57`: `exit` has no arity check, so `EXIT x` releases the session
   (`dispatch_divergence`, the same property as finding 8).
10. `proxy_server.py:58`: the proxy never checks that an id belongs to its caller, so a caller
    that goes on using its id after EXIT shares a session with the next client
    (`stale_session_id`). The spec does not say what binds an id to a connection.

## 5. Plan

1. **Core (done).** MockBackend, BackendClient, NodeServer and ProxyServer, with the safety
   properties and findings above.
2. **Consistency observers (done).** `ReadConsistency`: read-your-writes through one view
   (finding 4). "Deleted keys stay deleted" is the DEL case of the same property: the acknowledged value is then `Absent`, and a
   GET that answers "found" is a stale answer.
3. **Dispatcher as a pure operator (done).** `Dispatcher` and `DispatchTable` (findings 8, 9).
4. **Step-by-step fan-out (done).** `HttpRequestSteps`, with weak fairness of the node
   server's thread, lost answers, and replicas that never answer (finding 6).
5. **Backend membership state (dropped).** The mock's `cluster_state` appears only in payloads
   that are turned into text, and the mock runs on one port only. The spec section 9 question
   is about the external store, which is not in the repository.
6. **The proxy over the step-by-step fan-out (done).** `ProxyServing` composes the proxy's
   single thread with `HttpRequestSteps`; every command is answered when replicas answer,
   and one hanging replica starves every session (finding 6).
7. **Lost answers (done).** A third ending of a replica call: the write is applied and its
   answer lost (finding 5).

## 6. Not modelled

- The text the formatters produce (separators, wording, the fields `_format_metrics` lays out).
  The model keeps only which branch each one takes.
- `authenticate`. It is never enforced.
- The console prompts of start-up (`input()` of the counts); the counts are constants.
- Concurrent direct calls to node servers. `get_log` returns the shared list itself, and XML-RPC
  marshals it after `log_lock` is released, which differs from the "under a read lock" of spec
  section 4.2. The system's own proxy never overlaps two node calls: in `ProxyServing` it is
  the node servers' only caller, and it waits on each call. Even with an overlap, `write_log`
  only appends, and Python's list iterator then yields a prefix of the log that contains every
  entry written before the call. No ordering the code can produce makes this observable, so
  it is not listed as a hazard.
- A mismatch between the node-server count and the proxy's `client_count`.
