---------------------------- MODULE ProxyServing ----------------------------
(***************************************************************************)
(* The proxy and the node servers together, at the granularity of single   *)
(* replica calls.  proxy_server.py runs ProxyServer on one                 *)
(* SimpleXMLRPCServer (lines 273-281): its thread takes one connection     *)
(* from the accept backlog, runs the handler, and each call the handler    *)
(* makes to self.servers[...] blocks it until the node server answers.     *)
(* A node server (node_server.py run_server, lines 417-422) serves that    *)
(* call on its own thread, one replica request at a time                   *)
(* (HttpRequestSteps).  Because the only caller of the node servers is the *)
(* single proxy thread, at most one node server is ever busy, and the one  *)
(* copy of HttpRequestSteps' variables is the state of whichever it is.    *)
(*                                                                         *)
(* Each client c holds session c (the allocation is ProxyServer's part)    *)
(* and, its XML-RPC call being synchronous, has at most one command        *)
(* outstanding.  The data of the shared `log` is left out: nothing in the  *)
(* control of either program reads it.                                    *)
(***************************************************************************)
EXTENDS BackendClient

CONSTANTS
    NumServers,   \* client_count: proxy_server.py line 16, one node server each
    IdLists,      \* the current_ids lists a node server may hold
    MemberLists,  \* the id lists a CHANGE-MEMBERSHIP command may carry
    Hanging       \* replicas (positions in db_urls) that never answer

ASSUME MemberLists \subseteq IdLists /\ <<1>> \in IdLists

VARIABLES
    reps, pc, ids, req, result, i, resps,  \* the busy node server
    currentIds,   \* currentIds[s]: node server s's self.current_ids
    sent,         \* sent[c]: the command client c waits on, or NoCmd
    backlog,      \* connections accepted by the proxy's socket, in order
    serving,      \* the client whose handler the proxy thread runs, or NoSession
    stage         \* which node call of that handler is in flight

loopVars == <<reps, pc, ids, req, result, i, resps>>
vars == <<loopVars, currentIds, sent, backlog, serving, stage>>

Loop == INSTANCE HttpRequestSteps
N    == INSTANCE NodeServer WITH log <- <<>>

Sessions  == 0 .. NumServers - 1
NoSession == -1

Cmd(o, k, v, l) == [op |-> o, key |-> k, val |-> v, ids |-> l]
NoCmd == Cmd("none", Absent, Absent, <<>>)

\* The commands the dispatcher forwards (Dispatcher.tla), one per handler.
\* LOG stands for every command answered without a replica request (LOG,
\* EXIT, a usage or parse error).
Commands ==
    {Cmd("put", k, v, <<>>) : k \in Keys, v \in Vals}
      \union {Cmd(o, k, Absent, <<>>) : o \in {"get", "del"}, k \in Keys}
      \union {Cmd(o, Absent, Absent, <<>>) :
                o \in {"list", "log", "add-learner", "metrics"}}
      \union {Cmd("change-membership", Absent, Absent, l) : l \in MemberLists}

\* add_learner, change_membership and metrics call self.servers[0]
\* (proxy lines 214, 236, 255); the others the caller's own server.
Target(c, m) ==
    IF m.op \in {"add-learner", "change-membership", "metrics"} THEN 0 ELSE c

\* The replica request of the handler's first node call: put (line 70),
\* get (89), delete (158) and the node methods they call first.
FirstRequest(m) ==
    CASE m.op \in {"put", "get", "del"} -> ReadReq(m.key)
      [] m.op = "list"                  -> ReadAllReq
      [] m.op = "add-learner"           -> AddLearnerReq
      [] m.op = "change-membership"     -> ChangeMemReq
      [] m.op = "metrics"               -> MetricsReq

\* Whether the handler goes on after node call n answered `res`: put always
\* calls servers.put after its get (lines 70-79); delete stops at a falsy
\* value (line 159), and the node's delete gets the key again and stops at
\* a falsy value (node lines 72-80).  A fault ends every handler.
Continues(m, n, res) ==
    /\ ~res.fault
    /\ \/ m.op = "put" /\ n = 1
       \/ m.op = "del" /\ n \in {1, 2} /\ N!Truthy(N!GetValue(res.resp))

\* The replica request of node call n + 1.
NextRequest(m, n) ==
    CASE m.op = "put"          -> PutReq(m.key, m.val)
      [] m.op = "del" /\ n = 1 -> ReadReq(m.key)
      [] m.op = "del" /\ n = 2 -> DelReq(m.key)

TypeOK ==
    /\ Loop!TypeOK
    /\ currentIds \in [Sessions -> IdLists]
    /\ sent \in [Sessions -> Commands \union {NoCmd}]
    /\ backlog \in Seq(Sessions)
    /\ serving \in Sessions \union {NoSession}
    /\ stage \in 1 .. 3

\* Server.__init__ (node lines 16-20): current_ids = [1]; no command sent.
Init ==
    /\ Loop!Init
    /\ currentIds = [s \in Sessions |-> <<1>>]
    /\ sent = [c \in Sessions |-> NoCmd]
    /\ backlog = <<>>
    /\ serving = NoSession
    /\ stage = 1

\* Client c sends a command and blocks until it is answered; the proxy's
\* socket queues the connection.
Send(c, m) ==
    /\ sent[c] = NoCmd
    /\ sent' = [sent EXCEPT ![c] = m]
    /\ backlog' = Append(backlog, c)
    /\ UNCHANGED <<loopVars, currentIds, serving, stage>>

\* serve_forever (proxy line 281) takes the oldest connection and runs
\* function (lines 29-54) and the handler up to its first node call; LOG
\* is answered at once (get_log makes no replica request).
Take ==
    /\ serving = NoSession
    /\ backlog # <<>>
    /\ LET c == Head(backlog)
           m == sent[c]
       IN IF m.op = "log"
          THEN /\ sent' = [sent EXCEPT ![c] = NoCmd]
               /\ UNCHANGED <<loopVars, serving, stage>>
          ELSE /\ serving' = c
               /\ stage' = 1
               /\ Loop!Receive(currentIds[Target(c, m)], FirstRequest(m))
               /\ UNCHANGED sent
    /\ backlog' = Tail(backlog)
    /\ UNCHANGED currentIds

\* A variant that does not advance to the next node call of the handler.
FinishNoAdvance ==
    /\ serving # NoSession
    /\ pc = "idle"
    /\ LET c == serving
           m == sent[c]
       IN /\ currentIds' =
                IF m.op = "change-membership" /\ ~result.fault
                   /\ result.resp.shape = "Ok"
                THEN [currentIds EXCEPT ![0] = m.ids] ELSE currentIds
          /\ IF Continues(m, stage, result)
             THEN /\ UNCHANGED stage
                  /\ Loop!Receive(currentIds[c], NextRequest(m, stage))
                  /\ UNCHANGED <<sent, serving>>
             ELSE /\ sent' = [sent EXCEPT ![c] = NoCmd]
                  /\ serving' = NoSession
                  /\ UNCHANGED <<loopVars, stage>>
    /\ UNCHANGED backlog

\* The node server answered the handler's node call.  change_membership's
\* success installs the new current_ids (node lines 127-131); the handler
\* then makes its next node call, or returns its answer to the client.
Finish ==
    /\ serving # NoSession
    /\ pc = "idle"
    /\ LET c == serving
           m == sent[c]
       IN /\ currentIds' =
                IF m.op = "change-membership" /\ ~result.fault
                   /\ result.resp.shape = "Ok"
                THEN [currentIds EXCEPT ![0] = m.ids] ELSE currentIds
          /\ IF Continues(m, stage, result)
             THEN /\ stage' = stage + 1
                  /\ Loop!Receive(currentIds[c], NextRequest(m, stage))
                  /\ UNCHANGED <<sent, serving>>
             ELSE /\ sent' = [sent EXCEPT ![c] = NoCmd]
                  /\ serving' = NoSession
                  /\ UNCHANGED <<loopVars, stage>>
    /\ UNCHANGED backlog

\* The busy node server's thread takes a step of _http_request.
NodeStep == Loop!ServerStep /\ UNCHANGED <<currentIds, sent, backlog, serving, stage>>

Next ==
    \/ \E c \in Sessions, m \in Commands : Send(c, m)
    \/ Take
    \/ Finish
    \/ NodeStep

\* The proxy thread and each node server thread loop in serve_forever, so
\* their steps are weakly fair; clients are not obliged to send.
Spec == Init /\ [][Next]_vars /\ WF_vars(Take) /\ WF_vars(Finish) /\ WF_vars(NodeStep)

-----------------------------------------------------------------------------
\* Every call the proxy makes to a node server is answered.
RequestsAnswered == Loop!RequestsAnswered

\* Every command a client sends, through put's two node calls and delete's
\* three replica requests, is eventually answered.
CommandsAnswered == \A c \in Sessions : sent[c] # NoCmd ~> sent[c] = NoCmd

\* Spec section 5: the proxy imposes no serialization across sessions, so
\* a client's command is eventually taken up by the proxy, whatever the
\* commands of other sessions do.
CommandsTakenUp ==
    \A c \in Sessions : sent[c] # NoCmd ~> (serving = c \/ sent[c] = NoCmd)
=============================================================================
