---------------------------- MODULE DispatchTable ----------------------------
(***************************************************************************)
(* The dispatcher of spec section 4.4, as a reference for Dispatcher, and *)
(* an enumeration of command lines, grown one token at a time from the    *)
(* empty line, so that TLC compares the two on every line of up to        *)
(* MaxTokens tokens.                                                       *)
(***************************************************************************)
EXTENDS Dispatcher

VARIABLE
    line        \* a command line, as its tokens

\* Step 3 of section 4.4: the method name of each command.
OpName ==
    [c \in Commands |->
        CASE c = "del"               -> "delete"
          [] c = "add-learner"       -> "add_learner"
          [] c = "change-membership" -> "change_membership"
          [] OTHER                   -> c]

\* Step 4: the numbers of tokens each command accepts.
Arity ==
    [c \in Commands |->
        CASE c \in {"put", "add-learner"}          -> {3}
          [] c \in {"get", "del"}                  -> {2}
          [] c = "change-membership"               -> 2 .. MaxTokens
          [] OTHER                                 -> {1}]

\* Steps 1-6 and the routing rule: membership-mutating commands go to the
\* first member, every other command to the session's own one.  The usage
\* line ADD-LEARNER node_id "api_addr" writes the address in quotes.
SpecDispatch(l) ==
    LET tok == [j \in DOMAIN l |-> Lower(l[j])]
        named == {c \in Commands : Len(tok) >= 1 /\ Is(tok[1], c)}
        cmd == IF named = {} THEN "none" ELSE CHOOSE c \in named : TRUE
        op  == OpName[cmd]
    IN IF cmd = "none" THEN BadCommand
       ELSE IF Len(tok) \notin Arity[cmd] THEN Usage(op)
       ELSE IF \/ cmd = "add-learner" /\ ~IsInt(tok[2])
               \/ cmd = "change-membership" /\ \E j \in 2 .. Len(tok) : ~IsInt(tok[j])
            THEN ParseError(op)
       ELSE IF cmd = "exit" THEN ExitResult
       ELSE Result("call", op,
                   IF cmd = "add-learner" THEN <<tok[2], StripQuotes(tok[3])>> ELSE Rest(tok),
                   IF cmd \in {"add-learner", "change-membership"} THEN "primary" ELSE "own")

Init == line = <<>>

Next == Len(line) < MaxTokens /\ \E t \in Tokens : line' = Append(line, t)

Spec == Init /\ [][Next]_line

\* A line reaches a node-server method exactly when the spec's dispatcher
\* forwards it, with the same method and arguments: malformed, unknown or
\* non-integer input is never forwarded (function and the handlers' checks).
ForwardsAsSpecified ==
    LET code == Dispatch(line)
        spec == SpecDispatch(line)
    IN (code.kind = "call" \/ spec.kind = "call") =>
          /\ code.kind = spec.kind
          /\ code.op = spec.op
          /\ code.args = spec.args

\* Every line the proxy acts on (a forwarded command or EXIT) is accepted by
\* the spec's dispatcher and sent where its routing rule says: the arity
\* check of each handler, `exit` (line 57) included, and the servers[...]
\* each handler calls.
ActsAsSpecified ==
    LET code == Dispatch(line)
        spec == SpecDispatch(line)
    IN code.kind \in {"call", "exit"} => code = spec
=============================================================================
