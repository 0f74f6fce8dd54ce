----------------------------- MODULE Dispatcher -----------------------------
(***************************************************************************)
(* The command dispatcher of src/meta-server/proxy_server.py:              *)
(* ProxyServer.function (lines 29-54) and the arity and argument checks at *)
(* the head of each handler, as a pure operator from one command line to   *)
(* what the proxy does with it, checked against the dispatcher of spec      *)
(* section 4.4.                                                            *)
(*                                                                         *)
(* A line is its sequence of tokens (`strip().split()`).  A token is a     *)
(* record: its text, whether it was typed in upper case, and whether it is *)
(* wrapped in quotes.  `lower()` clears `upper`; `strip('"\'')` clears     *)
(* `quoted`.  Python compares a token with a literal such as 'put' equal  *)
(* only when it is neither upper case nor quoted, and int() parses only an *)
(* unquoted numeral.                                                       *)
(***************************************************************************)
EXTENDS Integers, Sequences

CONSTANTS
    Words,      \* the non-numeric texts a token may have
    Numerals,   \* the texts int() accepts
    MaxTokens   \* the longest line considered

Commands == {"put", "get", "del", "list", "log", "exit",
             "add-learner", "change-membership", "metrics"}

ASSUME Commands \subseteq Words /\ Words \cap Numerals = {}

Tokens == {[text |-> w, upper |-> u, quoted |-> q] :
              w \in Words, u \in BOOLEAN, q \in BOOLEAN}
          \union {[text |-> n, upper |-> FALSE, quoted |-> q] :
                    n \in Numerals, q \in BOOLEAN}

Lines == UNION {[1 .. n -> Tokens] : n \in 0 .. MaxTokens}

\* str.lower() on a token.
Lower(t) == [t EXCEPT !.upper = FALSE]

\* str.strip('"\'') on a token.
StripQuotes(t) == [t EXCEPT !.quoted = FALSE]

\* A token equal to the literal w.
Is(t, w) == t.text = w /\ ~t.upper /\ ~t.quoted

\* int(t) does not raise ValueError.
IsInt(t) == t.text \in Numerals /\ ~t.quoted

(***************************************************************************)
(* Results.  A call names the node-server method, its arguments, and      *)
(* whether it goes to the caller's own node server or to servers[0].      *)
(***************************************************************************)
Result(kind, op, args, target) ==
    [kind |-> kind, op |-> op, args |-> args, target |-> target]

BadCommand     == Result("badcmd", "none", <<>>, "none")
Usage(op)      == Result("usage", op, <<>>, "none")
ParseError(op) == Result("parseerr", op, <<>>, "none")
Own(op, args)  == Result("call", op, args, "own")
Primary(op, args) == Result("call", op, args, "primary")
ExitResult     == Result("exit", "exit", <<>>, "none")

Rest(cl) == SubSeq(cl, 2, Len(cl))

\* put (lines 64-65), get (85-86), delete (154-155), list (98-99),
\* log (170-171): a fixed number of tokens, or the usage message.
Fixed(op, n, cl) == IF Len(cl) # n THEN Usage(op) ELSE Own(op, Rest(cl))

\* exit (lines 57-60): no check at all.
Exit(cl) == ExitResult

\* add_learner (lines 205-211): three tokens, an integer id, the address
\* with its quotes stripped; sent to servers[0].
AddLearner(cl) ==
    IF Len(cl) # 3 THEN Usage("add_learner")
    ELSE IF ~IsInt(cl[2]) THEN ParseError("add_learner")
    ELSE Primary("add_learner", <<cl[2], StripQuotes(cl[3])>>)

\* A variant that parses only the first id.
ChangeMembershipFirstId(cl) ==
    IF Len(cl) < 2 THEN Usage("change_membership")
    ELSE IF ~IsInt(cl[2]) THEN ParseError("change_membership")
    ELSE Primary("change_membership", Rest(cl))

\* change_membership (lines 227-234): at least two tokens, every id an
\* integer; sent to servers[0].
ChangeMembership(cl) ==
    IF Len(cl) < 2 THEN Usage("change_membership")
    ELSE IF \E j \in 2 .. Len(cl) : ~IsInt(cl[j]) THEN ParseError("change_membership")
    ELSE Primary("change_membership", Rest(cl))

\* metrics (lines 247-252): one token; sent to servers[0].
Metrics(cl) == IF Len(cl) # 1 THEN Usage("metrics") ELSE Primary("metrics", <<>>)

\* function (lines 29-54): lower-case and split the line, reject an empty
\* or unknown command, map the command to its method and call it.
Dispatch(line) ==
    LET cl == [j \in DOMAIN line |-> Lower(line[j])] IN
    IF Len(cl) < 1 THEN BadCommand
    ELSE CASE Is(cl[1], "put")               -> Fixed("put", 3, cl)
           [] Is(cl[1], "get")               -> Fixed("get", 2, cl)
           [] Is(cl[1], "del")               -> Fixed("delete", 2, cl)
           [] Is(cl[1], "list")              -> Fixed("list", 1, cl)
           [] Is(cl[1], "log")               -> Fixed("log", 1, cl)
           [] Is(cl[1], "exit")              -> Exit(cl)
           [] Is(cl[1], "add-learner")       -> AddLearner(cl)
           [] Is(cl[1], "change-membership") -> ChangeMembership(cl)
           [] Is(cl[1], "metrics")           -> Metrics(cl)
           [] OTHER                          -> BadCommand
=============================================================================
