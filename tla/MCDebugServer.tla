---------------------------- MODULE MCDebugServer -----------------------------
(***************************************************************************)
(* The calls of the evaluation hook that the VM makes while it runs an     *)
(* expression, as the debugger sees them: which expression begins or ends, *)
(* where it stands in its contract and what it accesses. The order of the  *)
(* calls is that of Clarity.                                               *)
(*                                                                         *)
(* The instance has two contracts whose expressions share numbers: a       *)
(* function that calls the other contract and then stores, on several      *)
(* lines.                                                                  *)
(***************************************************************************)
EXTENDS DebugServer, Clarity

LOCAL INSTANCE SequencesExt

CONSTANTS
    Sources,   \* The contracts: name -> expressions.
    Layout,    \* The line on which each part of a contract begins: name -> path -> line.
    Snippets,  \* The expressions to debug: name -> expression.
    Storage    \* The variables when an expression is run.

\* The contract that the debugged expression itself belongs to.
Command == "command"

Program == [c \in DOMAIN Sources |-> Code(Sources[c])] @@ (Command :> [fns |-> <<>>, consts |-> <<>>, bytes |-> 0])
Exprs(c, k) == IF c = Command THEN <<Snippets[k]>> ELSE Sources[c]

RECURSIVE NodeAt(_, _), Preorder(_, _)
NodeAt(s, p) == IF Len(p) = 1 THEN s[p[1]] ELSE NodeAt(s[p[1]].s, Tail(p))
\* The paths of a contract in the order in which its expressions are numbered.
Preorder(s, p) ==
    LET F[n \in 0..Len(s)] ==
            IF n = 0 THEN <<>>
            ELSE F[n - 1] \o <<p \o <<n>>>>
                   \o (IF IsList(s[n]) THEN Preorder(s[n].s, p \o <<n>>) ELSE <<>>)
    IN F[Len(s)]
\* The number of an expression: unique within its contract only.
ExprId(s, p) == CHOOSE i \in 1..Len(Preorder(s, <<>>)) : Preorder(s, <<>>)[i] = p

LineOf(c, p) ==
    LET known == {q \in DOMAIN Layout[c] : IsPrefix(q, p)}
    IN IF known = {} THEN 1 ELSE Layout[c][CHOOSE q \in known : \A r \in known : Len(r) <= Len(q)]

\* What a list does with which stored variable.
Accesses == As("read", {"var-get", "map-get?"}) @@
            As("write", {"var-set", "map-set", "map-insert", "map-delete"})

\* A hook call: the expression, where it is and what it accesses.  The column of an expression is
\* represented by its number, which tells the expressions of a line apart in the same way.
Event(t, k) ==
    LET s == Exprs(t[2], k)
        e == NodeAt(s, t[3])
        id == ExprId(s, t[3])
    IN [ev |-> t[1], c |-> t[2], id |-> id, line |-> LineOf(t[2], t[3]), col |-> id,
        list |-> IsList(e),
        access |-> IF Head1(e) \in DOMAIN Accesses THEN Accesses[Head1(e)] ELSE "none",
        name |-> IF Head1(e) \in DOMAIN Accesses THEN e.s[2].n ELSE ""]
Events(tr, k) == [i \in 1..Len(tr) |-> Event(tr[i], k)]
Execution(k) ==
    Events(Eval(World(Program, Command), Snippets[k], <<1>>, Names(<<>>, <<>>), Machine(Storage)).tr, k)
HookCallsOf == [k \in DOMAIN Snippets |-> Execution(k)]

\* Where the console puts a breakpoint on a function that exists: at its body.
FunctionBreakpoint(c, f) ==
    LET at == Program[c].fns[f].at IN [c |-> c, line |-> LineOf(c, at), col |-> ExprId(Sources[c], at)]
BodyBreakpoints ==
    UNION {{FunctionBreakpoint(c, f) : f \in DOMAIN Program[c].fns} : c \in DOMAIN Sources}

-----------------------------------------------------------------------------
(* The instance. *)

N(v) == Lit("uint", v)
Define(f, x, body) == Call("define-public", <<List(<<Atom(f), List(<<Atom(x), Atom("uint")>>)>>), body>>)

\* (define-public (inc (x uint))
\*   (begin
\*     (try! (contract-call? .logger note x))
\*     (ok (var-set n x))))
Counter ==
    <<Define("inc", "x",
        Call("begin", <<Call("try!", <<Call("contract-call?", <<Lit("principal", "logger"), Atom("note"), Atom("x")>>)>>),
                        Call("ok", <<Call("var-set", <<Atom("n"), Atom("x")>>)>>)>>))>>
\* (define-public (note (y uint)) (begin (var-set m y)
\*   (ok y)))
Logger ==
    <<Define("note", "y", Call("begin", <<Call("var-set", <<Atom("m"), Atom("y")>>), Call("ok", <<Atom("y")>>)>>))>>

MCSources == [counter |-> Counter, logger |-> Logger]
MCLayout ==
    [counter |-> (<<1>> :> 1 @@ <<1, 3>> :> 2 @@ <<1, 3, 2>> :> 3 @@ <<1, 3, 3>> :> 4),
     logger |-> (<<1>> :> 1 @@ <<1, 3, 3>> :> 2), command |-> (<<1>> :> 1)]
MCSnippets == [inc |-> Call("contract-call?", <<Lit("principal", "counter"), Atom("inc"), N(1)>>),
               note |-> Call("contract-call?", <<Lit("principal", "logger"), Atom("note"), N(1)>>),
               ping |-> N(1)]
MCStorage == [n |-> IntVal(0), m |-> IntVal(0)]

Bp(c, line) == [c |-> c, line |-> line, col |-> 0]
MCBreakpoints == {<<Bp("counter", 3), Bp("logger", 1)>>, <<Bp("unknown", 1)>>}
MCWatchables == {[c |-> "counter", name |-> "n", access |-> "write"]}
MCScripts == [vitest |-> <<[m |-> "mineBlock", ks |-> <<"note", "ping">>], [m |-> "initSession", ks |-> <<>>]>>,
              client |-> <<[m |-> "call", ks |-> <<"ping">>], [m |-> "disconnect", ks |-> <<>>]>>]
MCMaxPoints == [cli |-> 1, launch |-> 3, attach |-> 2]
MCBlocking == {"vitest"}
MCContracts == DOMAIN MCSources
=============================================================================
