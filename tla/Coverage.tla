------------------------------- MODULE Coverage -------------------------------
(***************************************************************************)
(* The coverage of tests (clarity-repl/src/analysis/coverage.rs): a hook   *)
(* counts the leaves of the expressions that the VM evaluates, one report  *)
(* per call, and the reports of a test are summed into what LCOV shows:    *)
(* lines, functions and branches.  An expression is known by its path, and *)
(* a contract by its expressions; the layout is a parameter.               *)
(***************************************************************************)
EXTENDS Clarity
LOCAL INSTANCE FiniteSetsExt

NodeAt(exprs, p) ==
    LET F[n \in 1..Len(p)] == IF n = 1 THEN exprs[p[1]] ELSE F[n - 1].s[p[n]] IN F[Len(p)]

---------------------------------------------------------------------------
(* The hook.                                                               *)

\* How many arguments are names or types, which are not evaluated.
SyntaxArgs ==
    As(2, {"contract-call?"}) @@
    As(1, {"fold", "map", "filter", "from-consensus-buff?", "get", "contract-of", "var-get", "var-set",
           "map-get?", "map-set", "map-insert", "map-delete", "ft-get-balance", "nft-get-owner?",
           "ft-transfer?", "nft-transfer?", "nft-mint?", "ft-mint?", "ft-get-supply", "ft-burn?", "nft-burn?",
           "get-block-info?", "get-burn-block-info?", "get-stacks-block-info?", "get-tenure-info?"})
\* Mutant: writes of variables and maps are taken to evaluate their names.
syntax_argsMutant(e) ==
    LET n == IF Head1(e) \in DOMAIN SyntaxArgs \ {"var-set", "map-set"} THEN SyntaxArgs[Head1(e)] ELSE 0
    IN IF n <= NArgs(e) THEN 2..(n + 1) ELSE {}
syntax_args(e) ==
    LET n == IF Head1(e) \in DOMAIN SyntaxArgs THEN SyntaxArgs[Head1(e)] ELSE 0
    IN IF n <= NArgs(e) THEN 2..(n + 1) ELSE {}

\* The leaves that are counted when the node e at p is evaluated.
RECURSIVE report_syntax(_, _), report_eval(_, _)
report_syntax(e, p) ==
    IF IsList(e) THEN UNION {report_syntax(e.s[i], p \o <<i>>) : i \in 1..Len(e.s)} ELSE {p}
report_eval(e, p) ==
    IF ~ IsList(e) THEN {p}
    ELSE (IF e.s = <<>> THEN {} ELSE report_eval(e.s[1], p \o <<1>>))
           \cup UNION {report_syntax(e.s[i], p \o <<i>>) : i \in syntax_args(e)}

will_begin_eval(exprs, p) == report_eval(NodeAt(exprs, p), p)
\* The length of an as-max-len? is counted when it was read.
did_finish_eval(exprs, p, end) ==
    LET e == NodeAt(exprs, p)
    IN IF end = "ok" /\ Head1(e) = "as-max-len?" /\ NArgs(e) = 2
       THEN report_syntax(e.s[3], p \o <<3>>) ELSE {}

\* did_complete: the counts of one call, from the hook calls tr in contract c.
did_complete(exprs, c, tr) ==
    LET counted == [k \in 1..Len(tr) |->
                       IF tr[k][2] # c THEN {}
                       ELSE IF tr[k][1] = "begin" THEN will_begin_eval(exprs, tr[k][3])
                       ELSE did_finish_eval(exprs, tr[k][3], tr[k][4])]
        leaves == UNION {counted[k] : k \in 1..Len(tr)}
    IN [q \in leaves |-> Quantify(1..Len(tr), LAMBDA k : q \in counted[k])]
HitsOf(report, q) == IF q \in DOMAIN report THEN report[q] ELSE 0

---------------------------------------------------------------------------
(* What can be executed.                                                   *)

\* extract_expr_from_list: the first leaf of an expression.
RECURSIVE extract_expr_from_list(_, _)
extract_expr_from_list(e, p) ==
    IF IsList(e) /\ e.s # <<>> THEN extract_expr_from_list(e.s[1], p \o <<1>>) ELSE p

\* The names of a let or a tuple run when their values do.
NamedLines(e, p) ==
    LET at == IF Head1(e) = "let" THEN p \o <<2>> ELSE p
        pairs == CASE Head1(e) = "let" -> IF IsList(Arg(e, 1)) THEN Arg(e, 1).s ELSE <<>>
                   [] Head1(e) = "tuple" -> e.s
                   [] OTHER -> <<>>
    IN {<<at \o <<i, 1>>, extract_expr_from_list(pairs[i].s[2], at \o <<i, 2>>)>> :
           i \in {j \in 1..Len(pairs) : IsList(pairs[j]) /\ Len(pairs[j].s) = 2}}
\* The names of allowances run with their first argument, or with what follows.
AllowanceLines(e, p) ==
    LET k == IF Head1(e) = "as-contract?" THEN 2 ELSE 3
        as == IF Len(e.s) > k /\ IsList(e.s[k]) THEN e.s[k].s ELSE <<>>
        next[i \in 1..(Len(as) + 1)] ==
            IF i > Len(as) THEN extract_expr_from_list(e.s[k + 1], p \o <<k + 1>>)
            ELSE IF IsList(as[i]) /\ Len(as[i].s) > 1
            THEN extract_expr_from_list(as[i].s[2], p \o <<k, i, 2>>) ELSE next[i + 1]
    IN IF Head1(e) \in {"as-contract?", "restrict-assets?"}
       THEN {<<p \o <<k, i, 1>>, next[i]>> : i \in {j \in 1..Len(as) : IsList(as[j]) /\ as[j].s # <<>>}} ELSE {}

\* The children that are looked at, and those of them that are branches.
IsMatch(e) == Head1(e) = "match" /\ NArgs(e) \in {4, 5}
Looked(e) ==
    CASE Head1(e) = "match" -> IF IsMatch(e) THEN {2, 4, Len(e.s)} ELSE {}
      [] Head1(e) = "asserts!" -> IF NArgs(e) >= 2 THEN 1..Len(e.s) ELSE {}
      [] Head1(e) \in {"as-contract?", "restrict-assets?"} ->
           IF NArgs(e) >= (IF Head1(e) = "as-contract?" THEN 2 ELSE 3) THEN 1..Len(e.s) ELSE {}
      [] OTHER -> 1..Len(e.s)
BranchesOf(e) ==
    CASE Head1(e) = "if" -> 3..Len(e.s)
      [] Head1(e) = "asserts!" -> IF NArgs(e) >= 2 THEN {2, 3} ELSE {}
      [] Head1(e) \in {"and", "or"} -> 2..Len(e.s)
      [] Head1(e) = "match" -> IF IsMatch(e) THEN {4, Len(e.s)} ELSE {}
      [] OTHER -> {}
\* Lines: <<leaf that stands on the line, leaf whose count is taken>>; branches: <<where, leaf>>.
RECURSIVE LinesIn(_, _), BranchesIn(_, _)
LinesIn(e, p) ==
    IF ~ IsList(e) THEN {<<p, p>>}
    ELSE NamedLines(e, p) \cup AllowanceLines(e, p) \cup UNION {LinesIn(e.s[i], p \o <<i>>) : i \in Looked(e)}
BranchesIn(e, p) ==
    IF ~ IsList(e) THEN {}
    ELSE {<<p \o <<i>>, extract_expr_from_list(e.s[i], p \o <<i>>)>> : i \in BranchesOf(e)}
           \cup UNION {BranchesIn(e.s[i], p \o <<i>>) : i \in Looked(e)}
\* Of a definition only the name and the body of a function.
retrieve_functions(exprs) == FnItems(exprs)
executable_lines(exprs) ==
    UNION {{<<<<i, 2, 1>>, <<i, 2, 1>>>>} \cup LinesIn(exprs[i].s[3], <<i, 3>>) : i \in retrieve_functions(exprs)}
executable_branches(exprs) == UNION {BranchesIn(exprs[i].s[3], <<i, 3>>) : i \in retrieve_functions(exprs)}

---------------------------------------------------------------------------
\* collect_lcov_content for the reports of one test; line[q] is the line of a leaf, first[i] the one
\* that the i-th item begins on; no two items share a line.  A later line of a function that is hit
\* makes a first line that was not hit so far hit once: before the report's own count of the first
\* line is added when the hash map gives the later line first, which is early, and after it if not.
FirstLineHits(count, later, n, early) ==
    LET total[k \in 0..n] ==
            IF k = 0 THEN 0
            ELSE LET prev == total[k - 1]
                     force(t) == IF t = 0 /\ later[k] THEN 1 ELSE t
                 IN IF early THEN force(prev) + count[k] ELSE force(prev + count[k])
    IN total[n]
LcovOf(exec, branches, reports, line, first, early) ==
    LET lines == {line[x[1]] : x \in exec}
        ids == [l \in lines |-> {x[2] : x \in {y \in exec : line[y[1]] = l}}]
        item == [l \in lines |-> (CHOOSE x \in exec : line[x[1]] = l)[1][1]]
        count(l, k) == IF l \in lines THEN Max({HitsOf(reports[k], q) : q \in ids[l]}) ELSE 0
        hit == [k \in 1..Len(reports) |-> {l \in lines : count(l, k) > 0}]
        ran == UNION {hit[k] : k \in 1..Len(reports)}
        forced == {first[item[l]] : l \in {x \in ran : x # first[item[x]]}}
        calls == 1..Len(reports)
        shown(l) == FirstLineHits([k \in calls |-> count(l, k)],
                                  [k \in calls |-> \E x \in hit[k] : x # l /\ first[item[x]] = l],
                                  Len(reports), early)
    IN [lines     |-> [l \in lines \cup forced |-> shown(l)],
        functions |-> [i \in {item[l] : l \in ran} |->
                          Quantify(1..Len(reports), LAMBDA k : \E l \in hit[k] : item[l] = i)],
        branches  |-> {x[1] : x \in {b \in branches :
                                        \E k \in 1..Len(reports) : HitsOf(reports[k], b[2]) > 0}}]
collect_lcov_content(exprs, reports, line, first, early) ==
    LcovOf(executable_lines(exprs), executable_branches(exprs), reports, line, first, early)
=============================================================================
