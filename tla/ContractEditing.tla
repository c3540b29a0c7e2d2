-------------------------- MODULE ContractEditing --------------------------
(***************************************************************************)
(* A developer works through the diagnostics of a contract: the linter and *)
(* the definitions of the language server look at the text, an edit that a *)
(* lint suggests is made, or an #[allow] is put before an item, and they   *)
(* look again.  What the tools say is compared with what the VM does.      *)
(***************************************************************************)
EXTENDS Requests, StaticCost, Coverage

SX == INSTANCE SequencesExt

CONSTANTS
    Contracts,  \* The contracts to begin with: items, version of Clarity and order of hash maps.
    Files,      \* The [linter] sections of the manifest.
    MaxAllows,  \* How many #[allow] the developer writes.
    Libraries,  \* The other contracts that are deployed: name -> expressions and version of Clarity.
    Impls       \* The contracts that implement each trait, in order.

VARIABLES
    items,      \* The contract as it is.
    version,    \* Its version of Clarity.
    settings,   \* The settings of the linter.
    rev         \* The order in which hash maps are walked.

vars == <<items, version, settings, rev>>

Diagnostics(its, order) ==
    IF should_analyze(settings, "contract")
    THEN run_analysis(Contract(its, version, order), settings).diagnostics ELSE {}

\* The expression with the node at path p replaced.
RECURSIVE ReplaceNode(_, _, _)
ReplaceNode(e, p, x) ==
    IF p = <<>> THEN x ELSE [e EXCEPT !.s[Head(p)] = ReplaceNode(@, Tail(p), x)]

\* The lines of an item when its node at q is written anew, on one line.
Rewrapped(item, q) ==
    LET gone == {b \in item.breaks : q # <<>> /\ b # q /\ Within(b, q)}
        line(b) == 1 + Cardinality({x \in item.breaks : NoLater(x, b)})
        kept == SelectSeq([k \in 1..Len(item.notes) |-> k], LAMBDA k : \A b \in gone : line(b) # k)
    IN [item EXCEPT !.breaks = @ \ gone, !.notes = [j \in 1..Len(kept) |-> @[kept[j]]]]
Rewritten(item, q, e) == [Rewrapped(item, q) EXCEPT !.e = ReplaceNode(@, q, e)]
Edited(its, d) ==
    CASE d.fix.do = "remove"  -> SX!RemoveAt(its, d.p[1])
      [] d.fix.do = "replace" -> [its EXCEPT ![d.p[1]] = Rewritten(@, Tail(d.p), d.fix.e)]
      [] OTHER -> its

---------------------------------------------------------------------------
(* When a contract passes the type checker.                                *)

\* What the first argument of a native function names.
NamesItem ==
    As("var", {"var-get", "var-set"}) @@ As("ft", {"ft-mint?", "ft-get-supply"}) @@
    As("map", {"map-get?", "map-set", "map-insert", "map-delete"})

\* The uses of names in the node e at p, where bound holds the names that are bound around it, each
\* with its place: [kind, name, at, to], to being <<>> for a name that the contract has to define.
Use(kind, name, at, to) == [kind |-> kind, name |-> name, at |-> at, to |-> to]
Bound(bs, p, skip) == [x \in {bs[i].s[1].n : i \in (skip + 1)..Len(bs)} |->
                          p \o <<CHOOSE i \in (skip + 1)..Len(bs) : bs[i].s[1].n = x>>]
RECURSIVE Uses(_, _, _), Sets(_)
Uses(e, p, bound) ==
    LET sub(S) == UNION {Uses(e.s[i], p \o <<i>>, bound) : i \in S}
        f == Head1(e)
    IN CASE e.t = "atom" -> IF e.n \in {"true", "false"} THEN {}
                            ELSE {Use("value", e.n, p, IF e.n \in DOMAIN bound THEN bound[e.n] ELSE <<>>)}
         [] e.t = "trait" -> {Use("trait", e.n, p, <<>>)}
         [] e.t = "lit" -> {}
         [] f \in DOMAIN NamesItem -> {Use(NamesItem[f], e.s[2].n, p \o <<2>>, <<>>)} \cup sub(3..Len(e.s))
         [] f = "match" ->
              LET with(i) == (e.s[i].n :> p \o <<2>>) @@ bound
                  last == Len(e.s)
              IN sub({2}) \cup Uses(e.s[4], p \o <<4>>, with(3))
                   \cup Uses(e.s[last], p \o <<last>>, IF last = 6 THEN with(5) ELSE bound)
         [] f \in {"map", "fold"} -> {Use("fn", e.s[2].n, p \o <<2>>, <<>>)} \cup sub(3..Len(e.s))
         [] f = "contract-call?" -> sub({2} \cup (4..Len(e.s)))
         [] f = "tuple" -> UNION {Uses(e.s[i].s[2], p \o <<i, 2>>, bound) : i \in 2..Len(e.s)}
         [] f = "as-contract?" ->
              UNION {Uses(e.s[2].s[i], p \o <<2, i>>, bound) : i \in 1..Len(e.s[2].s)} \cup sub(3..Len(e.s))
         [] f = "let" ->
              LET bs == e.s[2].s
                  upto(n) == [x \in DOMAIN Bound(SubSeq(bs, 1, n), p \o <<2>>, 0) |->
                                 Bound(bs, p \o <<2>>, 0)[x] \o <<1>>] @@ bound
              IN UNION {Uses(bs[i].s[2], p \o <<2, i, 2>>, upto(i - 1)) : i \in 1..Len(bs)}
                   \cup UNION {Uses(e.s[i], p \o <<i>>, upto(Len(bs))) : i \in 3..Len(e.s)}
         [] f \in {"define-private", "define-public", "define-read-only"} ->
              Uses(e.s[3], p \o <<3>>, Bound(e.s[2].s, p \o <<2>>, 1))
                \cup {Use("trait", e.s[2].s[j].s[2].n, p \o <<2, j, 2>>, <<>>) :
                      j \in {i \in 2..Len(e.s[2].s) : e.s[2].s[i].s[2].t = "trait"}}
         [] f = "define-constant" -> sub({3})
         [] f = "define-data-var" -> sub({4})
         [] f \in {"define-map", "define-fungible-token", "use-trait"} -> {}
         [] OTHER -> (IF f \in DOMAIN NativeKinds THEN {} ELSE {Use("fn", f, p \o <<1>>, <<>>)})
                       \cup sub(2..Len(e.s))
\* The functions that are called in e.
RECURSIVE HeadsIn(_)
HeadsIn(e) == IF IsList(e) THEN {Head1(e)} \cup UNION {HeadsIn(e.s[i]) : i \in 1..Len(e.s)} ELSE {}
Needs(e) == {<<u.kind, u.name>> : u \in {x \in Uses(e, <<>>, <<>>) : x.to = <<>>}}
\* The arguments that ast_visitor.rs leaves out: the key of secp256k1-verify, and those of an
\* allowance after the first.  No tool sees the names in them.
LeftOut(e, i) ==
    \/ Head1(e) = "secp256k1-verify" /\ i = 4
    \/ Head1(e) \in DOMAIN NativeKinds /\ NativeKinds[Head1(e)] = "allowance" /\ i > 2
Unseen(exprs, p) == \E n \in 1..(Len(p) - 1) : LeftOut(NodeAt(exprs, SubSeq(p, 1, n)), p[n + 1])
NeedsUnseen(e) == {<<u.kind, u.name>> : u \in {x \in Uses(e, <<>>, <<>>) : x.to = <<>> /\ Unseen(e.s, x.at)}}
NeedsSeen(e) == {<<u.kind, u.name>> : u \in {x \in Uses(e, <<>>, <<>>) : x.to = <<>> /\ ~ Unseen(e.s, x.at)}}
Sets(e) == IsList(e) /\ (Head1(e) \in {"var-set", "map-set", "map-insert", "map-delete", "ft-mint?"} \/ \E i \in 1..Len(e.s) : Sets(e.s[i]))

Provides(e) ==
    CASE Head1(e) = "define-constant" -> {<<"value", e.s[2].n>>}
      [] Head1(e) = "define-data-var" -> {<<"var", e.s[2].n>>}
      [] Head1(e) = "define-map"      -> {<<"map", e.s[2].n>>}
      [] Head1(e) = "use-trait"       -> {<<"trait", e.s[2].n>>}
      [] Head1(e) = "define-fungible-token" -> {<<"ft", e.s[2].n>>}
      [] OTHER -> {<<"fn", FnName(e)>>}
ProvidedBefore(exprs, i) == UNION {Provides(exprs[j]) : j \in 1..(i - 1)}
Writers(exprs) ==
    LET F[n \in 0..Len(exprs)] ==
            IF n = 0 THEN {}
            ELSE LET prev == F[n - 1] IN
                 IF Sets(exprs[n]) \/ \E f \in prev : f \in Needs(exprs[n])
                 THEN prev \cup Provides(exprs[n]) ELSE prev
    IN F[Len(exprs)]
Compiles(exprs) ==
    /\ \A i \in 1..Len(exprs) : Needs(exprs[i]) \subseteq ProvidedBefore(exprs, i)
    /\ \A i \in Items(exprs, "define-read-only") : Provides(exprs[i]) \cap Writers(exprs) = {}

---------------------------------------------------------------------------
Init ==
    /\ \E k \in Contracts : items = k.items /\ version = k.version /\ rev = k.rev
    /\ Compiles(Exprs(items))
    /\ settings \in {SettingsFrom(f) : f \in Files}

Follow ==
    \E d \in Diagnostics(items, rev) :
        /\ d.fix # NoFix
        /\ Compiles(Exprs(Edited(items, d)))
        /\ items' = Edited(items, d)
        /\ UNCHANGED <<version, settings, rev>>

\* An #[allow] on a new line before the one that a diagnostic shows.
Allows == UNION {{<<i, k>> : k \in {n \in 1..Len(items[i].notes) : items[i].notes[n].kind = "allow"}} : i \in 1..Len(items)}
WriteAllow ==
    /\ Cardinality(Allows) < MaxAllows
    /\ \E d \in Diagnostics(items, rev) :
          LET k == LineIn(items, d.p)
          IN /\ items[d.p[1]].notes[k] = NoNote
             /\ items' = [items EXCEPT ![d.p[1]].notes[k] = Allow({d.lint})]
    /\ UNCHANGED <<version, settings, rev>>

Next == Follow \/ WriteAllow
Spec == Init /\ [][Next]_vars

---------------------------------------------------------------------------
(* Properties.                                                             *)

Entrypoints(exprs) ==
    {FnName(exprs[i]) : i \in Items(exprs, "define-public") \cup Items(exprs, "define-read-only")}

\* The contracts around the one that is edited, states of it and of them, and arguments.
Others == [c \in DOMAIN Libraries |-> Code(Libraries[c].exprs)]
Around == [x \in UNION {Stored(Libraries[c].exprs) : c \in DOMAIN Libraries} |-> IntVal(0)]
States(exprs) == {own @@ Around : own \in StatesOf(exprs, -1..1)}
ValuesOf(ty) ==
    CASE IsTrait(ty)    -> {ContractVal(Impls[ty.n][i]) : i \in 1..Len(Impls[ty.n])}
      [] IsListType(ty) -> {ListVal([i \in 1..n |-> IntVal(0)]) : n \in 0..TypeLen(ty)}
      [] ty = Atom("bool") -> {BoolVal(b) : b \in BOOLEAN}
      [] OTHER -> {IntVal(1)}
Arguments(exprs, f) ==
    LET tys == ParamTypes(exprs[CHOOSE i \in FnItems(exprs) : FnName(exprs[i]) = f])
    IN {vs \in [1..Len(tys) -> UNION {ValuesOf(tys[i]) : i \in 1..Len(tys)}] :
           \A i \in 1..Len(tys) : vs[i] \in ValuesOf(tys[i])}
Run(exprs, f, vals, st) == CallAmong(exprs, Others, f, vals, st)

(* The suggestions that are known to change what a contract does.          *)

Suggested(d) == NodeAt(Exprs(items), d.p)
\* A variable, map, token or trait that something names although nothing uses it, and a constant or
\* function that is named only where no tool looks: the contract does not compile without it.
StillNamed(d) ==
    /\ d.fix.do = "remove"
    /\ \E j \in 1..Len(items) :
          Provides(items[d.p[1]].e) \cap (IF d.lint \in {"unused_const", "unused_private_fn"}
                                          THEN NeedsUnseen(items[j].e) ELSE Needs(items[j].e)) # {}
\* (- x), which is taken for x.
IsNegation(d) == d.lint = "noop" /\ d.what = "single" /\ Head1(Suggested(d)) = "-"
\* Literals whose sum or product overflows: SplitOperands starts again with the next one.
LiteralsOverflow(d) ==
    LET f == Head1(Suggested(d))
        args == IF f \in {"-", "/"} THEN Tail(Args(Suggested(d))) ELSE Args(Suggested(d))
        acc(n) == Accumulate(SubSeq(args, 1, n), IF f \in {"+", "-"} THEN "add" ELSE "mul")
    IN /\ d.lint = "noop" /\ f \in {"+", "-", "*", "/"} /\ Len(args) > 0
       /\ \E n \in 1..Len(args) : has_constants(SubSeq(args, 1, n)) /\ acc(n) = NoAcc
\* Operands that are dropped, with what they store or with the return that they make.
DropsOperands(d) == d.what \in {"absorber", "multiply_zero", "zero_dividend", "single_is_eq"}
DropsWrites(d) ==
    DropsOperands(d) /\ (Sets(Suggested(d)) \/ Needs(Suggested(d)) \cap Writers(Exprs(items)) # {})
DropsReturn(d) == DropsOperands(d) /\ HeadsIn(Suggested(d)) \cap {"asserts!", "try!"} # {}
ChangesBehaviour(d) == StillNamed(d) \/ IsNegation(d) \/ LiteralsOverflow(d) \/ DropsReturn(d)

SameOutcome(d, a, b) ==
    a.end = "ok" =>
        \/ d.lint = "flatten_variadic" /\ b.end = "fail"
        \/ b.end = "ok" /\ b.val = a.val /\ (DropsWrites(d) \/ b.vars = a.vars)

\* Following a suggestion that names an edit gives a contract that compiles, and every call of it
\* that succeeded gives the same value and leaves the same variables.  The exceptions are those that
\* the code makes: a name that is still needed is removed, the negation (- x) becomes x, overflowing
\* literals are miscounted, and dropped operands take their writes and early returns along.  A
\* flattened sum may fail where the nested one did not, and the other way round.
SuggestionsKeepBehaviour ==
    Allows = {} =>
    \A d \in Diagnostics(items, rev) :
        d.fix # NoFix /\ ~ ChangesBehaviour(d) =>
            LET before == Exprs(items)
                after == Exprs(Edited(items, d))
            IN /\ Compiles(after)
               /\ \A f \in Entrypoints(before) : \A vals \in Arguments(before, f), st \in States(before) :
                     SameOutcome(d, Run(before, f, vals, st), Run(after, f, vals, st))

\* What a function called from outside can reach, through functions and constants, where the tools look.
Live(exprs) ==
    LET F[n \in 0..Len(exprs)] ==
            IF n = 0 THEN {<<"fn", f>> : f \in Entrypoints(exprs)}
            ELSE LET prev == F[n - 1]
                 IN prev \cup UNION {NeedsSeen(exprs[i]) : i \in {j \in 1..Len(exprs) : Provides(exprs[j]) \subseteq prev}}
    IN F[Len(exprs)]
DeadIsReported(exprs, ds) ==
    LET dead == {i \in 1..Len(exprs) : ~ (Provides(exprs[i]) \subseteq Live(exprs))}
        reported(lints) == {d.p[1] : d \in {x \in ds : x.lint \in lints}}
    IN /\ reported({"unused_const", "unused_private_fn"}) \subseteq dead
       /\ Allows = {} /\ reported(UnusedLints \ {"unused_binding"}) = {} => dead = {}

\* A constant or private function that is reported as unused is never reached, unless it is named
\* in one of the arguments that the traversal leaves out; and following the reports one after the
\* other finds everything that is not reached: when nothing is reported any more, no definition is
\* left that no entry point reaches.
DeadCodeIsFound == DeadIsReported(Exprs(items), Diagnostics(items, rev))

\* The node whose line decides: of a type the definition around it, of a let's name its value, of the
\* case of a parameter its name, and else the one that is reported.
Subject(d) ==
    CASE d.lint = "unnecessary_tuple" /\ d.what = "type" -> <<d.p[1]>>
      [] d.lint = "unused_binding" /\ d.what = "LetBinding" -> SX!Front(d.p) \o <<2>>
      [] d.lint = "case_binding" /\ d.what = "FunctionArg" -> SX!Front(d.p) \o <<1>>
      [] OTHER -> d.p
\* An error constant that is not looked at any more is not compared with either: the next one that
\* has its value is not reported.
NoLongerDuplicate(d, i, lints) ==
    /\ d.lint = "error_const" /\ d.what = "duplicate" /\ d.lint \in lints
    /\ d.p[1] > i /\ Head1(items[i].e) = "define-constant" /\ Arg(items[i].e, 2) = Arg(items[d.p[1]].e, 2)
SilencedBy(i, k, lints) ==
    {d \in Diagnostics(items, rev) : d.lint \in lints /\ d.p[1] = i /\ LineIn(items, Subject(d)) = k}
\* An #[allow] takes away the diagnostics of its lint whose subject begins on the line below it, and
\* no others, wherever in the text it is put and whatever annotations stand before and after it:
\* they keep reaching what they reached.  The exception is a duplicate of an error constant that
\* the #[allow] takes out of the comparison.
AllowIsLocal ==
    [][Exprs(items') = Exprs(items) =>
          \A i \in 1..Len(items) : \A k \in 1..Len(items[i].notes) :
              items'[i].notes[k] # items[i].notes[k] =>
                  LET lints == items'[i].notes[k].lints
                      expected == Diagnostics(items, rev) \ SilencedBy(i, k, lints)
                      left == Diagnostics(items', rev)
                  IN left \subseteq expected /\ \A d \in expected \ left : NoLongerDuplicate(d, i, lints)]_vars

\* Where the definition of a name used in the i-th item is.
DefinedAt(u, i) ==
    IF u.to # <<>> THEN u.to
    ELSE <<CHOOSE j \in 1..(i - 1) : <<u.kind, u.name>> \in Provides(items[j].e)>>

BoundByMatch(u) == u.to # <<>> /\ Head1(NodeAt(Exprs(items), SX!Front(u.to))) = "match"

EditorKnows(c, tokens, symbols) ==
    /\ \A i \in 1..Len(items) : \A u \in Uses(items[i].e, <<i>>, <<>>) :
          u.kind # "trait" /\ ~ Unseen(Exprs(items), u.at) =>
              /\ {t \in tokens : t[1] = u.at} = {<<u.at, Internal(DefinedAt(u, i))>>}
              /\ u.name \in build_completion_item_list(c, u.at, {}) \/ BoundByMatch(u)
    /\ \A i \in 1..Len(items) :
          Head1(items[i].e) # "use-trait" =>
              Cardinality({n \in 1..Len(symbols) : symbols[n].p = <<i>>}) = 1
EditorKnowsIn(c) == EditorKnows(c, Tokens(c, ""), get_symbols(c))

\* Every name in the contract leads to the definition that the VM resolves it to (the expression that
\* a match takes apart stands for the names it binds), and is among the completions where it stands,
\* unless a match binds it or the traversal leaves its place out; the outline shows each definition
\* once.
EditorKnowsNames == Allows = {} => EditorKnowsIn(Contract(items, version, rev))

---------------------------------------------------------------------------
(* Costs.                                                                  *)

RECURSIVE NestedIn(_, _)
Heads(exprs) == UNION {HeadsIn(exprs[i]) : i \in 1..Len(exprs)}

\* Where the analysis says itself, or is known, to leave out a callee or the length of a list.
Incomplete == {"warned", "cycle", "skipped", "length"}
Spent(r, d) == IF d = "runtime" THEN r.spent.lookups ELSE r.spent[d]
\* What makes a run shorter than the least cost: values that decide how much is evaluated.
CutsShort == {"and", "or", "map", "fold", "try!", "map-insert"}
NestedAsserts(exprs) ==
    \E i \in FnItems(exprs) : LET body == Arg(exprs[i], 2) IN
        IsList(body) /\ \E j \in 1..Len(body.s) :
            IsList(body.s[j]) /\ "asserts!" \in UNION {HeadsIn(body.s[j].s[k]) : k \in 1..Len(body.s[j].s)}

\* A run r lies within a cost.
CostHolds(exprs, cost, r) ==
    \A d \in Dims :
        /\ Spent(r, d) <= cost.max[d]
        /\ d # "runtime" /\ r.end = "ok" /\ Heads(exprs) \cap CutsShort = {} /\ ~ NestedAsserts(exprs) =>
              cost.min[d] <= Spent(r, d)
\* A body that accesses storage with nothing but calls as operands: of its own cost only the lookup
\* is kept (cost_analysis.rs:1559).
Stripped(exprs) ==
    \E i \in FnItems(exprs) : LET body == Arg(exprs[i], 2) IN
        /\ Head1(body) \in DOMAIN StorageOf /\ NArgs(body) > 0
        /\ \A j \in 1..NArgs(body) : IsList(Arg(body, j))
\* A constant that is not a literal: the analysis does not count it as loaded (cost_analysis.rs:651).
Computed(exprs) == \E i \in Items(exprs, "define-constant") : ~ IsValue(Arg(exprs[i], 2))
CostsHold(exprs, a) ==
    ~ a.st.err /\ a.st.gaps \cap Incomplete = {} /\ ~ Stripped(exprs) /\ ~ Computed(exprs) =>
        \A f \in Entrypoints(exprs) : \A vals \in Arguments(exprs, f), st \in States(exprs) :
            CostHolds(exprs, a.costs[f], Run(exprs, f, vals, st))

\* No run of a function costs more than the maximum that the analysis gives it, in accesses to
\* storage, their bytes and function lookups, when the analysis found every callee, no function
\* consists of an access to storage whose operands are all calls, and every constant is a literal:
\* the analysis leaves out the storage of the one and the size of the others.  And a run to the end
\* costs no less than the minimum, where nothing but an asserts! in the body of a function
\* ends an evaluation early.
CostCoversRuns ==
    Allows = {} => CostsHold(Exprs(items), static_cost(Exprs(items), version, Libraries, Impls))

\* A call of one of fns in an argument of another.
NestedIn(e, fns) ==
    /\ IsList(e)
    /\ \E i \in 1..Len(e.s) : NestedIn(e.s[i], fns) \/ (Head1(e) \in fns /\ HeadsIn(e.s[i]) \cap fns # {})
NestedCalls(exprs) == \E i \in 1..Len(exprs) : NestedIn(exprs[i], DOMAIN FnTable(exprs))

CountsOf(trees, names) == get_trait_count(trees, IF rev THEN SX!Reverse(names) ELSE names, names)
Counted(exprs, counts) ==
    \A f \in Entrypoints(exprs) : \A vals \in Arguments(exprs, f), st \in States(exprs) :
        Run(exprs, f, vals, st).spent.dynamic <= (IF f \in DOMAIN counts THEN counts[f][2] ELSE 0)
CountedIn(exprs, trees) == Counted(exprs, CountsOf(trees, SX!SetToSeq(DOMAIN trees)))

\* A function makes no more calls through traits than are counted for it, in any order of the
\* hash map, when calls are not nested in the arguments of calls and no list is walked.
TraitCallsAreCounted ==
    LET exprs == Exprs(items)
    IN Allows = {} /\ ~ NestedCalls(exprs) /\ Heads(exprs) \cap {"map", "fold"} = {} =>
           CountedIn(exprs, static_cost(exprs, version, Libraries, Impls).trees)

---------------------------------------------------------------------------
(* Coverage.                                                               *)

\* The leaves of the expression e that is evaluated at p, each with what runs it: the
\* beginning of a node's evaluation or its successful end.  A name that is bound runs with its
\* value, a name of an item with the call around it, a length after its list.
NameArgs(e) ==
    CASE Head1(e) = "contract-call?" -> 2
      [] Head1(e) \in DOMAIN NamesItem \cup {"map", "fold"} -> 1
      [] OTHER -> 0
RECURSIVE RunsWith(_, _)
Leaf1(q, p) == <<q, <<"begin", p>>>>
PairRuns(pair, p) == {Leaf1(p \o <<1>>, p \o <<2>>)} \cup RunsWith(pair.s[2], p \o <<2>>)
RunsWith(e, p) ==
    LET rest(a) == UNION {RunsWith(e.s[i], p \o <<i>>) : i \in a..Len(e.s)}
        names(n) == {Leaf1(p \o <<i>>, p) : i \in 1..(n + 1)}
    IN CASE ~ IsList(e) -> {Leaf1(p, p)}
         [] Head1(e) = "let" ->
              names(0) \cup UNION {PairRuns(e.s[2].s[i], p \o <<2, i>>) : i \in 1..Len(e.s[2].s)} \cup rest(3)
         [] Head1(e) = "tuple" -> names(0) \cup UNION {PairRuns(e.s[i], p \o <<i>>) : i \in 2..Len(e.s)}
         [] Head1(e) = "as-contract?" ->
              names(0) \cup rest(3) \cup
              UNION {{Leaf1(p \o <<2, i, 1>>, p \o <<2, i, 2>>)}
                       \cup UNION {RunsWith(e.s[2].s[i].s[j], p \o <<2, i, j>>) : j \in 2..Len(e.s[2].s[i].s)} :
                     i \in 1..Len(e.s[2].s)}
         [] Head1(e) = "match" -> UNION {RunsWith(e.s[i], p \o <<i>>) : i \in {2, 4, Len(e.s)}}
         [] Head1(e) = "as-max-len?" ->
              names(0) \cup {<<p \o <<3>>, <<"end", p>>>>} \cup RunsWith(e.s[2], p \o <<2>>)
         [] OTHER -> names(NameArgs(e)) \cup rest(NameArgs(e) + 2)

\* The definition of a function and the head of its body on one line, or the definition alone, and
\* each leaf of the body on its own.
LineOf(q) == IF q[2] < 3 \/ (rev /\ q = <<q[1], 3, 1>>) THEN <<q[1]>> ELSE q

\* What the VM ran of the contract, and a report that agrees with it.
Ran(tr) == {<<tr[k][1], tr[k][3]>> :
               k \in {j \in 1..Len(tr) : tr[j][2] = Own /\ (tr[j][1] = "begin" \/ tr[j][4] = "ok")}}
Agrees(exprs, lcov, events) ==
    LET fns == FnItems(exprs)
        leaves == UNION {RunsWith(exprs[i].s[3], <<i, 3>>) : i \in fns}
    IN /\ \A x \in leaves : LineOf(x[1]) # <<x[1][1]>> => (lcov.lines[LineOf(x[1])] > 0 <=> x[2] \in events)
       /\ DOMAIN lcov.functions = {i \in fns : <<"begin", <<i, 3>>>> \in events}
       /\ \A i \in fns : i \in DOMAIN lcov.functions => lcov.lines[<<i>>] > 0
       /\ \A b \in executable_branches(exprs) : b[1] \in lcov.branches <=> <<"begin", b[1]>> \in events
ReportAgrees(exprs, tr) ==
    LET line == [q \in {x[1] : x \in executable_lines(exprs)} |-> LineOf(q)]
        first == [i \in FnItems(exprs) |-> <<i>>]
    IN Agrees(exprs, collect_lcov_content(exprs, <<did_complete(exprs, Own, tr)>>, line, first, rev), Ran(tr))

\* After any call, a line is shown as hit when the VM ran what stands on it and as missed when it
\* did not, a function when it was applied, and a branch when it was taken.
CoverageIsFaithful ==
    LET exprs == Exprs(items)
    IN Allows = {} =>
       \A f \in Entrypoints(exprs) : \A vals \in Arguments(exprs, f), st \in States(exprs) :
           ReportAgrees(exprs, Run(exprs, f, vals, st).tr)

=============================================================================
