------------------------------- MODULE Lints -------------------------------
(***************************************************************************)
(* The lints of clarity-repl/src/analysis: the shared caches (cache/*.rs)  *)
(* and one definition per pass (lints/*.rs).  A contract is a sequence of  *)
(* items [e, breaks, notes]: an expression, the nodes of it that begin a   *)
(* line, and the annotation before each of its lines.  A pass works on     *)
(* c = [items, vs, version, annotations], the contract, the visits of its  *)
(* traversal, its version of Clarity and its annotations by line, and      *)
(* returns its diagnostics [lint, p, what, fix]: the node each is reported *)
(* at, which of the messages of the pass it is, and the edit it suggests.  *)
(***************************************************************************)
EXTENDS Clarity, FiniteSets

CONSTANTS
    NameClass,      \* The classes of the characters of a name: a function to sequences.
    ErrNames,       \* The names that begin with ERR_.
    ReadOnlyTargets \* The functions of other contracts that are read-only there.

NoNote == [kind |-> "none", lints |-> {}]
Allow(lints) == [kind |-> "allow", lints |-> lints]

Exprs(items) == [i \in 1..Len(items) |-> items[i].e]

\* Is the node at q within the one at p, and does the text of p begin no later than that of q.
Within(q, p) == Len(q) >= Len(p) /\ SubSeq(q, 1, Len(p)) = p
NoLater(p, q) ==
    \/ Within(q, p)
    \/ \E n \in 1..Len(p) : n <= Len(q) /\ p[n] < q[n] /\ SubSeq(p, 1, n - 1) = SubSeq(q, 1, n - 1)
\* The line of its item on which the node at path p begins.
LineIn(items, p) ==
    LET breaks == items[p[1]].breaks IN 1 + Cardinality({b \in breaks : NoLater(b, Tail(p))})
\* The number in the text of the k-th line of the i-th item: each annotation takes a line too.
LineNumber(items, i, k) ==
    LET noted(j, n) == Cardinality({m \in 1..n : items[j].notes[m] # NoNote})
        F[j \in 0..(i - 1)] ==
            IF j = 0 THEN 0 ELSE F[j - 1] + Len(items[j].notes) + noted(j, Len(items[j].notes))
    IN F[i - 1] + k + noted(i, k)
start_line(c, p) == LineNumber(c.items, p[1], LineIn(c.items, p))

\* collect_annotations: the annotations of the text by line.
collect_annotations(items) ==
    LET of(i) == [k \in 1..Len(items[i].notes) |->
                     [line |-> LineNumber(items, i, k) - 1, note |-> items[i].notes[k]]]
        F[i \in 0..Len(items)] ==
            IF i = 0 THEN <<>> ELSE F[i - 1] \o SelectSeq(of(i), LAMBDA a : a.note # NoNote)
    IN F[Len(items)]
Contract(items, version, rev) ==
    [items |-> items, version |-> version, rev |-> rev, annotations |-> collect_annotations(items),
     vs |-> TraverseAll(Exprs(items), version, rev)]

\* Mutant: an annotation reaches on until the next one.
get_index_of_spanMutant(annotations, line) ==
    Cardinality({i \in 1..Len(annotations) : annotations[i].line < line})
\* The annotation on the line before, and 0 for none: the search ends at the first that is not before it.
get_index_of_span(annotations, line) ==
    LET past == {i \in 1..Len(annotations) : annotations[i].line >= line - 1}
        first == CHOOSE i \in past : \A j \in past : i <= j
    IN IF past = {} \/ annotations[first].line # line - 1 THEN 0 ELSE first
NoteAt(c, p) ==
    LET i == IF c.annotations = <<>> THEN 0 ELSE get_index_of_span(c.annotations, start_line(c, p))
    IN IF i = 0 THEN NoNote ELSE c.annotations[i].note
\* match_allow_annotation, for the span of the node at path p.
Allowed(c, p, lint) == LET note == NoteAt(c, p) IN note.kind = "allow" /\ lint \in note.lints

NoFix == [do |-> "none", e |-> DefaultExpr]
Remove == [do |-> "remove", e |-> DefaultExpr]
Replace(e) == [do |-> "replace", e |-> e]
Diag(lint, p, what, fix) == [lint |-> lint, p |-> p, what |-> what, fix |-> fix]

\* The diagnostics of a pass that looks at visits: one set of [what, fix] for each visit.
PerVisit(c, lint, kinds, Found(_)) ==
    UNION {{Diag(lint, v.p, f.what, f.fix) : f \in Found(v)} :
           v \in {c.vs[i] : i \in {j \in 1..Len(c.vs) : /\ c.vs[j].k \in kinds
                                                         /\ ~ Allowed(c, c.vs[j].p, lint)}}}
Say(what, fix) == {[what |-> what, fix |-> fix]}

---------------------------------------------------------------------------
(* Names (util/mod.rs).                                                    *)

NoRun(s, class) == \A i \in 1..(Len(s) - 1) : ~ (s[i] = class /\ s[i + 1] = class)
match_screaming_snake_case(s) ==
    /\ s # <<>>
    /\ \A i \in 1..Len(s) : s[i] \in {"upper", "digit", "underscore"}
    /\ NoRun(s, "underscore")
match_kebab_case(s) ==
    /\ s # <<>>
    /\ \A i \in 1..Len(s) : s[i] \in {"lower", "digit", "hyphen"}
    /\ NoRun(s, "hyphen")
strip_unused_suffix(s) ==
    IF s # <<>> /\ s[Len(s)] = "underscore" THEN SubSeq(s, 1, Len(s) - 1) ELSE s
is_explicitly_unused(name) ==
    LET s == NameClass[name]
    IN s # <<>> /\ (s[1] = "underscore" \/ s[Len(s)] = "underscore")

---------------------------------------------------------------------------
(* The caches.  An entry is the index of the visit that defines it.        *)

Fns == {"define_private", "define_public", "define_read_only"}
Entries(c, kinds) == {i \in 1..Len(c.vs) : c.vs[i].k \in kinds}
DefName(v) == IF v.k \in Fns THEN AtomName(Arg(v.e, 1).s[1]) ELSE AtomName(Arg(v.e, 1))
\* A later visit of kind k on the entry's name: the maps only mark what they hold already.
Marked(c, i, k) ==
    \E j \in Entries(c, {k}) : j > i /\ AtomName(Arg(c.vs[j].e, 1)) = DefName(c.vs[i])

ConstantUsed(c, i) == \E j \in Entries(c, {"atom"}) : j > i /\ c.vs[j].e.n = DefName(c.vs[i])

DataVarData(c, i) == [read |-> Marked(c, i, "var_get"), written |-> Marked(c, i, "var_set")]

MapData(c, i) ==
    [insert |-> Marked(c, i, "map_insert"), set |-> Marked(c, i, "map_set"),
     get |-> Marked(c, i, "map_get"), delete |-> Marked(c, i, "map_delete")]
MapIsUsed(d) == d.insert \/ (d.set /\ (d.get \/ d.delete))

\* Mutant: a definition counts as a call.
PrivateCalledOrDefined(c, i) ==
    \E j \in Entries(c, {"define_private"}) : DefName(c.vs[j]) = DefName(c.vs[i])
PrivateCalled(c, i) ==
    \/ \E j \in Entries(c, {"call_user_defined"}) : j > i /\ c.vs[j].e.s[1].n = DefName(c.vs[i])
    \/ \E k \in {"map", "fold", "filter"} : Marked(c, i, k)

Minted(c, i) == Marked(c, i, IF c.vs[i].k = "define_ft" THEN "ft_mint" ELSE "nft_mint")

\* process_symbolic_expr: is the trait named anywhere in a type.
RECURSIVE MentionsTrait(_, _)
MentionsTrait(e, name) ==
    CASE e.t = "trait" -> e.n = name
      [] e.t = "list"  -> \E i \in 1..Len(e.s) : MentionsTrait(e.s[i], name)
      [] OTHER -> FALSE

Params(v) ==
    LET sig == Arg(v.e, 1).s IN
    IF Len(sig) > 1 /\ match_pairs_list(Tail(sig)) THEN Tail(sig) ELSE <<>>
TraitInParams(c, i, k) ==
    \E j \in Entries(c, {k}) : j > i /\
        \E q \in 1..Len(Params(c.vs[j])) : MentionsTrait(Params(c.vs[j])[q].s[2], DefName(c.vs[i]))
ImportedTraitData(c, i) ==
    [public |-> TraitInParams(c, i, "define_public"),
     read_only |-> TraitInParams(c, i, "define_read_only"),
     private |-> TraitInParams(c, i, "define_private"),
     declare |-> \E j \in Entries(c, {"define_trait"}) : j > i /\
                     \E q \in 2..NArgs(c.vs[j].e) : MentionsTrait(Arg(c.vs[j].e, q), DefName(c.vs[i]))]
TraitIsUsed(d) == d.declare \/ d.public \/ d.read_only

\* The bindings of the contract: the parameters of functions and the names of lets, each with
\* the path it is declared at, the one whose line an annotation has to precede, that of its type or
\* value, and that of the expression that it is active in.
Bindings(c) ==
    UNION {LET v == c.vs[i] IN
           CASE v.k \in Fns ->
                  {[kind |-> "FunctionArg", name |-> Params(v)[q].s[1].n,
                    p |-> v.p \o <<2, q + 1, 1>>, span |-> v.p \o <<2, q + 1, 1>>,
                    expr |-> v.p \o <<2, q + 1, 2>>, scope |-> v.p \o <<3>>] : q \in 1..Len(Params(v))}
             [] v.k = "let" /\ match_pairs(Arg(v.e, 1)) ->
                  {[kind |-> "LetBinding", name |-> Arg(v.e, 1).s[q].s[1].n,
                    p |-> v.p \o <<2, q, 1>>, span |-> v.p \o <<2, q, 2>>,
                    expr |-> v.p \o <<2, q, 2>>, scope |-> v.p] : q \in 1..Len(Arg(v.e, 1).s)}
             [] OTHER -> {} : i \in 1..Len(c.vs)}
BindingUsed(c, b) ==
    \E j \in Entries(c, {"atom"}) : c.vs[j].e.n = b.name /\ Within(c.vs[j].p, b.scope)

---------------------------------------------------------------------------
(* The passes on what is never used.                                       *)

\* The entries that neither their name nor an annotation exempts.
Unexempt(c, kinds, lint) ==
    {i \in Entries(c, kinds) : /\ ~ Allowed(c, c.vs[i].p, lint)
                               /\ ~ is_explicitly_unused(DefName(c.vs[i]))}

UnusedConst(c) ==
    {Diag("unused_const", c.vs[i].p, "unused", Remove) :
     i \in {j \in Unexempt(c, {"define_constant"}, "unused_const") : ~ ConstantUsed(c, j)}}

UnusedDataVar(c) ==
    {LET d == DataVarData(c, i) IN
     CASE d.read    -> Diag("unused_data_var", c.vs[i].p, "unset", NoFix)
       [] d.written -> Diag("unused_data_var", c.vs[i].p, "unread", Remove)
       [] OTHER     -> Diag("unused_data_var", c.vs[i].p, "unused", Remove) :
     i \in {j \in Unexempt(c, {"define_data_var"}, "unused_data_var") :
            ~ (DataVarData(c, j).read /\ DataVarData(c, j).written)}}

UnusedMap(c) ==
    {LET d == MapData(c, i) IN
     CASE d.get /\ ~ d.set -> Diag("unused_map", c.vs[i].p, "unset", NoFix)
       [] ~ d.get /\ d.set -> Diag("unused_map", c.vs[i].p, "unread", NoFix)
       [] OTHER            -> Diag("unused_map", c.vs[i].p, "unused", Remove) :
     i \in {j \in Unexempt(c, {"define_map"}, "unused_map") : ~ MapIsUsed(MapData(c, j))}}

UnusedPrivateFn(c) ==
    {Diag("unused_private_fn", c.vs[i].p, "unused", Remove) :
     i \in {j \in Unexempt(c, {"define_private"}, "unused_private_fn") :
            /\ ~ PrivateCalled(c, j)
            /\ NoteAt(c, c.vs[j].p).kind # "env"}}

UnusedToken(c) ==
    {Diag("unused_token", c.vs[i].p, "unused", Remove) :
     i \in {j \in Unexempt(c, {"define_ft", "define_nft"}, "unused_token") : ~ Minted(c, j)}}

UnusedTrait(c) ==
    {Diag("unused_trait", c.vs[i].p,
          IF ImportedTraitData(c, i).private THEN "private_only" ELSE "unused", Remove) :
     i \in {j \in Unexempt(c, {"use_trait"}, "unused_trait") :
            ~ TraitIsUsed(ImportedTraitData(c, j))}}

UnusedBinding(c) ==
    {Diag("unused_binding", b.p, b.kind, NoFix) :
     b \in {x \in Bindings(c) : /\ ~ BindingUsed(c, x)
                                /\ ~ Allowed(c, x.span, "unused_binding")
                                /\ ~ is_explicitly_unused(x.name)}}

---------------------------------------------------------------------------
(* The passes on names.                                                    *)

Miscased(c, kinds, lint, Fits(_)) ==
    {Diag(lint, c.vs[i].p, "case", NoFix) :
     i \in {j \in Entries(c, kinds) : /\ ~ Allowed(c, c.vs[j].p, lint)
                                      /\ ~ Fits(NameClass[DefName(c.vs[j])])}}
KebabOrUnused(s) == match_kebab_case(strip_unused_suffix(s))

CaseConst(c)   == Miscased(c, {"define_constant"}, "case_const", match_screaming_snake_case)
CaseDataVar(c) == Miscased(c, {"define_data_var"}, "case_data_var", KebabOrUnused)
CaseFn(c)      == Miscased(c, Fns, "case_fn", KebabOrUnused)
CaseMap(c)     == Miscased(c, {"define_map"}, "case_map", KebabOrUnused)
CaseToken(c)   == Miscased(c, {"define_ft", "define_nft"}, "case_token", KebabOrUnused)
CaseTrait(c)   == Miscased(c, {"define_trait", "use_trait"}, "case_trait", KebabOrUnused)
CaseBinding(c) ==
    {Diag("case_binding", b.expr, b.kind, NoFix) :
     b \in {x \in Bindings(c) : /\ ~ Allowed(c, x.span, "case_binding")
                                /\ ~ KebabOrUnused(NameClass[x.name])}}

\* Both checks of the ERR_ constants: the value is an error, and no earlier one has the same value.
ErrorConst(c) ==
    LET cand == {i \in Entries(c, {"define_constant"}) :
                   /\ DefName(c.vs[i]) \in ErrNames
                   /\ ~ Allowed(c, c.vs[i].p, "error_const")
                   /\ NArgs(c.vs[i].e) >= 2}
        value(i) == Arg(c.vs[i].e, 2)
        errs == {i \in cand : Head1(value(i)) = "err"}
    IN {Diag("error_const", c.vs[i].p, "not_err", NoFix) : i \in cand \ errs} \cup
       {Diag("error_const", c.vs[i].p, "duplicate", NoFix) :
        i \in {j \in errs : NArgs(value(j)) >= 1 /\
                  \E q \in errs : q < j /\ NArgs(value(q)) >= 1 /\ Arg(value(q), 1) = Arg(value(j), 1)}}

---------------------------------------------------------------------------
(* The passes on single expressions.                                       *)

AtBlock(c) ==
    IF c.version >= 5 THEN {}
    ELSE PerVisit(c, "at_block", {"at_block"}, LAMBDA v : Say("at_block", NoFix))

Panic(c) ==
    PerVisit(c, "panic", {"unwrap_panic", "unwrap_err_panic"}, LAMBDA v : Say(v.k, NoFix))

\* get_sequence_max_len: the type checker's bound on the length of a sequence, or none (-1).
RECURSIVE SequenceMaxLen(_)
SequenceMaxLen(e) ==
    CASE IsLit(e, "buff")      -> e.v
      [] Head1(e) = "list"     -> NArgs(e)
      [] Head1(e) = "concat" /\ NArgs(e) = 2 -> SequenceMaxLen(Arg(e, 1)) + SequenceMaxLen(Arg(e, 2))
      [] OTHER -> -1
UnnecessaryAsMaxLen(c) ==
    PerVisit(c, "unnecessary_as_max_len", {"as_max_len"},
             LAMBDA v : LET n == SequenceMaxLen(Arg(v.e, 1))
                        IN IF n >= 0 /\ n <= Arg(v.e, 2).v THEN Say("fits", NoFix) ELSE {})

Renames == {[old |-> "with-stacking", since |-> 6]}
UserDefined(c) == {DefName(c.vs[i]) : i \in Entries(c, Fns)}
RenamedBuiltin(c) ==
    PerVisit(c, "renamed_builtin", {"call_user_defined"},
             LAMBDA v : IF \E r \in Renames : /\ r.old = v.e.s[1].n
                                               /\ c.version >= r.since
                                               /\ r.old \notin UserDefined(c)
                        THEN Say("renamed", NoFix) ELSE {})

\* The user's functions are counted when they are visited; a call of one that is not known yet is
\* kept until the end, so that both are compared with the same number of parameters.
ParamCount(c, name) ==
    LET defs == {i \in Entries(c, Fns) : DefName(c.vs[i]) = name}
    IN IF defs = {} THEN -1 ELSE Len(Params(c.vs[CHOOSE i \in defs : TRUE]))
BuiltinCounts == [map_set |-> 3, map_insert |-> 3, map_delete |-> 2]
CallChecker(c) ==
    PerVisit(c, "call_checker", {"call_user_defined"} \cup DOMAIN BuiltinCounts,
             LAMBDA v : LET n == IF v.k = "call_user_defined" THEN ParamCount(c, v.e.s[1].n)
                                 ELSE BuiltinCounts[v.k]
                        IN IF n # -1 /\ n # NArgs(v.e) THEN Say("arguments", NoFix) ELSE {})

---------------------------------------------------------------------------
(* flatten_variadic.rs                                                     *)

Associative(version) ==
    {"+", "*", "and", "or", "begin", "bit-and", "bit-or", "bit-xor"}
      \cup (IF version >= 6 THEN {"concat"} ELSE {})
\* Merge the inner arguments into the outer call.
Flattened(e) ==
    LET f == Head1(e)
        F[n \in 0..NArgs(e)] ==
            IF n = 0 THEN <<>>
            ELSE F[n - 1] \o (IF Head1(Arg(e, n)) = f THEN Tail(Arg(e, n).s) ELSE <<Arg(e, n)>>)
    IN Call(f, F[NArgs(e)])
FlattenVariadic(c) ==
    PerVisit(c, "flatten_variadic", {"arithmetic", "lazy_logical", "bitwise", "begin", "concat"},
             LAMBDA v : IF /\ Head1(v.e) \in Associative(c.version)
                           /\ \E i \in 1..NArgs(v.e) : Head1(Arg(v.e, i)) = Head1(v.e)
                        THEN Say("nested", Replace(Flattened(v.e))) ELSE {})

---------------------------------------------------------------------------
(* noop.rs                                                                 *)

Args(e) == Tail(e.s)
IsNumber(e) == IsLit(e, "int") \/ IsLit(e, "uint")
InRange(ty, n) == IF ty = "uint" THEN n \in 0..(2 * MaxInt + 1) ELSE n \in (-(MaxInt + 1))..MaxInt

\* SplitOperands: the checked sum or product of the literals.  An overflow leaves no accumulator,
\* and the next literal starts it again.
NoAcc == [ty |-> "none", n |-> 0]
Operation(op, a, b) == IF op = "add" THEN a + b ELSE a * b
Accumulate(args, op) ==
    LET F[i \in 0..Len(args)] ==
            IF i = 0 THEN NoAcc
            ELSE LET a == F[i - 1]
                     x == args[i]
                 IN CASE ~ IsNumber(x)  -> a
                      [] IsNumber(x) /\ a.ty = "none" -> [ty |-> x.ty, n |-> x.v]
                      [] IsNumber(x) /\ a.ty \notin {"none", x.ty} -> [ty |-> "error", n |-> 0]
                      [] OTHER -> IF InRange(x.ty, Operation(op, a.n, x.v))
                                  THEN [ty |-> x.ty, n |-> Operation(op, a.n, x.v)] ELSE NoAcc
    IN F[Len(args)]
sum_of(args) == Accumulate(args, "add")
product_of(args) == Accumulate(args, "mul")
non_constants(args) == SelectSeq(args, LAMBDA x : ~ IsNumber(x))
has_constants(args) == \E i \in 1..Len(args) : IsNumber(args[i])
AccIs(acc, n) == acc.ty \in {"int", "uint"} /\ acc.n = n

\* format_replacement_suggestion
Remaining(f, args) == Replace(IF Len(args) = 1 THEN args[1] ELSE Call(f, args))

True == Atom("true")
False == Atom("false")
IsBool(e) == e \in {True, False}
BoolExpr(b) == IF b THEN True ELSE False

check_bool_comparison(args) ==
    IF Len(args) # 2 \/ ~ \E i \in 1..2 : IsBool(args[i]) THEN {}
    ELSE LET l == IF IsBool(args[1]) THEN 1 ELSE 2
             r == args[3 - l]
         IN CASE IsBool(r)        -> Say("two_literals", Replace(BoolExpr(args[l] = r)))
              [] ~ IsBool(r) /\ args[l] = True -> Say("true", Replace(r))
              [] OTHER            -> Say("false", Replace(Call("not", <<r>>)))

check_double_negation(args) ==
    IF Head1(args[1]) = "not" /\ NArgs(args[1]) >= 1
    THEN Say("double_negation", Replace(Arg(args[1], 1))) ELSE {}

check_lazy_logical_operands(f, args) ==
    LET absorber == IF f = "and" THEN False ELSE True
        identity == IF f = "and" THEN True ELSE False
        rest == SelectSeq(args, LAMBDA x : x # identity)
    IN (IF \E i \in 1..Len(args) : args[i] = absorber THEN Say("absorber", Replace(absorber)) ELSE {})
       \cup (IF rest # <<>> /\ Len(rest) < Len(args) THEN Say("identity", Remaining(f, rest)) ELSE {})

check_additive_identity(args) ==
    IF has_constants(args) /\ non_constants(args) # <<>> /\ AccIs(sum_of(args), 0)
    THEN Say("add_zero", Remaining("+", non_constants(args))) ELSE {}

\* Mutant: the first operand is summed with the others.
check_subtractive_all(args) ==
    IF has_constants(args) /\ non_constants(args) # <<>> /\ AccIs(sum_of(args), 0)
    THEN Say("subtract_zero", Remaining("-", non_constants(args))) ELSE {}
check_subtractive_identity(args) ==
    IF has_constants(Tail(args)) /\ AccIs(sum_of(Tail(args)), 0)
    THEN Say("subtract_zero", Remaining("-", <<args[1]>> \o non_constants(Tail(args)))) ELSE {}

check_multiply_identity_and_absorb(args) ==
    LET acc == product_of(args) IN
    CASE ~ has_constants(args) \/ non_constants(args) = <<>> -> {}
      [] AccIs(acc, 0) -> Say("multiply_zero", Replace(Lit(acc.ty, 0)))
      [] AccIs(acc, 1) -> Say("multiply_one", Remaining("*", non_constants(args)))
      [] OTHER -> {}

check_divide_identity_and_zero(args) ==
    LET acc == product_of(Tail(args)) IN
    (IF IsNumber(args[1]) /\ args[1].v = 0 THEN Say("zero_dividend", Replace(args[1])) ELSE {})
      \cup CASE ~ has_constants(Tail(args)) -> {}
             [] AccIs(acc, 0) -> Say("divide_zero", NoFix)
             [] AccIs(acc, 1) -> Say("divide_one", Remaining("/", <<args[1]>> \o non_constants(Tail(args))))
             [] OTHER -> {}

NoopOf(v) ==
    LET f == Head1(v.e)
        args == Args(v.e)
        single == IF Len(args) = 1 THEN Replace(args[1]) ELSE NoFix
    IN CASE v.k = "comparison" /\ Len(args) < 2 ->
              IF f = "is-eq" THEN Say("single_is_eq", Replace(True)) ELSE Say("single", single)
         [] v.k = "comparison" /\ Len(args) >= 2 -> IF f = "is-eq" THEN check_bool_comparison(args) ELSE {}
         [] v.k = "logical" -> check_double_negation(args)
         [] v.k = "lazy_logical" -> IF Len(args) < 2 THEN Say("single", single)
                                    ELSE check_lazy_logical_operands(f, args)
         [] OTHER -> (CASE f \in {"sqrti", "log2"} -> {}
                        [] f \notin {"sqrti", "log2"} /\ Len(args) < 2 -> Say("single", single)
                        [] f = "+" /\ Len(args) >= 2 -> check_additive_identity(args)
                        [] f = "-" /\ Len(args) >= 2 -> check_subtractive_identity(args)
                        [] f = "*" /\ Len(args) >= 2 -> check_multiply_identity_and_absorb(args)
                        [] f = "/" /\ Len(args) >= 2 -> check_divide_identity_and_zero(args)
                        [] OTHER -> {})
Noop(c) == PerVisit(c, "noop", {"comparison", "arithmetic", "logical", "lazy_logical"}, NoopOf)

---------------------------------------------------------------------------
(* unnecessary_public.rs                                                   *)

Writes == {"var_set", "map_set", "map_insert", "map_delete", "stx_burn", "stx_transfer", "ft_burn",
           "ft_transfer", "ft_mint", "nft_burn", "nft_transfer", "nft_mint"}
\* Does a visit set found_side_effect, given the functions known to have effects.
SideEffect(v, fns) ==
    \/ v.k \in Writes \cup {"dynamic_contract_call"}
    \/ v.k = "call_user_defined" /\ v.e.s[1].n \in fns
    \/ v.k \in {"map", "fold", "filter"} /\ AtomName(Arg(v.e, 1)) \in fns
    \/ v.k = "static_contract_call" /\ <<Arg(v.e, 1).v, AtomName(Arg(v.e, 2))>> \notin ReadOnlyTargets
EffectBelow(c, p, fns) == \E i \in 1..Len(c.vs) : Within(c.vs[i].p, p) /\ SideEffect(c.vs[i], fns)

\* fns_with_side_effects after the first n items.  Read-only functions and the other definitions are
\* not entered; an effect outside of a function ends the traversal.
SideEffects(c, n) ==
    LET F[i \in 0..n] ==
            IF i = 0 THEN [fns |-> {}, ended |-> FALSE]
            ELSE LET e == c.items[i].e
                     prev == F[i - 1]
                 IN CASE prev.ended -> prev
                      [] Head1(e) \in {"define-private", "define-public"} /\ ~ prev.ended ->
                           IF EffectBelow(c, <<i, 3>>, prev.fns)
                           THEN [prev EXCEPT !.fns = @ \cup {AtomName(Arg(e, 1).s[1])}] ELSE prev
                      [] Head1(e) \in DOMAIN DefineKinds \ {"define-private", "define-public"}
                         /\ ~ prev.ended -> prev
                      [] OTHER -> [prev EXCEPT !.ended = EffectBelow(c, <<i>>, prev.fns)]
    IN F[n]
UnnecessaryPublic(c) ==
    {Diag("unnecessary_public", <<i>>, "read_only",
          Replace(List(<<Atom("define-read-only")>> \o Tail(c.items[i].e.s)))) :
     i \in {j \in 1..Len(c.items) :
            /\ Head1(c.items[j].e) = "define-public"
            /\ ~ SideEffects(c, j).ended
            /\ AtomName(Arg(c.items[j].e, 1).s[1]) \notin SideEffects(c, j).fns
            /\ ~ Allowed(c, <<j>>, "unnecessary_public")}}

---------------------------------------------------------------------------
(* unnecessary_tuple.rs                                                    *)

is_single_field_tuple(e) == Head1(e) = "tuple" /\ NArgs(e) = 1
\* The types a definition is written with: pairs of a path and a type.
ListOf(e) == IF IsList(e) THEN e.s ELSE <<>>
TraitTypes(e) ==
    UNION {UNION {LET sig == ListOf(ListOf(Arg(e, i))[j])
                      q == <<i + 1, j>>
                      args == IF Len(sig) >= 2 THEN ListOf(sig[2]) ELSE <<>>
                      resp == IF Len(sig) >= 3 THEN sig[3] ELSE DefaultExpr
                  IN {<<q \o <<2, a>>, args[a]>> : a \in 1..Len(args)}
                       \cup {<<q \o <<3>>, resp>>}
                       \cup (IF Head1(resp) = "response"
                             THEN {<<q \o <<3, r>>, resp.s[r]>> : r \in 2..Len(resp.s)} ELSE {}) :
                  j \in 1..Len(ListOf(Arg(e, i)))} : i \in 2..NArgs(e)}
TypesOf(v) ==
    CASE v.k \in {"define_data_var", "define_nft"} -> {<<<<3>>, Arg(v.e, 2)>>}
      [] v.k = "define_map" -> {<<<<3>>, Arg(v.e, 2)>>, <<<<4>>, Arg(v.e, 3)>>}
      [] v.k = "define_trait" -> TraitTypes(v.e)
      [] OTHER -> {<<<<2, q + 1, 2>>, Params(v)[q].s[2]>> : q \in 1..Len(Params(v))}

\* A value in an argument of merge has to be a tuple; what is printed keeps its shape.
TupleIsExpected(c, v) ==
    \E i \in 1..Len(c.vs) :
        \/ c.vs[i].k = "merge" /\ v.p \in {c.vs[i].p \o <<2>>, c.vs[i].p \o <<3>>}
        \/ c.vs[i].k = "print" /\ Within(v.p, c.vs[i].p)
FieldNames(e) == {AtomName(Arg(e, i).s[1]) : i \in 1..NArgs(e)}
UnnecessaryTuple(c) ==
    UNION {{Diag("unnecessary_tuple", v.p \o x[1], "type", NoFix) :
            x \in {y \in TypesOf(v) : is_single_field_tuple(y[2])}} :
           v \in {c.vs[i] : i \in {j \in Entries(c, Fns \cup {"define_data_var", "define_map", "define_nft",
                                                         "define_trait"}) :
                                  ~ Allowed(c, c.vs[j].p, "unnecessary_tuple")}}}
      \cup PerVisit(c, "unnecessary_tuple", {"tuple"},
                    LAMBDA v : IF /\ ~ TupleIsExpected(c, v)
                                  /\ match_tuple(v.e)
                                  /\ Cardinality(FieldNames(v.e)) = 1
                               THEN Say("value", NoFix) ELSE {})

-----------------------------------------------------------------------------
(* run_analysis and its settings (analysis/mod.rs, linter.rs): which of the    *)
(* lints run on a contract, at which level, and whether what they find rejects *)
(* it.                                                                         *)

CorrectnessLints == {"call_checker"}
PerfLints == {"flatten_variadic", "unnecessary_as_max_len", "unnecessary_public", "unnecessary_tuple"}
SafetyLints == {"at_block", "error_const", "noop", "panic", "renamed_builtin"}
StyleLints == {"case_binding", "case_const", "case_data_var", "case_fn", "case_map", "case_token",
               "case_trait"}
UnusedLints == {"unused_const", "unused_data_var", "unused_binding", "unused_map", "unused_private_fn",
                "unused_token", "unused_trait"}
LintNames == CorrectnessLints \cup PerfLints \cup SafetyLints \cup StyleLints \cup UnusedLints

LintGroup ==
    [all |-> LintNames, correctness |-> CorrectnessLints, perf |-> PerfLints, safety |-> SafetyLints,
     style |-> StyleLints, unused |-> UnusedLints]

\* insert_into: the lints of a group at a level, whatever they were at.
InsertInto(map, lints, level) == As(level, lints) @@ map

apply_defaults ==
    As("warning", UnusedLints \cup PerfLints \cup SafetyLints) @@ As("note", StyleLints) @@
    As("error", CorrectnessLints)

\* LintLevel::apply_to: off forgets the lints, on keeps the level of those that have one.
apply_to(level, lints, map) ==
    CASE level = "ignore" -> [l \in DOMAIN map \ lints |-> map[l]]
      [] level = "on"     -> map @@ [l \in lints |-> apply_defaults[l]]
      [] OTHER            -> InsertInto(map, lints, level)

\* Settings::try_from: the groups and then the lints of the file, in the order of the file.  The
\* correctness lints are errors after all.
SettingsFrom(file) ==
    LET G[i \in 0..Len(file.groups)] ==
            IF i = 0 THEN apply_defaults
            ELSE apply_to(file.groups[i][2], LintGroup[file.groups[i][1]], G[i - 1])
        L[i \in 0..Len(file.lints)] ==
            IF i = 0 THEN G[Len(file.groups)]
            ELSE apply_to(file.lints[i][2], {file.lints[i][1]}, L[i - 1])
    IN [lints |-> InsertInto(L[Len(file.lints)], CorrectnessLints, "error"),
        include |-> file.include, exclude |-> file.exclude]

\* The patterns are the sets of paths that they match.
should_analyze(settings, path) ==
    /\ settings.include = {} \/ \E p \in settings.include : path \in p
    /\ \A p \in settings.exclude : path \notin p

\* AnalysisPassFn::from
Pass(lint, c) ==
    CASE lint = "at_block" -> AtBlock(c)             [] lint = "call_checker" -> CallChecker(c)
      [] lint = "case_binding" -> CaseBinding(c)     [] lint = "case_const" -> CaseConst(c)
      [] lint = "case_data_var" -> CaseDataVar(c)    [] lint = "case_fn" -> CaseFn(c)
      [] lint = "case_map" -> CaseMap(c)             [] lint = "case_token" -> CaseToken(c)
      [] lint = "case_trait" -> CaseTrait(c)         [] lint = "error_const" -> ErrorConst(c)
      [] lint = "flatten_variadic" -> FlattenVariadic(c) [] lint = "noop" -> Noop(c)
      [] lint = "panic" -> Panic(c)                  [] lint = "renamed_builtin" -> RenamedBuiltin(c)
      [] lint = "unnecessary_as_max_len" -> UnnecessaryAsMaxLen(c)
      [] lint = "unnecessary_public" -> UnnecessaryPublic(c)
      [] lint = "unnecessary_tuple" -> UnnecessaryTuple(c)
      [] lint = "unused_const" -> UnusedConst(c)     [] lint = "unused_data_var" -> UnusedDataVar(c)
      [] lint = "unused_binding" -> UnusedBinding(c) [] lint = "unused_map" -> UnusedMap(c)
      [] lint = "unused_private_fn" -> UnusedPrivateFn(c)
      [] lint = "unused_token" -> UnusedToken(c)     [] OTHER -> UnusedTrait(c)

\* Every lint that is on runs, after a rejection too; only the call checker rejects, at level error.
AnalysisResult(found, settings) ==
    [diagnostics |-> found,
     rejected |-> \E d \in found : d.lint = "call_checker" /\ settings.lints[d.lint] = "error"]
run_analysis(c, settings) == AnalysisResult(UNION {Pass(l, c) : l \in DOMAIN settings.lints}, settings)
=============================================================================
