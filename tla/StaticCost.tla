----------------------------- MODULE StaticCost -----------------------------
(***************************************************************************)
(* The static cost analysis (clarity-static-cost): for every function of a *)
(* contract the least and the most that a call can cost.  The analysis     *)
(* builds a tree of costs, sums it over the branches, and analyses the     *)
(* contracts that are called, each once.                                   *)
(* A type is written as in the contract; the numbers of the cost functions *)
(* are the VM's, of which only what they depend on is kept.                *)
(***************************************************************************)
EXTENDS Clarity, FiniteSets
LOCAL INSTANCE FiniteSetsExt

\* The largest cost; sums and products stop there.
CONSTANT MaxCost

Dims == {"runtime", "reads", "writes", "read_length", "write_length"}
ZeroCost == [d \in Dims |-> 0]
Sat(n) == IF n > MaxCost THEN MaxCost ELSE n
saturating_add_cost(a, b) == [d \in Dims |-> Sat(a[d] + b[d])]
multiply_cost(a, k) == [d \in Dims |-> Sat(a[d] * k)]

\* A range of costs.
Zero == [min |-> ZeroCost, max |-> ZeroCost]
Plus(a, b) == [min |-> saturating_add_cost(a.min, b.min), max |-> saturating_add_cost(a.max, b.max)]
Times(a, k) == [min |-> multiply_cost(a.min, k), max |-> multiply_cost(a.max, k)]
\* The envelope of a set of costs.
Envelope(costs) ==
    IF costs = {} THEN Zero
    ELSE [min |-> [d \in Dims |-> Min({c[d] : c \in costs})], max |-> [d \in Dims |-> Max({c[d] : c \in costs})]]

\* The functions that are priced by another one's table.
PricedAs ==
    As("map-set", {"map-insert", "map-delete"}) @@ As("element-at?", {"element-at"}) @@
    As("index-of?", {"index-of"}) @@ As("to-int", {"to-uint"}) @@ As("xor", {"bit-xor"}) @@
    As("stx-transfer?", {"stx-burn?"}) @@
    As("get-block-info?", {"get-stacks-block-info?", "get-tenure-info?"}) @@
    As("unimplemented", {"with-stx", "with-ft", "with-nft", "with-stacking", "with-all-assets-unsafe",
                         "with-staking", "with-pox"})
from_native_function(f) == IF f \in DOMAIN PricedAs THEN PricedAs[f] ELSE f

\* A cost function of the VM at a size.
StorageOf ==
    As([reads |-> 1], {"var-get", "map-get?", "LoadContract", "ft-get-supply", "ft-get-balance",
                       "nft-get-owner?", "stx-get-balance", "stx-account", "get-block-info?",
                       "get-burn-block-info?", "at-block", "contract-of", "contract-hash?"}) @@
    As([reads |-> 1, writes |-> 1], {"var-set", "map-set", "ft-transfer?", "stx-transfer?",
                                     "stx-transfer-memo?", "nft-transfer?", "nft-mint?", "nft-burn?"}) @@
    As([reads |-> 2, writes |-> 2], {"ft-mint?", "ft-burn?"})
BytesRead == {"var-get", "map-get?", "LoadContract"}
BytesWritten == {"var-set", "map-set", "nft-mint?"}
Accesses(table, f) == IF f \in DOMAIN table THEN table[f] ELSE <<>>
CostOf(f, n, fixed) ==
    LET own(d) == IF d \in DOMAIN fixed THEN fixed[d] ELSE 0
        rest == [reads |-> own("reads"), writes |-> own("writes"),
                 read_length |-> IF f \in BytesRead THEN n ELSE 0,
                 write_length |-> IF f \in BytesWritten THEN n ELSE 0]
    IN [d \in Dims |-> IF d # "runtime" THEN rest[d]
                       ELSE IF f = "LookupFunction" THEN 1
                       ELSE IF f \in {"LookupVariableSize", "LookupVariableDepth", "InnerTypeCheck"} THEN n
                       ELSE n + 1]
eval_for_epoch(f, n) == CostOf(f, n, Accesses(StorageOf, f))
CostAt(f, lo, hi) == [min |-> eval_for_epoch(f, lo), max |-> eval_for_epoch(f, hi)]
CostAtSize(f, n) == IF f = "unimplemented" THEN Zero ELSE CostAt(f, n, n)
FnLookup == CostAt("LookupFunction", 0, 0)
add_lookup_cost(c) == Plus(c, FnLookup)

---------------------------------------------------------------------------
(* Types and their sizes.                                                  *)

NoType == [t |-> "none"]
ListType(n, of) == Call("list", <<Lit("uint", n), of>>)
IsListType(ty) == Head1(ty) = "list"
TypeLen(ty) == ty.s[2].v
IsTrait(ty) == ty.t = "trait"

\* TypeSignature::size, min_size and max_serialized_size.
RECURSIVE TypeSize(_), TypeMin(_), TypeStored(_)
Fields(ty, size(_)) == SizeSum(ty.s, LAMBDA x : IF IsList(x) THEN 2 + size(x.s[2]) ELSE 0)
TypeSize(ty) == CASE IsListType(ty) -> 5 + TypeLen(ty) * TypeSize(ty.s[3])
                  [] Head1(ty) = "tuple" -> Fields(ty, TypeSize)
                  [] IsTrait(ty) -> TypeBytes["principal"]
                  [] OTHER -> TypeBytes[ty.n]
TypeMin(ty) == CASE IsListType(ty) -> 5
                 [] Head1(ty) = "tuple" -> Fields(ty, TypeMin)
                 [] OTHER -> TypeSize(ty)
TypeStored(ty) == CASE IsListType(ty) -> 5 + TypeLen(ty) * TypeStored(ty.s[3])
                    [] Head1(ty) = "tuple" -> 5 + Fields(ty, TypeStored)
                    [] ty = Atom("bool") -> 1
                    [] OTHER -> TypeSize(ty) + 1
serialized_size_range(ty) ==
    LET max == TypeStored(ty)
        raw == TypeMin(ty)
    IN <<IF raw + 1 = max THEN max ELSE Min({raw, max}), max>>

\* Literals: a value in memory, and serialized.
IsValue(e) == e.t = "lit"
LitBytes(e) == CASE e.ty = "contract" -> TypeBytes["principal"] [] e.ty = "buff" -> e.v + 4 [] OTHER -> 16
LitStored(e) == LitBytes(e) + 1
literal_type_of(e) ==
    CASE e.ty = "contract" -> Atom("principal") [] e.ty = "buff" -> Call("buff", <<Lit("uint", e.v)>>)
      [] OTHER -> Atom(e.ty)

\* The parameters in scope: their types and the values that are known of them, and the types of the
\* maps and data variables of the contract.
UserArgs(types, known, data) == [types |-> types, known |-> known, data |-> data]

\* infer_type_from_expression_with_args: names in scope, tuples and lists, else a written type.
RECURSIVE infer_type(_, _)
infer_tuple(e, ua) ==
    LET field(i) == infer_type(e.s[i].s[2], ua) IN
    IF \A i \in 2..Len(e.s) : IsPair(e.s[i]) /\ field(i) # NoType
    THEN List([i \in 1..Len(e.s) |-> IF i = 1 THEN e.s[1] ELSE List(<<e.s[i].s[1], field(i)>>)])
    ELSE NoType
\* The first type and the others have one supertype.
least_supertype(tys) ==
    IF \A a, b \in tys : a = b THEN CHOOSE a \in tys : TRUE
    ELSE IF \A a, b \in tys : IsListType(a) /\ IsListType(b) /\ a.s[3] = b.s[3]
    THEN CHOOSE a \in tys : \A b \in tys : TypeLen(b) <= TypeLen(a)
    ELSE NoType
infer_list(e, ua) ==
    LET tys == {infer_type(Arg(e, i), ua) : i \in 1..NArgs(e)}
        of == least_supertype(tys)
    IN IF tys = {} \/ NoType \in tys \/ of = NoType THEN NoType ELSE ListType(NArgs(e), of)
infer_type(e, ua) ==
    CASE IsValue(e) -> literal_type_of(e)
      [] e.t = "atom" -> IF e.n \in DOMAIN ua.types THEN ua.types[e.n]
                         ELSE IF e.n \in DOMAIN TypeBytes THEN e ELSE NoType
      [] Head1(e) = "tuple" -> infer_tuple(e, ua)
      [] Head1(e) = "list" -> infer_list(e, ua)
      [] OTHER -> NoType

is_narrower_type(actual, declared) ==
    /\ \E k \in {"list", "buff", "string-ascii", "string-utf8"} : Head1(actual) = k /\ Head1(declared) = k
    /\ TypeLen(actual) < TypeLen(declared)

calculate_variable_lookup_cost_from_type(ty, depth, exact) ==
    Plus(CostAt("LookupVariableSize", IF exact THEN TypeSize(ty) ELSE TypeMin(ty), TypeSize(ty)),
         CostAt("LookupVariableDepth", depth, depth))

---------------------------------------------------------------------------
(* special_costs: natives whose cost depends on their arguments.           *)

\* get_argument_sizes: of a literal, a parameter or a reserved name; none when it is something else.
Unsized == <<-1, -1>>
get_argument_sizes(e, ua, serialized) ==
    CASE IsValue(e) -> LET n == IF serialized THEN LitStored(e) ELSE LitBytes(e) IN <<n, n>>
      [] e.t = "atom" /\ AtomName(e) \in DOMAIN ua.types ->
           LET ty == ua.types[e.n] IN <<TypeMin(ty), IF serialized THEN TypeStored(ty) ELSE TypeSize(ty)>>
      [] e \in {Atom("true"), Atom("false")} -> <<1, 1>>
      [] OTHER -> Unsized
Sizes(args, ua, serialized) ==
    SelectSeq([i \in 1..Len(args) |-> get_argument_sizes(args[i], ua, serialized)], LAMBDA z : z # Unsized)
LitSum(args) == SizeSum(args, LAMBDA x : IF IsValue(x) THEN LitBytes(x) ELSE 0)
\* A size when every argument in S is a literal.
WhenLits(args, S, n, otherwise) == IF \A i \in S : i <= Len(args) /\ IsValue(args[i]) THEN n ELSE otherwise

\* From epoch 3.3 a call is charged by its arguments, of which the literals are known.
ArgSizesCount(version) == version >= 4
contract_call_cost(args, version) ==
    IF ArgSizesCount(version) THEN LitSum(SubSeq(args, 3, Len(args))) ELSE 0
cost_append(args) == WhenLits(args, {1, 2}, Max({LitBytes(args[1]), LitBytes(args[2])}), 0)
cost_concat(args, version) ==
    IF version >= 2 THEN WhenLits(args, {1, 2}, args[1].v + args[2].v, 1)
    ELSE WhenLits(args, {1, 2}, LitBytes(args[1]) + LitBytes(args[2]), 0)
cost_slice(args) == WhenLits(args, {1, 2, 3}, IF args[3].v >= args[2].v THEN args[3].v - args[2].v ELSE 0, 0)

\* Comparisons are charged by the smaller side, is-eq by the sum of the sides.
cost_comparison(f, args, ua, version) ==
    LET z == Sizes(SubSeq(args, 1, 2), ua, FALSE)
    IN IF version < 2 \/ z = <<>> THEN CostAt(f, Len(args), Len(args))
       ELSE CostAt(f, Min({z[i][1] : i \in 1..Len(z)}), Min({z[i][2] : i \in 1..Len(z)}))
cost_equals(f, args, ua) ==
    LET z == Sizes(args, ua, TRUE)
    IN IF z = <<>> THEN CostAt(f, Len(args), Len(args))
       ELSE CostAt(f, SizeSum(z, LAMBDA x : x[1]), SizeSum(z, LAMBDA x : x[2]))
\* One argument decides; otherwise is taken when nothing is known of it.
SizedBy(f, args, i, otherwise, ua) ==
    LET z == IF i <= Len(args) THEN get_argument_sizes(args[i], ua, TRUE) ELSE Unsized
    IN IF z = Unsized THEN CostAt(f, otherwise, otherwise) ELSE CostAt(f, z[1], z[2])

resolve_data_var_type(args, ua) ==
    IF args # <<>> /\ AtomName(args[1]) \in DOMAIN ua.data.dvars THEN ua.data.dvars[args[1].n] ELSE NoType
\* The maps of the contract that is analysed as a whole come first.
resolve_map_types(args, ua) ==
    LET x == IF args # <<>> THEN AtomName(args[1]) ELSE DefaultName
    IN IF x \in DOMAIN ua.data.top.maps THEN ua.data.top.maps[x]
       ELSE IF x \in DOMAIN ua.data.maps THEN ua.data.maps[x] ELSE <<>>
RangeAt(f, ty) ==
    LET range == IF ty = NoType THEN <<0, 0>> ELSE serialized_size_range(ty) IN CostAt(f, range[1], range[2])
cost_fetch_var(args, ua) == RangeAt("var-get", resolve_data_var_type(args, ua))
cost_set_var(args, ua) ==
    LET v == IF Len(args) < 2 THEN DefaultExpr
             ELSE IF AtomName(args[2]) \in DOMAIN ua.known THEN ua.known[args[2].n] ELSE args[2]
    IN CASE IsValue(v) -> CostAtSize("var-set", LitStored(v))
         [] v \in {Atom("true"), Atom("false")} /\ v # args[2] -> CostAtSize("var-set", 1)
         [] OTHER -> RangeAt("var-set", IF AtomName(v) \in DOMAIN ua.types THEN ua.types[v.n]
                                        ELSE resolve_data_var_type(args, ua))
\* The value is charged as an optional; a missing key by the key alone.
cost_fetch_entry(args, ua) ==
    LET kv == resolve_map_types(args, ua)
    IN IF kv = <<>> THEN CostAt("map-get?", 0, 0)
       ELSE CostAt("map-get?", TypeMin(kv[1]), TypeStored(kv[1]) + TypeStored(kv[2]) + 1)
\* infer_tuple_size_from_expression: the sizes of a key or value of which only the text is known.
infer_tuple_size_from_expression(e, ua) ==
    LET ty == infer_type(e, ua) IN IF ty = NoType THEN <<0, 0>> ELSE <<TypeMin(ty), TypeSize(ty)>>
cost_set_entry(args, ua) ==
    LET kv == resolve_map_types(args, ua)
        k == infer_tuple_size_from_expression(args[2], ua)
        v == infer_tuple_size_from_expression(args[3], ua)
    IN IF Len(args) < 3 THEN CostAt("map-set", 0, 0)
       ELSE IF kv = <<>> THEN CostAt("map-set", k[1] + v[1], k[2] + v[2])
       ELSE CostAt("map-set", TypeMin(kv[1]) + TypeMin(kv[2]), TypeStored(kv[1]) + TypeStored(kv[2]) + 1)

Comparisons == {"<", "<=", ">", ">="}
Hashes == {"hash160", "sha256", "sha512", "sha512/256", "keccak256"}
\* The size that the others are charged by.
SpecialSize(f, args, version) ==
    CASE f = "let"   -> IF args # <<>> /\ IsList(args[1]) THEN Len(args[1].s) ELSE 0
      [] f \in {"if", "get"} -> 0
      [] f = "contract-call?" -> contract_call_cost(args, version)
      [] f = "list"  -> LitSum(args)
      [] f = "append" -> cost_append(args)
      [] f = "concat" -> cost_concat(args, version)
      [] f = "slice?" -> cost_slice(args)
      [] f = "replace-at?" -> WhenLits(args, {1}, 1, 0)
      [] f \in {"print", "to-ascii?"} -> WhenLits(args, {1}, LitBytes(args[1]), 0)
      [] OTHER -> Len(args)
get_cost_for_special_function(f, args, ua, version) ==
    CASE f = "var-get"  -> cost_fetch_var(args, ua)
      [] f = "var-set"  -> cost_set_var(args, ua)
      [] f = "map-get?" -> cost_fetch_entry(args, ua)
      [] f \in {"map-set", "map-insert", "map-delete"} -> cost_set_entry(args, ua)
      [] f \in Comparisons -> cost_comparison(f, args, ua, version)
      [] f = "is-eq"    -> cost_equals(f, args, ua)
      [] f = "nft-mint?" -> SizedBy(f, args, 2, 0, ua)
      [] f \in Hashes   -> SizedBy(f, args, 1, Len(args), ua)
      [] OTHER -> CostAtSize(from_native_function(f), SpecialSize(f, args, version))
calculate_function_cost_from_native_function(f, args, ua, version) ==
    add_lookup_cost(get_cost_for_special_function(f, args, ua, version))

---------------------------------------------------------------------------
(* The tree of costs of an expression.  The analysis carries st: the       *)
(* contracts it has analysed or is analysing, its warnings, an error that  *)
(* ends it, and, for the properties alone, where a cost is known to be     *)
(* missing.                                                                *)

Node(k, name, ty, cost, kids) == [k |-> k, name |-> name, ty |-> ty, cost |-> cost, kids |-> kids]
Leaf(k, name, cost) == Node(k, name, NoType, cost, <<>>)
Built(n, st) == [n |-> n, st |-> st]

Warned(st, f, kind, target, fn) == [st EXCEPT !.warnings = @ \cup {<<f, kind, target, fn>>}]
Gap(st, g) == [st EXCEPT !.gaps = @ \cup {g}]

is_function_definition(f) == f \in {"define-public", "define-private", "define-read-only"}
\* The parameters of a definition: their names and types.
FnParams(def) == SubSeq(def.s[2].s, 2, Len(def.s[2].s))
ParamTypes(def) == [i \in 1..Len(FnParams(def)) |-> FnParams(def)[i].s[2]]

\* lookup_let_binding_types: each binding sees the ones before it.
lookup_let_binding_types(bs, ua) ==
    LET F[i \in 0..Len(bs)] ==
            IF i = 0 THEN ua
            ELSE LET prev == F[i - 1]
                     ty == infer_type(bs[i].s[2], prev)
                 IN IF ty = NoType THEN prev ELSE [prev EXCEPT !.types = (bs[i].s[1].n :> ty) @@ @]
    IN F[Len(bs)]

\* "true", "false" or not known.
RECURSIVE try_resolve_constant_bool(_, _)
try_resolve_constant_bool(e, ua) ==
    CASE e.t = "atom" -> IF e.n \in {"true", "false"} THEN e.n
                         ELSE IF e.n \in DOMAIN ua.known /\ ua.known[e.n] \in {Atom("true"), Atom("false")}
                         THEN ua.known[e.n].n ELSE "unknown"
      [] Head1(e) = "not" /\ e.t = "list" ->
           LET b == IF NArgs(e) = 1 THEN try_resolve_constant_bool(Arg(e, 1), ua) ELSE "unknown"
           IN CASE b = "true" -> "false" [] b = "false" -> "true" [] OTHER -> b
      [] OTHER -> "unknown"

\* The length of the first list among the arguments, and 1 when none is known.
ListLens(args, ua) ==
    LET tys == SelectSeq([i \in 1..Len(args) |-> infer_type(args[i], ua)], IsListType)
    IN [i \in 1..Len(tys) |-> TypeLen(tys[i])]
get_map_filter_fold_list_max_len(args, ua) ==
    IF ListLens(args, ua) = <<>> THEN 1 ELSE ListLens(args, ua)[1]

\* The names of parameters are charged where they are used; constants by the types of the contract
\* that is analysed as a whole.
AtomNode(x, ua, depth) ==
    LET known == ua.data.top.vars
        cost(ty) == calculate_variable_lookup_cost_from_type(ty, depth, FALSE)
    IN CASE x \in DOMAIN ua.types -> Node("arg", x, ua.types[x], cost(ua.types[x]), <<>>)
         [] x \notin DOMAIN ua.types /\ x \in DOMAIN known -> Leaf("atom", x, cost(known[x]))
         [] OTHER -> Leaf("atom", x, Zero)

---------------------------------------------------------------------------
(* Sums over the branches.                                                 *)

RECURSIVE calculate_total_cost_with_branching(_)
\* The children in order: after an asserts! either nothing more is evaluated, with its error, or
\* everything, without it.
SumOfChildren(n) ==
    LET total(k) == calculate_total_cost_with_branching(k)
        F[i \in 0..Len(n.kids)] ==
            IF i = 0 THEN [sum |-> n.cost, ended |-> {}]
            ELSE LET prev == F[i - 1]
                     kid == n.kids[i]
                     whole == Plus(prev.sum, total(kid))
                     passed == Plus(prev.sum, kid.cost)
                 IN IF kid.k = "native" /\ kid.name = "asserts!"
                    THEN [sum |-> IF kid.kids = <<>> THEN passed ELSE Plus(passed, total(kid.kids[1])),
                          ended |-> prev.ended \cup {whole.min, whole.max}]
                    ELSE [sum |-> whole, ended |-> prev.ended]
        all == F[Len(n.kids)]
    IN Envelope(all.ended \cup {all.sum.min, all.sum.max})
is_node_branching(n) == n.k = "native" /\ n.name \in {"if", "match"}
\* Mutant: the last branch is left out.
SumOfBranchesMutant(n) ==
    LET base == Plus(n.cost, calculate_total_cost_with_branching(n.kids[1]))
        path(i) == Plus(base, calculate_total_cost_with_branching(n.kids[i]))
    IN IF Len(n.kids) < 3 THEN Zero
       ELSE Envelope(UNION {{path(i).min, path(i).max} : i \in 2..(Len(n.kids) - 1)})
\* The condition, and one of the rest.
SumOfBranches(n) ==
    LET base == Plus(n.cost, calculate_total_cost_with_branching(n.kids[1]))
        path(i) == Plus(base, calculate_total_cost_with_branching(n.kids[i]))
    IN IF Len(n.kids) < 2 THEN Zero
       ELSE Envelope(UNION {{path(i).min, path(i).max} : i \in 2..Len(n.kids)})
calculate_total_cost_with_branching(n) ==
    IF is_node_branching(n) THEN SumOfBranches(n) ELSE SumOfChildren(n)

\* What a call costs before the body: the contract when it is loaded, the application, the types.
compute_function_overhead_costs(bytes, def) ==
    LET tys == ParamTypes(def)
        F[i \in 0..Len(tys)] ==
            IF i = 0 THEN CostAt("UserFunctionApplication", Len(tys), Len(tys))
            ELSE Plus(F[i - 1], CostAt("InnerTypeCheck", TypeMin(tys[i]), TypeSize(tys[i])))
    IN Plus(IF bytes = <<>> THEN Zero ELSE CostAt("LoadContract", bytes[1], bytes[1]), F[Len(tys)])
\* Constants count when they are literals.
compute_contract_data_size(exprs) ==
    SizeSum(exprs, LAMBDA e : IF Head1(e) = "define-constant" /\ IsValue(Arg(e, 2)) THEN LitBytes(Arg(e, 2)) ELSE 0)

---------------------------------------------------------------------------
(* The analysis.  ctx: the function being analysed, its contract (the      *)
(* costs of the functions so far, all definitions, the version), and the   *)
(* contracts and implementations of traits that are known.                 *)

RECURSIVE build_cost_analysis_tree(_, _, _, _, _), static_cost_inner(_, _, _)

Grown(before, b) == [ns |-> Append(before.ns, b.n), st |-> b.st]
Children(es, ua, ctx, depth, st) ==
    LET F[i \in 0..Len(es)] ==
            IF i = 0 THEN [ns |-> <<>>, st |-> st]
            ELSE LET prev == F[i - 1] IN
                 IF prev.st.err THEN prev
                 ELSE Grown(prev, build_cost_analysis_tree(es[i], ua, ctx, depth, prev.st))
    IN F[Len(es)]

\* Storage natives, whose cost an enclosing (ok ...) keeps.
StorageNatives == {"map-set", "map-insert", "map-delete", "var-set", "var-get", "map-get?"}
\* Of a let that ends in (ok ...) around no storage access, and of a body all of whose operands are
\* calls, only the lookup is charged.
Trimmed(body) ==
    LET last == body.kids[Len(body.kids)]
        native(n) == n.k = "native"
        okEnd == /\ native(body) /\ body.name = "let" /\ body.kids # <<>>
                 /\ native(last) /\ last.name = "ok"
                 /\ ~ \E i \in 1..Len(last.kids) : native(last.kids[i]) /\ last.kids[i].name \in StorageNatives
        b == IF okEnd THEN [body EXCEPT !.kids[Len(body.kids)].cost = FnLookup] ELSE body
    IN IF /\ native(b) /\ b.name \notin {"ok", "if", "match", "begin"} /\ b.kids # <<>>
          /\ \A i \in 1..Len(b.kids) : b.kids[i].k \in {"native", "user"}
       THEN [b EXCEPT !.cost = FnLookup] ELSE b

\* The tree of a definition: its parameters and its body.
Defined(def, types, b) ==
    LET ps == FnParams(def)
    IN Built(Node("user", def.s[1].n, NoType, Zero,
                  [i \in 1..Len(ps) |-> Node("arg", ps[i].s[1].n, types[i], Zero, <<>>)] \o <<Trimmed(b.n)>>), b.st)
\* types and known: what a call site knows of the parameters.
build_function_definition_cost_analysis_tree(def, types, known, data, ctx, st) ==
    LET ps == FnParams(def)
        names == {ps[i].s[1].n : i \in 1..Len(ps)}
        at(x) == CHOOSE i \in 1..Len(ps) : ps[i].s[1].n = x
        ua == UserArgs([x \in names |-> types[at(x)]],
                       [x \in {y \in names : known[at(y)] # DefaultExpr} |-> known[at(x)]], data)
    IN Defined(def, types, build_cost_analysis_tree(def.s[3], ua, ctx, 0, st))

\* Inside a call whose arguments are known exactly, parameters have the size of their types.
RECURSIVE fix_user_arg_costs_exact(_, _)
fix_user_arg_costs_exact(n, depth) ==
    LET below == IF n.k = "native" /\ n.name \in {"let", "if"} THEN depth + 1 ELSE depth
    IN [n EXCEPT !.cost = IF n.k = "arg" THEN calculate_variable_lookup_cost_from_type(n.ty, depth, TRUE) ELSE @,
                 !.kids = [i \in 1..Len(@) |-> fix_user_arg_costs_exact(@[i], below)]]

NarrowedTree(n) ==
    [n EXCEPT !.kids = [i \in 1..Len(@) |-> IF @[i].k = "arg" THEN @[i] ELSE fix_user_arg_costs_exact(@[i], 0)]]
\* The cost of the definition b, analysed for one call, whose arguments have the sizes checked.
NarrowedCost(before, checked, b) ==
    LET F[i \in 0..Len(checked)] ==
            IF i = 0 THEN Plus(calculate_total_cost_with_branching(NarrowedTree(b.n)),
                               CostAt("UserFunctionApplication", Len(checked), Len(checked)))
            ELSE Plus(F[i - 1], CostAt("InnerTypeCheck", checked[i], checked[i]))
    IN IF b.st.err THEN [cost |-> before, st |-> [b.st EXCEPT !.err = FALSE]]
       ELSE [cost |-> F[Len(checked)], st |-> b.st]
\* A call with shorter lists or known values than declared is analysed anew.
try_narrow_user_function_cost(f, args, ua, ctx, st) ==
    LET def == ctx.defs[f]
        declared == ParamTypes(def)
        \* The value of an argument that is a literal, or a parameter whose value is known.
        value(i) == CASE i > Len(args) -> DefaultExpr
                      [] i <= Len(args) /\ (IsValue(args[i]) \/ args[i] \in {Atom("true"), Atom("false")}) -> args[i]
                      [] OTHER -> IF AtomName(args[i]) \in DOMAIN ua.known THEN ua.known[args[i].n] ELSE DefaultExpr
        actual(i) == IF i <= Len(args) THEN infer_type(args[i], ua) ELSE NoType
        narrow(i) == actual(i) # NoType /\ is_narrower_type(actual(i), declared[i])
        types == [i \in 1..Len(declared) |-> IF narrow(i) THEN actual(i) ELSE declared[i]]
        known == [i \in 1..Len(declared) |-> value(i)]
        checked == [i \in 1..Len(declared) |-> TypeSize(IF ArgSizesCount(ctx.version) THEN types[i] ELSE declared[i])]
    IN IF \A i \in 1..Len(declared) : ~ narrow(i) /\ value(i) = DefaultExpr
       THEN [cost |-> ctx.costs[f], st |-> st]
       ELSE NarrowedCost(ctx.costs[f], checked,
                build_function_definition_cost_analysis_tree(def, types, known, ua.data, ctx, st))

\* The costs of a contract: busy while it is analysed, and still after an error.
Busy == [busy |-> TRUE, costs |-> <<>>]
Finished(costs) == [busy |-> FALSE, costs |-> costs]
\* Analyses contract c; its warnings are for the caller to take over.
Studied(c, st, r) ==
    [warnings |-> r.st.warnings, ok |-> ~ r.st.err,
     st |-> [r.st EXCEPT !.err = FALSE, !.warnings = st.warnings,
                         !.visited = IF r.st.err THEN @ ELSE (c :> Finished(r.costs)) @@ @]]
Study(c, ctx, st) ==
    Studied(c, st, static_cost_inner(c, ctx, [st EXCEPT !.visited = (c :> Busy) @@ @, !.warnings = {}]))

\* The implementations of a trait, each analysed or found; the warnings of the analysis are dropped.
WithImpl(costs, f, known, after, gap) ==
    IF known.busy \/ f \notin DOMAIN known.costs THEN [costs |-> costs, st |-> Gap(after, gap)]
    ELSE [costs |-> costs \cup {known.costs[f].min, known.costs[f].max}, st |-> after]
AfterImpl(costs, c, f, after, gap) == WithImpl(costs, f, after.visited[c], after, gap)
resolve_trait_call_cost(x, f, ua, ctx, st) ==
    LET impls == IF x \in DOMAIN ua.types /\ IsTrait(ua.types[x]) /\ ua.types[x].n \in DOMAIN ctx.impls
                 THEN ctx.impls[ua.types[x].n] ELSE <<>>
        F[i \in 0..Len(impls)] ==
            IF i = 0 THEN [costs |-> {}, st |-> st]
            ELSE LET prev == F[i - 1]
                     seen == impls[i] \in DOMAIN prev.st.visited
                 IN AfterImpl(prev.costs, impls[i], f,
                              IF seen THEN prev.st ELSE Study(impls[i], ctx, prev.st).st,
                              IF seen THEN "cycle" ELSE "skipped")
    IN F[Len(impls)]

Priced(cost, st) == [cost |-> cost, st |-> st]
Unpriced(ctx, st, kind, t, f) == Priced(Zero, Gap(Warned(st, ctx.fn, kind, t, f), "warned"))
\* A contract that has just been analysed, and the implementations of a trait.
PricedStudy(c, f, ctx, studied) ==
    LET heard == [studied.st EXCEPT !.warnings = @ \cup studied.warnings]
    IN IF studied.ok /\ f \in DOMAIN heard.visited[c].costs THEN Priced(heard.visited[c].costs[f], heard)
       ELSE Unpriced(ctx, heard, "ContractCallCostError", c, f)
PricedTrait(x, f, ctx, r) ==
    IF r.costs # {} THEN Priced(Envelope(r.costs), r.st) ELSE Unpriced(ctx, r.st, "UnresolvedTraitCall", x, f)
\* What the function that a contract-call? goes to costs; nothing when that is not known.
get_contract_call_target_cost(args, ua, ctx, st) ==
    LET target == args[1]
        f == AtomName(args[2])
        c == target.v
    IN IF Len(args) < 2 \/ ~ IsAtom(args[2]) THEN Priced(Zero, st)
       ELSE IF ~ IsLit(target, "contract")
       THEN PricedTrait(target.n, f, ctx, resolve_trait_call_cost(target.n, f, ua, ctx, st))
       ELSE IF c \notin DOMAIN st.visited THEN PricedStudy(c, f, ctx, Study(c, ctx, st))
       ELSE IF ~ st.visited[c].busy /\ f \in DOMAIN st.visited[c].costs THEN Priced(st.visited[c].costs[f], st)
       ELSE Priced(Zero, Gap(st, "cycle"))

\* map, filter and fold: the called function as often as the list may be long.
TimesOverList(e, ua, ctx, st) ==
    LET f == AtomName(Arg(e, 1))
        lists == SubSeq(e.s, 3, Len(e.s))
    IN IF f \notin DOMAIN ctx.costs THEN [cost |-> FnLookup, st |-> st]
       ELSE [cost |-> Plus(FnLookup, Times(ctx.costs[f], get_map_filter_fold_list_max_len(lists, ua))),
             st |-> IF ListLens(lists, ua) = <<>> \/ infer_type(lists[1], ua) = NoType THEN Gap(st, "length") ELSE st]

\* Nodes of which the operands kids have been analysed.
Nested(k, f, cost, kids) == Built(Node(k, f, NoType, cost, kids.ns), kids.st)
Costing(k, f, kids, own, more) == Built(Node(k, f, NoType, Plus(own, more.cost), kids.ns), more.st)
Erred(f, st) == Built(Leaf("nested", f, Zero), [st EXCEPT !.err = TRUE])

NativeOf(e, taken, own, ua, ctx, kids) ==
    LET f == Head1(e)
        more == CASE f \in {"map", "filter", "fold"} -> TimesOverList(e, ua, ctx, kids.st)
                  [] f = "contract-call?" -> get_contract_call_target_cost(SubSeq(e.s, 2, Len(e.s)), ua, ctx, kids.st)
                  [] OTHER -> Priced(Zero, kids.st)
    IN IF kids.st.err THEN Erred(f, kids.st)
       ELSE IF taken # "unknown" THEN Nested("nested", f, own, kids)
       ELSE Costing("native", f, kids, own, more)
\* A list whose head is a native function.
NativeNode(e, ua, ctx, depth, st) ==
    LET f == Head1(e)
        args == SubSeq(e.s, 2, Len(e.s))
        inner == IF f = "let" /\ args # <<>> /\ IsList(args[1]) THEN lookup_let_binding_types(args[1].s, ua) ELSE ua
        taken == IF f = "if" /\ args # <<>> THEN try_resolve_constant_bool(args[1], ua) ELSE "unknown"
        branch == IF taken = "true" THEN 2 ELSE 3
        parts == IF taken # "unknown" /\ branch <= Len(args) THEN <<args[1], args[branch]>> ELSE args
    IN NativeOf(e, taken, calculate_function_cost_from_native_function(f, args, ua, ctx.version), ua, ctx,
                Children(parts, inner, ctx, IF f \in {"let", "if"} THEN depth + 1 ELSE depth, st))

NamedOf(f, args, ua, ctx, kids) ==
    IF kids.st.err \/ (f \in DOMAIN ctx.defs /\ f \notin DOMAIN ctx.costs) THEN Erred(f, kids.st)
    ELSE IF f \in DOMAIN ctx.defs
    THEN Costing("user", f, kids, FnLookup, try_narrow_user_function_cost(f, args, ua, ctx, kids.st))
    ELSE Nested(IF f \in DOMAIN ua.types /\ IsTrait(ua.types[f]) THEN "user" ELSE "atom", f, Zero, kids)
\* A list whose head is another name: a function of the contract, a trait, or the name of a binding.
NamedNode(e, ua, ctx, depth, st) ==
    LET args == SubSeq(e.s, 2, Len(e.s)) IN NamedOf(Head1(e), args, ua, ctx, Children(args, ua, ctx, depth, st))

build_listlike_cost_analysis_tree(e, ua, ctx, depth, st) ==
    CASE e.s = <<>> -> Built(Leaf("nested", "", Zero), st)
      [] e.s # <<>> /\ IsList(e.s[1]) -> Nested("nested", "", Zero, Children(e.s, ua, ctx, depth, st))
      [] e.s # <<>> /\ IsAtom(e.s[1]) ->
           IF Native(Head1(e), ctx.version) THEN NativeNode(e, ua, ctx, depth, st)
           ELSE NamedNode(e, ua, ctx, depth, st)
      [] OTHER -> Nested(IF e.s[1].t = "trait" THEN "trait" ELSE "value", "", Zero,
                         Children(SubSeq(e.s, 2, Len(e.s)), ua, ctx, depth, st))

build_cost_analysis_tree(e, ua, ctx, depth, st) ==
    CASE e.t = "list"  -> build_listlike_cost_analysis_tree(e, ua, ctx, depth, st)
      [] e.t = "atom"  -> Built(AtomNode(e.n, ua, depth), st)
      [] e.t = "lit"   -> Built(Leaf("value", e.ty, Zero), st)
      [] e.t = "trait" -> Built(Leaf("trait", e.n, Zero), st)

---------------------------------------------------------------------------
(* Contracts.                                                              *)

\* The types of what a contract stores and names.
DataTypes(exprs) ==
    LET of(k) == Items(exprs, k)
        name(i) == Arg(exprs[i], 1).n
        item(S, x) == exprs[CHOOSE i \in S : name(i) = x]
    IN [dvars |-> [x \in {name(i) : i \in of("define-data-var")} |-> Arg(item(of("define-data-var"), x), 2)],
        maps  |-> [x \in {name(i) : i \in of("define-map")} |->
                      <<Arg(item(of("define-map"), x), 2), Arg(item(of("define-map"), x), 3)>>],
        vars  |-> [x \in {name(i) : i \in of("define-data-var")} |-> Arg(item(of("define-data-var"), x), 2)]
                    @@ [x \in {name(i) : i \in of("define-constant")} |->
                           IF IsValue(Arg(item(of("define-constant"), x), 2))
                           THEN literal_type_of(Arg(item(of("define-constant"), x), 2)) ELSE Atom("int")]]

WithFunction(before, def, f, b) ==
    [costs |-> (f :> Plus(calculate_total_cost_with_branching(b.n), compute_function_overhead_costs(<<>>, def)))
                  @@ before.costs,
     trees |-> (f :> b.n) @@ before.trees, st |-> b.st]
\* static_cost_tree_from_ast: the functions in order, each knowing the costs of the ones before it.
static_cost_tree_from_ast(exprs, version, ctx, st) ==
    LET fns == {i \in 1..Len(exprs) : is_function_definition(Head1(exprs[i]))}
        defs == [f \in {FnName(exprs[i]) : i \in fns} |-> exprs[CHOOSE i \in fns : FnName(exprs[i]) = f]]
        types == DataTypes(exprs)
        data == [dvars |-> types.dvars, maps |-> types.maps, top |-> ctx.top]
        F[i \in 0..Len(exprs)] ==
            IF i = 0 THEN [costs |-> <<>>, trees |-> <<>>, st |-> st]
            ELSE LET prev == F[i - 1]
                     f == FnName(exprs[i])
                     here == [ctx EXCEPT !.costs = prev.costs, !.defs = defs, !.version = version, !.fn = f]
                     ps == ParamTypes(exprs[i])
                 IN IF i \notin fns \/ prev.st.err THEN prev
                    ELSE WithFunction(prev, exprs[i], f,
                             build_function_definition_cost_analysis_tree(
                                 exprs[i], ps, [j \in 1..Len(ps) |-> DefaultExpr], data, here, prev.st))
    IN [defs |-> defs] @@ F[Len(exprs)]

Totals(bytes, r) ==
    [st |-> r.st, trees |-> r.trees,
     costs |-> [f \in DOMAIN r.trees |-> Plus(calculate_total_cost_with_branching(r.trees[f]),
                                              compute_function_overhead_costs(<<bytes>>, r.defs[f]))]]
static_cost_from_ast_inner(exprs, version, ctx, st) ==
    Totals(Len(exprs) + compute_contract_data_size(exprs), static_cost_tree_from_ast(exprs, version, ctx, st))
static_cost_inner(c, ctx, st) ==
    IF c \in DOMAIN ctx.contracts
    THEN static_cost_from_ast_inner(ctx.contracts[c].exprs, ctx.contracts[c].version, ctx, st)
    ELSE [st |-> [st EXCEPT !.err = TRUE], trees |-> <<>>, costs |-> <<>>]

\* static_cost: the contract among the others that are deployed.
static_cost(exprs, version, contracts, impls) ==
    LET st == [visited |-> (Own :> Busy), warnings |-> {}, err |-> FALSE, gaps |-> {}]
        ctx == [costs |-> <<>>, defs |-> <<>>, version |-> version, fn |-> "", top |-> DataTypes(exprs),
                contracts |-> contracts, impls |-> impls]
    IN static_cost_from_ast_inner(exprs, version, ctx, st)

-----------------------------------------------------------------------------
(***************************************************************************)
(* How many calls through traits a function makes (trait_counter.rs): a    *)
(* first visit of the trees of costs counts them where they stand, a       *)
(* second one, callees first, adds the counts of the functions that are    *)
(* called.  A count is the least and the most.                             *)
(***************************************************************************)

Once == <<1, 1>>
CountAdd(a, b) == <<a[1] + b[1], a[2] + b[2]>>
CountMul(a, b) == <<a[1] * b[1], a[2] * b[2]>>

increment_trait_count(counts, f, mul) ==
    (f :> IF f \in DOMAIN counts THEN CountAdd(counts[f], mul) ELSE mul) @@ counts
\* Mutant: a caller that has counts of its own inherits none.
propagate_trait_countMutant(counts, callee, caller, mul) ==
    IF callee \in DOMAIN counts /\ caller \notin DOMAIN counts
    THEN increment_trait_count(counts, caller, CountMul(counts[callee], mul)) ELSE counts
propagate_trait_count(counts, callee, caller, mul) ==
    IF callee \in DOMAIN counts THEN increment_trait_count(counts, caller, CountMul(counts[callee], mul)) ELSE counts

\* A list of a known type is walked up to its length, anything else once.
extract_list_multiplier_from_type(ty) == IF IsListType(ty) THEN <<0, TypeLen(ty)>> ELSE Once
OverLists == {"map", "filter", "fold"}
Multiplier(n) == IF n.kids[2].k = "arg" THEN extract_list_multiplier_from_type(n.kids[2].ty) ELSE Once

TraitArg(n, names) == n.k = "arg" /\ IsTrait(n.ty) /\ n.name \in names

---------------------------------------------------------------------------
(* The first visit.  s: the counts, the names of parameters that are       *)
(* traits, the names of those traits, and the functions around the node.   *)

\* (get field x) of a parameter, when the field is a trait or has the name of one.
TupleIn(ty) == IF Head1(ty) \in {"optional", "response"} THEN ty.s[2] ELSE ty
ReadsTraitField(n, s) ==
    /\ Len(n.kids) >= 2 /\ n.kids[1].k = "atom" /\ n.kids[2].k = "arg"
    /\ n.kids[2].name \notin s.names
    /\ LET fields == TupleIn(n.kids[2].ty).s IN
       \/ n.kids[1].name \in s.traits
       \/ /\ Head1(TupleIn(n.kids[2].ty)) = "tuple"
          /\ \E i \in 2..Len(fields) : fields[i].s[1].n = n.kids[1].name /\ IsTrait(fields[i].s[2])

\* The operands of a contract-call? that are counted: the target, and traits passed on.
CountedOperands(n, names) ==
    {i \in 1..Len(n.kids) : TraitArg(n.kids[i], names)}
      \cup {i \in {1} : n.kids # <<>> /\ n.kids[1].k = "atom"}

get_function_context(s, f) == IF s.stack = <<>> THEN f ELSE s.stack[Len(s.stack)]
CountTimes(s, f, mul, k) ==
    LET F[i \in 0..k] == IF i = 0 THEN s ELSE [F[i - 1] EXCEPT !.counts = increment_trait_count(@, f, mul)]
    IN F[k]

RECURSIVE Collect(_, _, _, _, _)
CollectAll(ns, f, mul, fns, s) ==
    LET F[i \in 0..Len(ns)] == IF i = 0 THEN s ELSE Collect(ns[i], f, mul, fns, F[i - 1]) IN F[Len(ns)]
\* A definition counts for itself, a call for the function that is called.
CollectUser(n, f, mul, fns, s) ==
    LET inner == IF is_function_definition(n.name) THEN f ELSE n.name
        counted == CountTimes(s, f, mul, IF n.name \in s.names THEN 1 ELSE 0)
        real == inner \in DOMAIN counted.counts \/ inner \in fns
        pushed == IF real THEN [counted EXCEPT !.stack = Append(@, inner)] ELSE counted
        after == CollectAll(n.kids, inner, mul, fns, pushed)
    IN IF real THEN [after EXCEPT !.stack = s.stack] ELSE after
Collect(n, f, mul, fns, s) ==
    LET here == get_function_context(s, f)
        then(k) == CollectAll(n.kids, f, mul, fns, CountTimes(s, here, mul, k))
    IN CASE n.k = "arg"   -> IF IsTrait(n.ty) THEN [s EXCEPT !.names = @ \cup {n.name}, !.traits = @ \cup {n.ty.n}] ELSE s
         [] n.k = "value" -> s
         [] n.k = "trait" -> CountTimes(s, f, mul, 1)
         [] n.k = "user"  -> CollectUser(n, f, mul, fns, s)
         [] n.k = "native" /\ n.name \in OverLists ->
              IF Len(n.kids) > 1 THEN CollectAll(n.kids, f, Multiplier(n), fns, s) ELSE s
         [] n.k = "native" /\ n.name = "get" -> then(IF ReadsTraitField(n, s) THEN 1 ELSE 0)
         [] n.k = "native" /\ n.name = "contract-call?" -> then(Cardinality(CountedOperands(n, s.names)))
         [] OTHER -> then(0)

---------------------------------------------------------------------------
(* The second visit.                                                       *)

RECURSIVE Propagate(_, _, _, _, _, _)
PropagateAll(ns, f, mul, names, fns, counts) ==
    LET F[i \in 0..Len(ns)] ==
            IF i = 0 THEN counts ELSE Propagate(ns[i], f, mul, names, fns, F[i - 1])
    IN F[Len(ns)]
\* A caller inherits the counts of the callee, and counts the traits it passes to one that has any.
PropagateUser(n, f, mul, names, fns, counts) ==
    LET call == ~ is_function_definition(n.name) /\ n.name \notin names
        inherited == IF call THEN propagate_trait_count(counts, n.name, f, mul) ELSE counts
        passed == {i \in 1..Len(n.kids) :
                     TraitArg(n.kids[i], names) \/ (n.kids[i].k = "atom" /\ n.kids[i].name \in names)}
        F[k \in 0..Cardinality(passed)] == IF k = 0 THEN inherited ELSE increment_trait_count(F[k - 1], f, mul)
        after == IF call /\ n.name \in DOMAIN inherited THEN F[Cardinality(passed)] ELSE inherited
        bound == n.name \notin names /\ n.name \notin DOMAIN after /\ n.name \notin fns
        inner == IF is_function_definition(n.name) \/ bound THEN f ELSE n.name
    IN PropagateAll(n.kids, inner, mul, names, fns, after)
Propagate(n, f, mul, names, fns, counts) ==
    LET by == Multiplier(n)
        named == n.kids[1].k = "user" /\ n.kids[1].name \notin names
    IN CASE n.k \in {"arg", "value", "trait"} -> counts
         [] n.k = "user" -> PropagateUser(n, f, mul, names, fns, counts)
         [] n.k = "native" /\ n.name \in OverLists ->
              IF Len(n.kids) < 2 THEN counts
              ELSE IF named THEN PropagateAll(Tail(n.kids), f, by, names, fns,
                                              propagate_trait_count(counts, n.kids[1].name, f, by))
              ELSE PropagateAll(n.kids, f, by, names, fns, counts)
         [] OTHER -> PropagateAll(n.kids, f, mul, names, fns, counts)

\* The functions that a tree calls.
RECURSIVE collect_fn_calls(_, _, _)
collect_fn_calls(n, fns, names) ==
    {x \in {n.name} : n.k = "user" /\ x \in fns /\ x \notin names}
      \cup UNION {collect_fn_calls(n.kids[i], fns, names) : i \in 1..Len(n.kids)}

\* topo_order: callees before callers; order is the names as they are sorted.
RECURSIVE topo_visit(_, _, _, _)
topo_visit(f, calls, order, done) ==
    LET mine == SelectSeq(order, LAMBDA g : g \in calls[f])
        F[i \in 0..Len(mine)] == IF i = 0 THEN done ELSE topo_visit(mine[i], calls, order, F[i - 1])
    IN IF \E i \in 1..Len(done) : done[i] = f THEN done ELSE Append(F[Len(mine)], f)
topo_order(trees, names, order) ==
    LET calls == [f \in DOMAIN trees |-> collect_fn_calls(trees[f], DOMAIN trees, names)]
        F[i \in 0..Len(order)] == IF i = 0 THEN <<>> ELSE topo_visit(order[i], calls, order, F[i - 1])
    IN F[Len(order)]

\* hash: the order in which the map of the trees is walked; order: the names as they are sorted.
get_trait_count(trees, hash, order) ==
    LET F[i \in 0..Len(hash)] ==
            IF i = 0 THEN [counts |-> <<>>, names |-> {}, traits |-> {}, stack |-> <<>>]
            ELSE Collect(trees[hash[i]], hash[i], Once, DOMAIN trees, F[i - 1])
        first == F[Len(hash)]
        sorted == topo_order(trees, first.names, order)
        G[i \in 0..Len(sorted)] ==
            IF i = 0 THEN first.counts
            ELSE Propagate(trees[sorted[i]], sorted[i], Once, first.names, DOMAIN trees, G[i - 1])
    IN G[Len(sorted)]
=============================================================================
