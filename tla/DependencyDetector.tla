------------------------- MODULE DependencyDetector -------------------------
(***************************************************************************)
(* clarity-repl/src/analysis/ast_dependency_detector.rs: which contracts a *)
(* contract depends on, and an order in which every contract comes after   *)
(* the ones it depends on.                                                 *)
(*                                                                         *)
(* A contract is the sequence of its top-level items, definitions before   *)
(* their uses as the parser sorts them:                                    *)
(*   [k |-> "use_trait", to]      also "impl_trait": a trait of another    *)
(*   [k |-> "constant", name, to] contract; a constant naming a contract   *)
(*   [k |-> "trait", name, sigs]  the parameter types of each function     *)
(*   [k |-> "public", name, params, calls]   also "read_only", "private"   *)
(* The parameters are a sequence of [name, type]; a call is                *)
(*   [k |-> "static", to, fn, args], [k |-> "dynamic", via, fn, args] or   *)
(*   [k |-> "local", fn, args].                                            *)
(* Expressions are principals, atoms and lists; whether a dependency is    *)
(* needed before or only after publication is recorded and never read, and *)
(* is left out.                                                            *)
(***************************************************************************)
EXTENDS Integers, Sequences, SequencesExt, Functions, TLC

CONSTANTS
    Order,          \* the contracts, in the order of their identifiers
    Placeholders    \* contracts whose name starts with two underscores

Ids == ToSet(Order)
Before(a, b) == SelectInSeq(Order, LAMBDA x : x = a) < SelectInSeq(Order, LAMBDA x : x = b)
Sorted(S) == SelectSeq(Order, LAMBDA x : x \in S)
NoMap == <<>>
With(f, key, value) == (key :> value) @@ f
Get(f, key, default) == IF key \in DOMAIN f THEN f[key] ELSE default

-----------------------------------------------------------------------------
(* The types that can hold a trait, and the arguments given for them. *)

Plain == [k |-> "plain"]
TraitOf(c, name) == [k |-> "trait", of |-> <<c, name>>]
Principal(c) == [k |-> "principal", id |-> c]
Atom(name) == [k |-> "atom", name |-> name]
Form(items) == [k |-> "list", items |-> items]

Nth(e, i) == IF e.k = "list" /\ i \in DOMAIN e.items THEN <<e.items[i]>> ELSE <<>>

RECURSIVE deep_check_callee_type(_, _)
deep_check_callee_type(type, e) ==
    LET Inner(t, i) == UNION {deep_check_callee_type(t, x) : x \in ToSet(Nth(e, i))}
        items == IF e.k = "list" /\ e.items # <<>> THEN ToSet(Tail(e.items)) ELSE {}
    IN  CASE type.k = "trait" -> IF e.k = "principal" THEN {e.id} ELSE {}
          [] type.k = "optional" -> Inner(type.of, 2)
          [] type.k = "response" -> Inner(type.ok, 2) \cup Inner(type.err, 3)
          [] type.k = "tuple" ->
                UNION {IF kv.k = "list" /\ Len(kv.items) >= 2 /\ kv.items[1].k = "atom"
                          /\ kv.items[1].name \in DOMAIN type.of
                       THEN deep_check_callee_type(type.of[kv.items[1].name], kv.items[2])
                       ELSE {} : kv \in items}
          [] type.k = "items" -> UNION {deep_check_callee_type(type.of, x) : x \in items}
          [] OTHER -> {}

check_callee_type(types, args) ==
    UNION {deep_check_callee_type(types[i], args[i]) : i \in DOMAIN types \cap DOMAIN args}

check_trait_dependencies(sigs, fn, args) ==
    IF fn \in DOMAIN sigs THEN check_callee_type(sigs[fn], args) ELSE {}

-----------------------------------------------------------------------------
(* The detector's state d, and what each visit does to it. *)

add_dependency(d, from, to) ==
    IF from \in DOMAIN d.preloaded \/ to \in Placeholders THEN d
    ELSE [d EXCEPT !.deps = With(@, from, Get(@, from, {}) \cup {to})]

AddAll(d, from, tos) == FoldLeft(LAMBDA x, to : add_dependency(x, from, to), d, Sorted(tos))

\* Mutant: the calls that waited for the function are forgotten, not checked.
MutantDefinedFunction(d, c, name, types) ==
    [d EXCEPT !.pendingFunctions = Restrict(@, DOMAIN @ \ {<<c, name>>}),
              !.functions = With(@, <<c, name>>, types)]

\* A function is defined: the calls that waited for its types are checked now.
add_defined_function(d, c, name, types) ==
    LET key == <<c, name>>
        checked == FoldLeft(LAMBDA x, p : AddAll(x, p.caller, check_callee_type(types, p.args)),
                            d, Get(d.pendingFunctions, key, <<>>))
    IN  [checked EXCEPT !.pendingFunctions = Restrict(@, DOMAIN @ \ {key}),
                        !.functions = With(@, key, types)]

add_pending_function_check(d, caller, callee, args) ==
    [d EXCEPT !.pendingFunctions =
        With(@, callee, Append(Get(@, callee, <<>>), [caller |-> caller, args |-> args]))]

add_defined_trait(d, c, name, sigs) ==
    LET key == <<c, name>>
        checked == FoldLeft(
            LAMBDA x, p : AddAll(x, p.caller, check_trait_dependencies(sigs, p.fn, p.args)),
            d, Get(d.pendingTraits, key, <<>>))
    IN  [checked EXCEPT !.pendingTraits = Restrict(@, DOMAIN @ \ {key}),
                        !.traits = With(@, key, sigs)]

add_pending_trait_check(d, caller, trait, fn, args) ==
    [d EXCEPT !.pendingTraits =
        With(@, trait, Append(Get(@, trait, <<>>),
                              [caller |-> caller, fn |-> fn, args |-> args]))]

add_defined_contract_constant(d, c, name, to) ==
    [d EXCEPT !.constants = With(@, <<c, name>>, to)]

\* The trait of the first parameter of that name, if it is one.
get_param_trait(params, name) ==
    LET i == SelectInSeq(params, LAMBDA p : p.name = name)
    IN  IF i # 0 /\ params[i].type.k = "trait" THEN <<params[i].type.of>> ELSE <<>>

visit_static_contract_call(d, c, call) ==
    LET known == add_dependency(d, c, call.to)
        callee == <<call.to, call.fn>>
    IN  IF callee \in DOMAIN d.functions
        THEN AddAll(known, c, check_callee_type(d.functions[callee], call.args))
        ELSE add_pending_function_check(known, c, callee, call.args)

visit_dynamic_contract_call(d, c, params, call) ==
    LET trait == get_param_trait(params, call.via)
    IN  IF trait # <<>> /\ trait[1] \in DOMAIN d.traits
          THEN AddAll(d, c, check_trait_dependencies(d.traits[trait[1]], call.fn, call.args))
        ELSE IF trait # <<>> THEN add_pending_trait_check(d, c, trait[1], call.fn, call.args)
        ELSE IF <<c, call.via>> \in DOMAIN d.constants
          THEN add_dependency(d, c, d.constants[<<c, call.via>>])
        ELSE d

visit_call_user_defined(d, c, call) ==
    AddAll(d, c, check_callee_type(Get(d.functions, <<c, call.fn>>, <<>>), call.args))

visit_call(d, c, params, call) ==
    CASE call.k = "static" -> visit_static_contract_call(d, c, call)
      [] call.k = "dynamic" -> visit_dynamic_contract_call(d, c, params, call)
      [] call.k = "local" -> visit_call_user_defined(d, c, call)

ParamTypes(params) == [i \in DOMAIN params |-> params[i].type]

traverse_define_function(d, c, item) ==
    add_defined_function(
        FoldLeft(LAMBDA x, call : visit_call(x, c, item.params, call), d, item.calls),
        c, item.name, ParamTypes(item.params))

traverse_item(d, c, item) ==
    CASE item.k \in {"use_trait", "impl_trait"} -> add_dependency(d, c, item.to)
      [] item.k = "constant" -> add_defined_contract_constant(d, c, item.name, item.to)
      [] item.k = "trait" -> add_defined_trait(d, c, item.name, item.sigs)
      [] OTHER -> traverse_define_function(d, c, item)

\* The preloaded contracts give the types of what others may call.
preloaded_item(d, c, item) ==
    CASE item.k = "trait" -> add_defined_trait(d, c, item.name, item.sigs)
      [] item.k \in {"public", "read_only"} ->
            add_defined_function(d, c, item.name, ParamTypes(item.params))
      [] OTHER -> d

Pending(f) == [i \in 1..Cardinality(DOMAIN f) |->
                 SetToSortSeq(DOMAIN f, LAMBDA x, y : Before(x[1], y[1]))[i][1]]

detect_dependencies(asts, preloaded) ==
    LET new == [deps |-> NoMap, functions |-> NoMap, traits |-> NoMap, constants |-> NoMap,
                pendingFunctions |-> NoMap, pendingTraits |-> NoMap, preloaded |-> preloaded]
        loaded == FoldLeft(
            LAMBDA d, c : FoldLeft(LAMBDA x, i : preloaded_item(x, c, i), d, preloaded[c]),
            new, Sorted(DOMAIN preloaded))
        found == FoldLeft(
            LAMBDA d, c : FoldLeft(LAMBDA x, i : traverse_item(x, c, i),
                                   [d EXCEPT !.deps = With(@, c, {})], asts[c]),
            loaded, Sorted(DOMAIN asts))
    IN  [deps |-> found.deps,
         unresolved |-> Pending(found.pendingFunctions) \o Pending(found.pendingTraits)]

-----------------------------------------------------------------------------
(* order_contracts *)

Edges(deps) == [c \in DOMAIN deps |-> Sorted(deps[c] \cap DOMAIN deps)]

RECURSIVE sort_dependencies(_, _, _)
sort_dependencies(edges, c, branch) ==
    IF c \in branch.seen THEN branch
    ELSE LET below == FoldLeft(LAMBDA b, x : sort_dependencies(edges, x, b),
                               [branch EXCEPT !.seen = @ \cup {c}], edges[c])
         IN  [below EXCEPT !.order = Append(@, c)]

get_sorted_dependencies(edges) ==
    FoldLeft(LAMBDA b, c : sort_dependencies(edges, c, b),
             [seen |-> {}, order |-> <<>>], Sorted(DOMAIN edges)).order

\* Those left of the order once every contract all of whose dependencies can be
\* published has been taken away: the contracts on a cycle and their dependents.
get_cycling_dependencies(edges, order) ==
    LET Taint(tainted, c) ==
            LET good == {x \in ToSet(edges[c]) : edges[x] = <<>> \/ x \in tainted}
            IN  tainted \cup good
                \cup (IF Cardinality(good) = Len(edges[c]) THEN {c} ELSE {})
    IN  ToSet(order) \ FoldLeft(Taint, {}, order)

\* Contracts that are in no epoch map, the boot contracts, are of the first epoch.
EpochOf(epochs, c) == Get(epochs, c, 20)

order_contracts(deps, epochs) ==
    LET edges == Edges(deps)
        order == get_sorted_dependencies(edges)
        cycling == get_cycling_dependencies(edges, order)
    IN  IF \E c \in DOMAIN deps : \E x \in deps[c] : EpochOf(epochs, c) < EpochOf(epochs, x)
          THEN [error |-> "height", order |-> <<>>, contracts |-> {}]
        ELSE IF cycling # {}
          THEN [error |-> "circular", order |-> <<>>, contracts |-> cycling]
        ELSE [error |-> "none", order |-> order, contracts |-> {}]
=============================================================================
