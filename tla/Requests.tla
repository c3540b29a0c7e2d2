------------------------------ MODULE Requests ------------------------------
(***************************************************************************)
(* The requests that the language server answers from the text of one      *)
(* contract (clarity-lsp/src/common/requests): definitions, completion,    *)
(* the outline and signatures.  A position is the path of the node under   *)
(* the cursor, and a location the path of a node.                          *)
(***************************************************************************)
EXTENDS Lints

Internal(p) == [in |-> "here", p |-> p, name |-> ""]
External(id, name) == [in |-> id, p |-> <<>>, name |-> name]

---------------------------------------------------------------------------
(* definitions.rs                                                          *)

\* What a visit adds to the locals while its parts are traversed: names and where they point.
set_function_parameters_scope(v) ==
    LET sig == ListOf(Arg(v.e, 1)) IN
    {<<sig[q].s[1].n, v.p \o <<2, q>>>> : q \in {r \in 2..Len(sig) : IsList(sig[r]) /\ IsAtom(sig[r].s[1])}}
let_scope(v) == {<<Arg(v.e, 1).s[q].s[1].n, v.p \o <<2, q, 1>>>> : q \in 1..Len(ListOf(Arg(v.e, 1)))}
match_option_scope(v) == {<<AtomName(Arg(v.e, 2)), v.p \o <<2>>>>}
match_response_scope(v) == {<<AtomName(Arg(v.e, i)), v.p \o <<2>>>> : i \in {2, 4}}
Scope(v) ==
    CASE v.k \in Fns -> set_function_parameters_scope(v)
      [] v.k = "let" /\ match_pairs(Arg(v.e, 1)) -> let_scope(v)
      [] v.k = "match_option" -> match_option_scope(v)
      [] v.k = "match_response" -> match_response_scope(v)
      [] OTHER -> {}

\* traverse_expr: the scopes of the expressions around p.  The one of an expression is dropped when
\* its traversal ends; a function's is there for its body.
LocalsAt(c, p) ==
    UNION {Scope(c.vs[i]) : i \in {j \in 1..Len(c.vs) : Within(p, c.vs[j].p) /\ p # c.vs[j].p}}
\* Mutant: scopes stay.
LocalsOfAll(c, p) == UNION {Scope(c.vs[i]) : i \in 1..Len(c.vs)}
Locals(c, p) == LocalsAt(c, p)

Globals == Fns \cup {"define_constant", "define_data_var", "define_map", "define_ft", "define_nft"}
\* self.global at the i-th visit; a name that is defined again replaces the first.
GlobalAt(c, i, name) ==
    LET defs == {j \in Entries(c, Globals) : j < i /\ DefName(c.vs[j]) = name}
    IN IF defs = {} THEN {} ELSE {Internal(c.vs[CHOOSE j \in defs : \A k \in defs : k <= j].p)}

visit_atom(c, i) ==
    LET v == c.vs[i]
        found == {x \in Locals(c, v.p) : x[1] = v.e.n}
    IN IF found # {} THEN {<<v.p, Internal(x[2])>> : x \in found}
       ELSE {<<v.p, g>> : g \in GlobalAt(c, i, v.e.n)}

\* set_definition_for_arg_at_index: the first argument of these names an item of the contract.
NamesData == {"var_set", "var_get", "map_insert", "map_get", "map_set", "map_delete"}
NamesToken == {"ft_mint", "ft_burn", "ft_get_balance", "ft_get_supply", "ft_transfer",
               "nft_burn", "nft_get_owner", "nft_mint", "nft_transfer"}
NamesFirst == NamesData \cup NamesToken \cup {"map", "filter", "fold"}
set_definition_for_arg(c, i, index, name) == {<<c.vs[i].p \o <<index + 1>>, g>> : g \in GlobalAt(c, i, name)}

\* clone_and_replace_transient: a contract of the project is the deployer's.
Issued(id, deployer) == IF id[1] = "transient" /\ deployer # "" THEN <<deployer, id[2]>> ELSE id
visit_external(v, index, deployer) ==
    {<<v.p \o <<index + 1>>,
       External(Issued(Arg(v.e, IF v.k = "static_contract_call" THEN 1 ELSE 2).v, deployer),
                AtomName(Arg(v.e, IF v.k = "static_contract_call" THEN 2 ELSE 1)))>>}

\* The tokens map: <<where, what it points to>>.
Tokens(c, deployer) ==
    UNION {LET v == c.vs[i] IN
           CASE v.k = "atom" -> visit_atom(c, i)
             [] v.k \in NamesFirst -> set_definition_for_arg(c, i, 1, AtomName(Arg(v.e, 1)))
             [] v.k = "call_user_defined" -> set_definition_for_arg(c, i, 0, v.e.s[1].n)
             [] v.k \in {"use_trait", "impl_trait"} -> visit_external(v, 1, deployer)
             [] v.k = "static_contract_call" -> visit_external(v, 2, deployer)
             [] OTHER -> {} : i \in 1..Len(c.vs)}

---------------------------------------------------------------------------
(* helpers.rs and completion.rs                                            *)

\* get_function_at_position: the call around the cursor and the argument it is in, from 0.
FunctionAt(exprs, p) ==
    LET node(q) == LET F[n \in 1..Len(q)] == IF n = 1 THEN exprs[q[1]] ELSE F[n - 1].s[q[n]] IN F[Len(q)]
    IN IF Len(p) = 1 THEN [name |-> "", param |-> -1]
       ELSE LET list == node(SubSeq(p, 1, Len(p) - 1))
            IN [name |-> Head1(list), param |-> p[Len(p)] - 2]

\* The parameters and bindings of the functions and lets that the cursor is in.
set_function_completion(c, p) ==
    UNION {{Params(c.vs[i])[q].s[1].n : q \in 1..Len(Params(c.vs[i]))} :
           i \in {j \in Entries(c, Fns) : Within(p, c.vs[j].p)}}
visit_let_locals(c, p) ==
    UNION {{Arg(c.vs[i].e, 1).s[q].s[1].n : q \in 1..Len(Arg(c.vs[i].e, 1).s)} :
           i \in {j \in Entries(c, {"let"}) : Within(p, c.vs[j].p)}}
NamesOf(c, kinds) == {DefName(c.vs[i]) : i \in Entries(c, kinds)}
ContractDefinedData(c, p) ==
    [consts |-> NamesOf(c, {"define_constant"}),
     locals |-> set_function_completion(c, p) \cup visit_let_locals(c, p),
     vars |-> NamesOf(c, {"define_data_var"}), maps |-> NamesOf(c, {"define_map"}),
     fts |-> NamesOf(c, {"define_ft"}), nfts |-> NamesOf(c, {"define_nft"}), functions |-> NamesOf(c, Fns)]

VAR_FUNCTIONS == {"var-set", "var-get"}
MAP_FUNCTIONS == {"map-insert", "map-get?", "map-set", "map-delete"}
FT_FUNCTIONS == {"ft-get-balance", "ft-get-supply", "ft-burn?", "ft-mint?", "ft-transfer?"}
NFT_FUNCTIONS == {"nft-get-owner?", "nft-burn?", "nft-mint?", "nft-transfer?"}

LogicalCallbacks == {"and", "or", "not"}
FoldCallbacks ==
    LogicalCallbacks \cup {"+", "-", "*", "/", ">=", "<=", "<", ">", "to-int", "to-uint", "mod", "pow", "sqrti",
                           "log2", "xor", "is-standard", "bit-and", "bit-or", "bit-not", "bit-shift-left",
                           "bit-shift-right", "bit-xor"}
MapCallbacks ==
    FoldCallbacks \cup {"buff-to-int-le", "buff-to-uint-le", "buff-to-int-be", "buff-to-uint-be",
                        "principal-destruct?", "principal-construct?", "string-to-int?", "string-to-uint?",
                        "int-to-ascii", "int-to-utf8", "hash160", "sha256", "sha512", "sha512/256", "keccak256",
                        "contract-hash?"}
Callbacks(f, version) ==
    {x \in (CASE f = "map" -> MapCallbacks [] f = "filter" -> LogicalCallbacks [] OTHER -> FoldCallbacks) :
     Since(x, version)}

\* The natives of the version; from Clarity 2 the old spellings are not offered.
NativeKeywords(version) ==
    {f \in DOMAIN NativeKinds : Since(f, version) /\ ~ (version >= 2 /\ f \in {"element-at", "index-of", "xor"})}
      \cup DOMAIN DefineKinds

build_completion_item_list(c, p, calls) ==
    LET d == ContractDefinedData(c, p)
        at == FunctionAt(Exprs(c.items), p)
    IN CASE at.param = 0 /\ at.name \in VAR_FUNCTIONS -> d.vars
         [] at.param = 0 /\ at.name \in MAP_FUNCTIONS -> d.maps
         [] at.param = 0 /\ at.name \in FT_FUNCTIONS  -> d.fts
         [] at.param = 0 /\ at.name \in NFT_FUNCTIONS -> d.nfts
         [] at.param = 0 /\ at.name \in {"map", "filter", "fold"} -> d.functions \cup Callbacks(at.name, c.version)
         [] OTHER -> d.consts \cup d.locals \cup NativeKeywords(c.version) \cup calls \cup d.functions

---------------------------------------------------------------------------
(* document_symbols.rs: an outline is a sequence of symbols with children. *)

Symbol(name, p, kids) == [name |-> name, p |-> p, kids |-> kids]
Joined(ss) == LET F[n \in 0..Len(ss)] == IF n = 0 THEN <<>> ELSE F[n - 1] \o ss[n] IN F[Len(ss)]
Group(name, p, kids) == IF kids = <<>> THEN <<>> ELSE <<Symbol(name, p, kids)>>

LetValues(e, rev) == IF match_pairs(Arg(e, 1)) THEN PairValues(Arg(e, 1).s, <<2>>, 1, rev) ELSE <<>>
LetSymbol(p, bindings, body) == Symbol("let", p, Group("bindings", p, bindings) \o Group("body", p, body))

\* What children_map holds for the node e at p once it was visited.
RECURSIVE ChildSymbols(_, _, _)
SymbolsOf(c, e, p, k) ==
    LET arg(i) == ChildSymbols(c, Arg(e, i), p \o <<i + 1>>)
        under(ps) == [n \in 1..Len(ps) |-> ChildSymbols(c, ps[n].e, p \o ps[n].p)]
        value(s, ps) == [n \in 1..Len(ps) |-> Symbol(s, p \o ps[n].p, ChildSymbols(c, ps[n].e, p \o ps[n].p))]
    IN CASE k = "tuple" -> value("field", TupleParts(e, c.rev))
         [] k = "begin" -> <<Symbol("begin", p, Joined(under(PartsFrom(e, 1))))>>
         [] k = "let" -> <<LetSymbol(p, value("binding", LetValues(e, c.rev)), Joined(under(PartsFrom(e, 2))))>>
         [] k = "asserts" -> <<Symbol("asserts!", p, arg(1) \o arg(2))>>
         [] k \in {"try", "ok", "err"} -> <<Symbol(k, p, arg(1))>>
         [] OTHER -> <<>>
ChildSymbols(c, e, p) == SymbolsOf(c, e, p, IF IsList(e) THEN KindOf(e, c.version) ELSE "none")

TopSymbol(c, v) ==
    LET at(i) == ChildSymbols(c, Arg(v.e, i), v.p \o <<i + 1>>)
        method(j) == Symbol(Head1(Arg(v.e, 2).s[j]), v.p \o <<3, j>>, <<>>)
    IN CASE v.k \in Fns -> <<Symbol(DefName(v), v.p, at(2))>>
         [] v.k = "define_data_var" -> <<Symbol(DefName(v), v.p, at(3))>>
         [] v.k = "define_map" -> <<Symbol(DefName(v), v.p, <<Symbol("key", v.p \o <<3>>, <<>>),
                                                             Symbol("value", v.p \o <<4>>, <<>>)>>)>>
         [] v.k = "define_trait" -> <<Symbol(DefName(v), v.p, [j \in 1..Len(Arg(v.e, 2).s) |-> method(j)])>>
         [] v.k \in {"define_constant", "define_ft", "define_nft"} -> <<Symbol(DefName(v), v.p, <<>>)>>
         [] v.k = "impl_trait" -> <<Symbol("impl-trait", v.p, <<>>)>>
         [] OTHER -> <<>>
get_symbols(c) == Joined([i \in 1..Len(c.vs) |-> TopSymbol(c, c.vs[i])])

=============================================================================
