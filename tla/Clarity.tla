------------------------------- MODULE Clarity --------------------------------
(***************************************************************************)
(* Parsed Clarity contracts and the traversal that every static tool of    *)
(* the repository is built on (clarity-repl/src/analysis/ast_visitor.rs).  *)
(* An expression is an atom, a literal, a trait reference or a list; a     *)
(* node is named by its path. Traverse returns the calls of the visit_*    *)
(* methods in the order in which they are made; a tool is a function of    *)
(* that sequence.                                                          *)
(*                                                                         *)
(* Then what the Clarity VM does with a contract, as far as the static     *)
(* tools rely on it: left to right evaluation of a small part of the       *)
(* language, with checked integers, early returns and data variables. The  *)
(* VM is a library; this is the reference that lints, costs, debugger and  *)
(* coverage are compared with.                                             *)
(***************************************************************************)
EXTENDS Integers, Sequences, TLC

\* The largest int; ints are -(MaxInt + 1)..MaxInt, uints 0..2 * MaxInt + 1.
CONSTANT MaxInt

Atom(n)  == [t |-> "atom", n |-> n]
Lit(ty, v) == [t |-> "lit", ty |-> ty, v |-> v]
TraitRef(n) == [t |-> "trait", n |-> n]
List(s)  == [t |-> "list", s |-> s]
Call(f, args) == List(<<Atom(f)>> \o args)

IsAtom(e) == e.t = "atom"
IsList(e) == e.t = "list"
IsLit(e, ty) == e.t = "lit" /\ e.ty = ty
\* The name at the head of a list, or none.
Head1(e) == IF IsList(e) /\ e.s # <<>> /\ IsAtom(e.s[1]) THEN e.s[1].n ELSE ""

DefaultName == "placeholder__"
DefaultExpr == Atom(DefaultName)
AtomName(e) == IF IsAtom(e) THEN e.n ELSE DefaultName
\* args.get(i - 1).unwrap_or(&DEFAULT_EXPR)
Arg(e, i) == IF i < Len(e.s) THEN e.s[i + 1] ELSE DefaultExpr
NArgs(e) == Len(e.s) - 1

\* A table row: the functions in fs are visited as k.
As(k, fs) == [f \in fs |-> k]

---------------------------------------------------------------------------
(* traverse_list: which function is visited as what.                       *)

DefineKinds ==
    As("define_constant", {"define-constant"}) @@ As("define_private", {"define-private"}) @@
    As("define_read_only", {"define-read-only"}) @@ As("define_public", {"define-public"}) @@
    As("define_nft", {"define-non-fungible-token"}) @@ As("define_ft", {"define-fungible-token"}) @@
    As("define_map", {"define-map"}) @@ As("define_data_var", {"define-data-var"}) @@
    As("define_trait", {"define-trait"}) @@ As("use_trait", {"use-trait"}) @@
    As("impl_trait", {"impl-trait"})

OperatorKinds ==
    As("arithmetic", {"+", "-", "*", "/", "mod", "pow", "sqrti", "log2"}) @@
    As("binary_bitwise", {"xor"}) @@ As("comparison", {"<", "<=", ">", ">=", "is-eq"}) @@
    As("lazy_logical", {"and", "or"}) @@ As("logical", {"not"}) @@
    As("int_cast", {"to-int", "to-uint"}) @@ As("if", {"if"})

SequenceKinds ==
    As("let", {"let"}) @@ As("element_at", {"element-at", "element-at?", "index-of", "index-of?"}) @@
    As("map", {"map"}) @@ As("fold", {"fold"}) @@ As("append", {"append"}) @@
    As("concat", {"concat"}) @@ As("as_max_len", {"as-max-len?"}) @@ As("len", {"len"}) @@
    As("list_cons", {"list"})

StateKinds ==
    As("var_get", {"var-get"}) @@ As("var_set", {"var-set"}) @@ As("map_get", {"map-get?"}) @@
    As("map_set", {"map-set"}) @@ As("map_insert", {"map-insert"}) @@ As("map_delete", {"map-delete"})

CallKinds ==
    As("tuple", {"tuple"}) @@ As("get", {"get"}) @@ As("merge", {"merge"}) @@ As("begin", {"begin"}) @@
    As("hash", {"hash160", "sha256", "sha512", "sha512/256", "keccak256"}) @@
    As("secp256k1_recover", {"secp256k1-recover?"}) @@ As("secp256k1_verify", {"secp256k1-verify"}) @@
    As("print", {"print"}) @@ As("contract_call", {"contract-call?"}) @@
    As("as_contract", {"as-contract"}) @@ As("as_contract_safe", {"as-contract?"}) @@
    As("contract_of", {"contract-of"}) @@ As("principal_of", {"principal-of?"}) @@
    As("at_block", {"at-block"}) @@ As("get_block_info", {"get-block-info?"}) @@
    As("get_stacks_block_info", {"get-stacks-block-info?"}) @@ As("get_tenure_info", {"get-tenure-info?"})

OptionKinds ==
    As("err", {"err"}) @@ As("ok", {"ok"}) @@ As("some", {"some"}) @@ As("default_to", {"default-to"}) @@
    As("asserts", {"asserts!"}) @@ As("unwrap", {"unwrap!"}) @@ As("unwrap_panic", {"unwrap-panic"}) @@
    As("is_ok", {"is-ok"}) @@ As("is_none", {"is-none"}) @@ As("is_err", {"is-err"}) @@
    As("is_some", {"is-some"}) @@ As("filter", {"filter"}) @@ As("unwrap_err", {"unwrap-err!"}) @@
    As("unwrap_err_panic", {"unwrap-err-panic"}) @@ As("match", {"match"}) @@ As("try", {"try!"})

TokenKinds ==
    As("stx_burn", {"stx-burn?"}) @@ As("stx_transfer", {"stx-transfer?", "stx-transfer-memo?"}) @@
    As("stx_get_balance", {"stx-get-balance"}) @@ As("ft_burn", {"ft-burn?"}) @@
    As("ft_transfer", {"ft-transfer?"}) @@ As("ft_get_balance", {"ft-get-balance"}) @@
    As("ft_get_supply", {"ft-get-supply"}) @@ As("ft_mint", {"ft-mint?"}) @@
    As("nft_burn", {"nft-burn?"}) @@ As("nft_transfer", {"nft-transfer?"}) @@
    As("nft_mint", {"nft-mint?"}) @@ As("nft_get_owner", {"nft-get-owner?"})

CastKinds ==
    As("buff_cast", {"buff-to-int-le", "buff-to-uint-le", "buff-to-int-be", "buff-to-uint-be"}) @@
    As("is_standard", {"is-standard"}) @@ As("principal_destruct", {"principal-destruct?"}) @@
    As("principal_construct", {"principal-construct?"}) @@
    As("string_to_int", {"string-to-int?", "string-to-uint?"}) @@
    As("int_to_string", {"int-to-ascii", "int-to-utf8"}) @@ As("to_ascii", {"to-ascii?"}) @@
    As("get_burn_block_info", {"get-burn-block-info?"}) @@ As("stx_get_account", {"stx-account"}) @@
    As("slice", {"slice?"}) @@ As("to_consensus_buff", {"to-consensus-buff?"}) @@
    As("from_consensus_buff", {"from-consensus-buff?"}) @@ As("replace_at", {"replace-at?"})

RecentKinds ==
    As("bitwise", {"bit-and", "bit-or", "bit-not", "bit-xor"}) @@
    As("bit_shift", {"bit-shift-left", "bit-shift-right"}) @@ As("contract_hash", {"contract-hash?"}) @@
    As("secp256r1_verify", {"secp256r1-verify"}) @@ As("restrict_assets", {"restrict-assets?"}) @@
    As("allowance", {"with-stx", "with-ft", "with-nft", "with-stacking", "with-all-assets-unsafe",
                     "with-staking", "with-pox"}) @@
    As("verify_merkle_proof", {"verify-merkle-proof"}) @@
    As("get_bitcoin_tx_output", {"get-bitcoin-tx-output?"}) @@
    As("ed25519_verify", {"ed25519-verify"}) @@ As("secp256k1_decompress", {"secp256k1-decompress?"})

NativeKinds == OperatorKinds @@ SequenceKinds @@ StateKinds @@ CallKinds @@ OptionKinds @@
               TokenKinds @@ CastKinds @@ RecentKinds

\* The versions of Clarity in which a native function exists.
Since(f, version) ==
    CASE f = "at-block"      -> version < 5
      [] f = "with-stacking" -> version < 6
      [] f = "with-staking"  -> version >= 6
      [] OTHER               -> TRUE
Native(f, version) == f \in DOMAIN NativeKinds /\ Since(f, version)

---------------------------------------------------------------------------
(* The traverse_* methods: which arguments a visit is preceded by, in      *)
(* order.  i is the i-th argument, Rest(i) every argument from the i-th,   *)
(* Maybe(i) the i-th when it is there.                                     *)

Rest(i)  == -i
Maybe(i) == 100 + i

DefineArgs ==
    As(<<2>>, {"define_constant", "define_private", "define_read_only", "define_public"})

DefineDataArgs ==
    As(<<>>, {"define_nft", "define_map", "define_trait", "use_trait", "impl_trait"}) @@
    As(<<Maybe(2)>>, {"define_ft"}) @@ As(<<3>>, {"define_data_var"})

OperatorArgs ==
    As(<<Rest(1)>>, {"arithmetic", "comparison", "lazy_logical", "logical"}) @@
    As(<<1, 2>>, {"binary_bitwise"}) @@ As(<<1>>, {"int_cast"}) @@ As(<<1, 2, 3>>, {"if"})

VarArgs == As(<<>>, {"var_get"}) @@ As(<<2>>, {"var_set"})

TupleArgs ==
    As(<<2>>, {"get"}) @@ As(<<1, 2>>, {"merge", "secp256k1_recover", "secp256k1_verify"}) @@
    As(<<Rest(1)>>, {"begin"}) @@ As(<<1>>, {"hash", "print"})

CallArgs ==
    As(<<Rest(3)>>, {"static_contract_call"}) @@ As(<<1, Rest(3)>>, {"dynamic_contract_call"}) @@
    As(<<1>>, {"as_contract"})

BlockArgs ==
    As(<<1>>, {"contract_of", "principal_of", "err", "ok", "some"}) @@ As(<<1, 2>>, {"at_block"}) @@
    As(<<2>>, {"get_block_info", "get_stacks_block_info", "get_tenure_info"})

OptionArgs == As(<<1, 2>>, {"default_to", "unwrap", "unwrap_err"})

PanicArgs ==
    As(<<1>>, {"is_ok", "is_none", "is_err", "is_some", "unwrap_panic", "unwrap_err_panic"}) @@
    As(<<2>>, {"filter"})

MatchArgs ==
    As(<<1, 3, 4>>, {"match_option"}) @@ As(<<1, 3, 5>>, {"match_response"}) @@
    As(<<1>>, {"try"}) @@ As(<<1, 2>>, {"asserts"})

StxArgs ==
    As(<<1, 2>>, {"stx_burn"}) @@ As(<<1, 2, 3, Maybe(4)>>, {"stx_transfer"}) @@
    As(<<1>>, {"stx_get_balance"})

FtArgs ==
    As(<<2, 3>>, {"ft_burn", "ft_mint"}) @@ As(<<2, 3, 4>>, {"ft_transfer"}) @@ As(<<2>>, {"ft_get_balance"}) @@ As(<<>>, {"ft_get_supply"})

NftArgs ==
    As(<<2, 3>>, {"nft_burn", "nft_mint"}) @@ As(<<2, 3, 4>>, {"nft_transfer"}) @@
    As(<<2>>, {"nft_get_owner"})

SequenceArgs ==
    As(<<Rest(2)>>, {"map"}) @@ As(<<2, 3>>, {"fold"}) @@ As(<<1, 2>>, {"append"}) @@
    As(<<Rest(1)>>, {"concat"}) @@ As(<<1>>, {"as_max_len", "len"})

ElementArgs == As(<<1, 2>>, {"element_at"}) @@ As(<<Rest(1)>>, {"list_cons", "call_user_defined"})

CastArgs ==
    As(<<1>>, {"buff_cast", "is_standard", "principal_destruct", "string_to_int", "int_to_string",
               "to_ascii", "stx_get_account"}) @@
    As(<<1, 2, Maybe(3)>>, {"principal_construct"})

BuffArgs ==
    As(<<1, 2, 3>>, {"slice"}) @@ As(<<2>>, {"get_burn_block_info"}) @@
    As(<<1>>, {"to_consensus_buff"}) @@ As(<<1, 2>>, {"from_consensus_buff"})

BitArgs ==
    As(<<1, 2, 3>>, {"replace_at"}) @@ As(<<Rest(1)>>, {"bitwise"}) @@ As(<<1, 2>>, {"bit_shift"}) @@
    As(<<1>>, {"contract_hash"})

RecentArgs ==
    As(<<1, 2, 3>>, {"secp256r1_verify", "ed25519_verify"}) @@
    As(<<1, 2, 3, 4, 5>>, {"verify_merkle_proof"}) @@ As(<<1, 2>>, {"get_bitcoin_tx_output"}) @@
    As(<<1>>, {"allowance", "secp256k1_decompress"})

VisitArgs == DefineArgs @@ DefineDataArgs @@ OperatorArgs @@ VarArgs @@ TupleArgs @@ CallArgs @@ BlockArgs @@
             OptionArgs @@ PanicArgs @@ MatchArgs @@ StxArgs @@ FtArgs @@ NftArgs @@ SequenceArgs @@
             ElementArgs @@ CastArgs @@ BuffArgs @@ BitArgs @@ RecentArgs

---------------------------------------------------------------------------
(* Pairs, tuples and the traversal.                                        *)

\* A part of an expression: where it is, seen from the expression, and what it is.
Part(e, i) == [p |-> <<i + 1>>, e |-> Arg(e, i)]
PartsFrom(e, i) == [j \in 1..(IF NArgs(e) >= i THEN NArgs(e) - i + 1 ELSE 0) |-> Part(e, i + j - 1)]
Flip(s, rev) == IF rev THEN [i \in 1..Len(s) |-> s[Len(s) + 1 - i]] ELSE s

IsPair(e) == IsList(e) /\ Len(e.s) = 2
\* match_pairs: a hash map keeps one value of a name, in an order of its own.
match_pairs(e) == IsList(e) /\ \A i \in 1..Len(e.s) : IsPair(e.s[i]) /\ IsAtom(e.s[i].s[1])
match_pairs_list(s) == \A i \in 1..Len(s) : IsPair(s[i]) /\ IsAtom(s[i].s[1])
match_tuple(e) == Head1(e) = "tuple" /\ \A i \in 1..NArgs(e) : IsPair(Arg(e, i))

\* The value of the last pair of each name, at path q within its parent.
PairValues(s, q, from, rev) ==
    LET key(i) == IF IsAtom(s[i].s[1]) THEN s[i].s[1].n ELSE ""
        idx == SelectSeq([i \in 1..Len(s) |-> i],
                         LAMBDA i : i >= from /\ ~ \E j \in (i + 1)..Len(s) : key(j) = key(i))
    IN Flip([k \in 1..Len(idx) |-> [p |-> q \o <<idx[k], 2>>, e |-> s[idx[k]].s[2]]], rev)

\* The values of a key or value argument: the fields of a tuple, or the expression itself.
FieldParts(e, i, rev) ==
    IF match_tuple(Arg(e, i)) THEN PairValues(Arg(e, i).s, <<i + 1>>, 2, rev) ELSE <<Part(e, i)>>
LetParts(e, rev) ==
    (IF match_pairs(Arg(e, 1)) THEN PairValues(Arg(e, 1).s, <<2>>, 1, rev) ELSE <<>>) \o PartsFrom(e, 2)
TupleParts(e, rev) == IF match_tuple(e) THEN PairValues(e.s, <<>>, 2, rev) ELSE <<>>
AllowanceParts(e, i) ==
    IF IsList(Arg(e, i))
    THEN [j \in 1..Len(Arg(e, i).s) |-> [p |-> <<i + 1, j>>, e |-> Arg(e, i).s[j]]]
    ELSE <<>>
AllowanceOrPart(e, i) == IF IsList(Arg(e, i)) THEN AllowanceParts(e, i) ELSE <<Part(e, i)>>

\* What traverse_list makes of a list.
KindOf(e, version) ==
    LET f == Head1(e) IN
    CASE f = "" -> "none"
      [] f \in DOMAIN DefineKinds ->
           IF f \in {"define-private", "define-read-only", "define-public"} /\ ~ IsList(Arg(e, 1))
           THEN "body_only" ELSE DefineKinds[f]
      [] f \notin DOMAIN DefineKinds /\ f # "" /\ Native(f, version) ->
           (CASE f = "match" -> IF NArgs(e) = 4 THEN "match_option" ELSE "match_response"
              [] f = "contract-call?" -> IF IsLit(Arg(e, 1), "contract") THEN "static_contract_call"
                                         ELSE "dynamic_contract_call"
              [] f = "as-max-len?" -> IF IsLit(Arg(e, 2), "uint") THEN "as_max_len" ELSE "all_args"
              [] OTHER -> NativeKinds[f])
      [] OTHER -> "call_user_defined"

ArgParts(e, is) ==
    LET Expand(i) == IF i < 0 THEN PartsFrom(e, -i)
                     ELSE IF i > 100 THEN (IF NArgs(e) >= i - 100 THEN <<Part(e, i - 100)>> ELSE <<>>)
                     ELSE <<Part(e, i)>>
        F[n \in 0..Len(is)] == IF n = 0 THEN <<>> ELSE F[n - 1] \o Expand(is[n])
    IN F[Len(is)]
Parts(e, k, rev) ==
    CASE k = "none" -> <<>>
      [] k = "body_only" -> <<Part(e, 2)>>
      [] k = "all_args" -> PartsFrom(e, 1)
      [] k = "let" -> LetParts(e, rev)
      [] k = "tuple" -> TupleParts(e, rev)
      [] k \in {"map_get", "map_delete"} -> FieldParts(e, 2, rev)
      [] k \in {"map_set", "map_insert"} -> FieldParts(e, 2, rev) \o FieldParts(e, 3, rev)
      [] k = "as_contract_safe" -> AllowanceOrPart(e, 1) \o PartsFrom(e, 2)
      [] k = "restrict_assets" -> <<Part(e, 1)>> \o AllowanceParts(e, 2) \o PartsFrom(e, 3)
      [] OTHER -> ArgParts(e, VisitArgs[k])

Visit(k, e, p) == [k |-> k, e |-> e, p |-> p]

\* The visits of an expression at path p: its parts first, then itself, then the list.
RECURSIVE Traverse(_, _, _, _)
TraverseParts(ps, p, version, rev) ==
    LET F[n \in 0..Len(ps)] ==
            IF n = 0 THEN <<>> ELSE F[n - 1] \o Traverse(ps[n].e, p \o ps[n].p, version, rev)
    IN F[Len(ps)]
TraverseList(e, k, p, version, rev) ==
    TraverseParts(Parts(e, k, rev), p, version, rev)
      \o (IF k \in {"none", "body_only", "all_args"} THEN <<>> ELSE <<Visit(k, e, p)>>)
      \o <<Visit("list", e, p)>>
Traverse(e, p, version, rev) ==
    IF IsList(e) THEN TraverseList(e, KindOf(e, version), p, version, rev) ELSE <<Visit(e.t, e, p)>>

\* traverse: all the expressions of a contract.
TraverseAll(exprs, version, rev) ==
    LET F[n \in 0..Len(exprs)] ==
            IF n = 0 THEN <<>> ELSE F[n - 1] \o Traverse(exprs[n], <<n>>, version, rev)
    IN F[Len(exprs)]

-----------------------------------------------------------------------------
(* The VM. *)

IntVal(n) == [ty |-> "int", n |-> n]
BoolVal(b) == [ty |-> "bool", n |-> IF b THEN 1 ELSE 0]
Resp(ok, v) == [ty |-> IF ok THEN "ok" ELSE "err", n |-> v.n]
Unit == BoolVal(TRUE)
None == [ty |-> "none", n |-> 0]
ListVal(vs) == [ty |-> "list", vs |-> vs]
ContractVal(c) == [ty |-> "principal", c |-> c]
Truthy(v) == v = BoolVal(TRUE)

\* Sizes of values: in memory, and serialized, which is what storage is charged by.
TypeBytes == [int |-> 16, uint |-> 16, bool |-> 1, principal |-> 21, ok |-> 17, err |-> 17]
SizeSum(vs, size(_)) == LET F[i \in 0..Len(vs)] == IF i = 0 THEN 0 ELSE F[i - 1] + size(vs[i]) IN F[Len(vs)]
ValueBytes(v) == IF v.ty = "list" THEN 5 + SizeSum(v.vs, LAMBDA x : TypeBytes[x.ty]) ELSE TypeBytes[v.ty]
StoredBytes(v) ==
    LET one(x) == IF x.ty = "bool" THEN 1 ELSE TypeBytes[x.ty] + 1
    IN IF v.ty = "list" THEN 5 + SizeSum(v.vs, one) ELSE one(v)

\* What the VM charges: list expressions that it looked up a function for, accesses to storage and
\* their bytes; and how many calls went to a contract that a parameter holds.
NothingSpent == [lookups |-> 0, reads |-> 0, writes |-> 0, read_length |-> 0, write_length |-> 0, dynamic |-> 0]
Reading(m, bytes) == [m EXCEPT !.spent.reads = @ + 1, !.spent.read_length = @ + bytes]
Writing(m, bytes) ==
    [m EXCEPT !.spent.reads = @ + 1, !.spent.writes = @ + 1, !.spent.write_length = @ + bytes]
KeyBytes == TypeBytes["int"] + 1

\* A machine: the data variables, the hook calls so far (which node of which contract began, or
\* finished and how), what was spent, and how the last expression ended: "ok", "ret" (an early
\* return of val) or "fail" (a runtime error).
Machine(vars) == [vars |-> vars, tr |-> <<>>, spent |-> NothingSpent, end |-> "ok", val |-> Unit]
Done(m, v) == [m EXCEPT !.val = v]
Fails(m) == [m EXCEPT !.end = "fail"]
Returns(m, v) == [m EXCEPT !.end = "ret", !.val = v]
CheckedInt(m, n) == IF n \in (-(MaxInt + 1))..MaxInt THEN Done(m, IntVal(n)) ELSE Fails(m)

\* The functions of a contract: name -> [params, body, at].
FnItems(exprs) ==
    {i \in 1..Len(exprs) : Head1(exprs[i]) \in {"define-private", "define-public", "define-read-only"}}
FnName(e) == Arg(e, 1).s[1].n
FnOf(exprs, i) ==
    [params |-> [j \in 1..(Len(Arg(exprs[i], 1).s) - 1) |-> Arg(exprs[i], 1).s[j + 1].s[1].n],
     body |-> Arg(exprs[i], 2), at |-> <<i, 3>>]
FnTable(exprs) ==
    [f \in {FnName(exprs[i]) : i \in FnItems(exprs)} |->
        FnOf(exprs, CHOOSE i \in FnItems(exprs) : FnName(exprs[i]) = f)]

\* The code that can be called: the functions and constants of each contract, and which of them is
\* running.  The functions of contracts that are called together have different variables.
World(code, self) == [code |-> code, self |-> self]
FnDef(fns, f) == fns.code[fns.self].fns[f]

Quot(a, b) == LET q == (IF a < 0 THEN -a ELSE a) \div (IF b < 0 THEN -b ELSE b)
              IN IF (a < 0) = (b < 0) THEN q ELSE -q

\* Checked arithmetic from left to right.
Fold(f, m, vals) ==
    LET F[i \in 1..Len(vals)] ==
            IF i = 1 THEN Done(m, vals[1])
            ELSE LET prev == F[i - 1]
                     a == prev.val.n
                     b == vals[i].n
                 IN CASE prev.end = "fail" -> prev
                      [] f = "+" /\ prev.end # "fail" -> CheckedInt(prev, a + b)
                      [] f = "-" /\ prev.end # "fail" -> CheckedInt(prev, a - b)
                      [] f = "*" /\ prev.end # "fail" -> CheckedInt(prev, a * b)
                      [] OTHER -> IF b = 0 THEN Fails(prev) ELSE CheckedInt(prev, Quot(a, b))
    IN IF f = "-" /\ Len(vals) = 1 THEN CheckedInt(m, -vals[1].n) ELSE F[Len(vals)]

Strict(f, m, vals) ==
    CASE f \in {"+", "-", "*", "/"} -> Fold(f, m, vals)
      [] f = "not"   -> Done(m, BoolVal(~ Truthy(vals[1])))
      [] f = "is-eq" -> Done(m, BoolVal(\A i \in 1..Len(vals) : vals[i] = vals[1]))
      [] f = "<"     -> Done(m, BoolVal(vals[1].n < vals[2].n))
      [] f = "ok"    -> Done(m, Resp(TRUE, vals[1]))
      [] f = "err"   -> Done(m, Resp(FALSE, vals[1]))
      [] f = "print" -> Done(m, vals[1])
      [] f = "is-some" -> Done(m, BoolVal(vals[1] # None))
      [] f = "try!"  -> IF vals[1].ty = "ok" THEN Done(m, IntVal(vals[1].n)) ELSE Returns(m, vals[1])
      [] f = "unwrap-panic" -> IF vals[1].ty = "ok" THEN Done(m, IntVal(vals[1].n)) ELSE Fails(m)
      [] f = "list"  -> Done(m, ListVal(vals))
      [] f = "stx-get-balance" -> Done(Reading(m, 0), IntVal(0))
      [] OTHER -> Done(m, BoolVal(FALSE))
\* Nobody owns STX here, and no signature is right.
StrictFns == {"+", "-", "*", "/", "not", "is-eq", "<", "ok", "err", "print", "is-some", "try!", "unwrap-panic", "list",
              "stx-get-balance", "secp256k1-verify"}

\* Writes of a variable, of the one key of a map and of the supply of a token.
Stores == {"var-set", "map-set", "map-insert", "ft-mint?"}
Store(f, x, m) ==
    LET n == m.vars[x].n + m.val.n
        kept(more) == Writing([m EXCEPT !.vars[x] = m.val], StoredBytes(m.val) + more)
    IN CASE f = "var-set" -> Done(kept(0), Unit)
         [] f = "map-set" -> Done(kept(KeyBytes), Unit)
         [] f = "map-insert" -> IF m.vars[x] = None THEN Done(kept(KeyBytes), Unit)
                                ELSE Done(Writing(m, KeyBytes), BoolVal(FALSE))
         [] OTHER -> LET paid == Writing(Writing(m, 0), 0)
                     IN IF n > MaxInt THEN Fails(paid)
                        ELSE Done([paid EXCEPT !.vars[x] = IntVal(n)], Resp(TRUE, Unit))

\* Reads of a variable, of the one key of a map and of the supply of a token.
Loads == {"var-get", "map-get?", "ft-get-supply"}
Load(f, x, m) ==
    LET v == m.vars[x]
    IN CASE f = "var-get"  -> Done(Reading(m, StoredBytes(v)), v)
         [] f = "map-get?" -> Done(Reading(m, KeyBytes + (IF v = None THEN 0 ELSE StoredBytes(v) + 1)), v)
         [] OTHER          -> Done(Reading(m, 0), v)

\* Eval: the node e at path p; Evaluated: between the two hook calls; Steps: nodes in order until one does not end with "ok".
RECURSIVE Eval(_, _, _, _, _)
Stepped(before, r) == [m |-> r, vals |-> Append(before.vals, r.val)]
Steps(fns, parts, env, m) ==
    LET F[i \in 0..Len(parts)] ==
            IF i = 0 THEN [m |-> m, vals |-> <<>>]
            ELSE LET prev == F[i - 1] IN
                 IF prev.m.end # "ok" THEN prev
                 ELSE Stepped(prev, Eval(fns, parts[i].e, parts[i].p, env, prev.m))
    IN F[Len(parts)]

\* The bindings of a let, each seen by the next.
Binding(before, x, r) == [m |-> r, env |-> [before.env EXCEPT !.local = (x :> r.val) @@ @]]
Binds(fns, bs, p, env, m) ==
    LET F[i \in 0..Len(bs)] ==
            IF i = 0 THEN [m |-> m, env |-> env]
            ELSE LET prev == F[i - 1] IN
                 IF prev.m.end # "ok" THEN prev
                 ELSE Binding(prev, bs[i].s[1].n, Eval(fns, bs[i].s[2], p \o <<2, i, 2>>, prev.env, prev.m))
    IN F[Len(bs)]

\* Names: the constants of the contract, and the parameters and bindings around an expression.
Names(global, local) == [global |-> global, local |-> local]
Lookup(x, env) ==
    CASE x = "true" -> BoolVal(TRUE) [] x = "false" -> BoolVal(FALSE)
      [] OTHER -> IF x \in DOMAIN env.local THEN env.local[x] ELSE env.global[x]

\* The end of a function: an early return is its value.
Returned(r) == IF r.end = "ret" THEN [r EXCEPT !.end = "ok"] ELSE r
Apply(fns, f, vals, env, m) ==
    LET fn == FnDef(fns, f)
        value(x) == vals[CHOOSE i \in 1..Len(fn.params) : fn.params[i] = x]
        params == [x \in {fn.params[i] : i \in 1..Len(fn.params)} |-> value(x)]
    IN Returned(Eval(fns, fn.body, fn.at, Names(env.global, params), m))

\* A call of another contract, named or held by a parameter: an (err ...) undoes what it stored.
Undone(r, vars) == IF r.end = "ok" /\ r.val.ty = "err" THEN [r EXCEPT !.vars = vars] ELSE r
CallContract(fns, e, vals, env, m) ==
    LET named == e.s[2].t = "lit"
        c == IF named THEN e.s[2].v ELSE Lookup(e.s[2].n, env).c
        loaded == [Reading(m, fns.code[c].bytes) EXCEPT !.spent.dynamic = IF named THEN @ ELSE @ + 1]
    IN IF c \notin DOMAIN fns.code THEN Fails(m)
       ELSE Undone(Apply([fns EXCEPT !.self = c], Arg(e, 2).n, vals, Names(fns.code[c].consts, <<>>), loaded), m.vars)

\* A function applied to the elements of a list: map collects, fold carries the last value on.
Overs == {"map", "fold"}
ApplyFn(fns, f, vals, env, m) ==
    IF f \in StrictFns THEN Strict(f, m, vals) ELSE Apply(fns, f, vals, env, m)
Collected(fold, end) == IF fold \/ end.m.end # "ok" THEN end.m ELSE Done(end.m, ListVal(end.vals))
Over(fns, e, vals, env, m) ==
    LET vs == vals[1].vs
        fold == Head1(e) = "fold"
        F[i \in 0..Len(vs)] ==
            IF i = 0 THEN [m |-> IF fold THEN Done(m, vals[2]) ELSE m, vals |-> <<>>]
            ELSE LET prev == F[i - 1] IN
                 IF prev.m.end # "ok" THEN prev
                 ELSE Stepped(prev, ApplyFn(fns, Arg(e, 1).n,
                                            IF fold THEN <<vs[i], prev.m.val>> ELSE <<vs[i]>>, env, prev.m))
    IN Collected(fold, F[Len(vs)])

Lazy(fns, e, p, env, m) ==
    LET stop == BoolVal(Head1(e) = "or")
        F[i \in 0..NArgs(e)] ==
            IF i = 0 THEN Done(m, BoolVal(Head1(e) = "and"))
            ELSE LET prev == F[i - 1]
                 IN IF prev.end # "ok" \/ prev.val = stop THEN prev
                    ELSE Eval(fns, Arg(e, i), p \o <<i + 1>>, env, prev)
    IN F[NArgs(e)]

\* A let whose bindings, and a list whose arguments, have been evaluated.
Body(fns, parts, b) == IF b.m.end # "ok" THEN b.m ELSE Steps(fns, parts, b.env, b.m).m
Applied(fns, e, env, a) ==
    IF a.m.end # "ok" THEN a.m
    ELSE CASE Head1(e) \in Overs -> Over(fns, e, a.vals, env, a.m)
           [] Head1(e) = "contract-call?" -> CallContract(fns, e, a.vals, env, a.m)
           [] OTHER -> ApplyFn(fns, Head1(e), a.vals, env, a.m)
Ended(fns, p, r) == [r EXCEPT !.tr = Append(@, <<"end", fns.self, p, r.end>>)]

Begun(fns, e, p, m) ==
    [m EXCEPT !.tr = Append(@, <<"begin", fns.self, p, "ok">>),
              !.spent.lookups = IF IsList(e) THEN @ + 1 ELSE @]

\* The arm of a match on the value of m, in which a name may be bound to what the value holds.
Arm(fns, e, p, env, m, right) ==
    LET i == IF ~ right THEN 3 ELSE IF NArgs(e) = 4 THEN 4 ELSE 5
        name == IF ~ right THEN Arg(e, 2).n ELSE Arg(e, 4).n
    IN Eval(fns, Arg(e, i), p \o <<i + 1>>,
            IF m.val = None THEN env ELSE [env EXCEPT !.local = (name :> IntVal(m.val.n)) @@ @], m)

\* The arguments of the allowances of an as-contract?.  The contract moves no assets.
AllowanceArgs(e, p) ==
    LET as == Arg(e, 1).s
        of(i) == [j \in 1..NArgs(as[i]) |-> [p |-> p \o <<2, i, j + 1>>, e |-> Arg(as[i], j)]]
        F[i \in 0..Len(as)] == IF i = 0 THEN <<>> ELSE F[i - 1] \o of(i)
    IN F[Len(as)]
AsOk(m) == IF m.end = "ok" THEN Done(m, Resp(TRUE, m.val)) ELSE m

Evaluated(fns, e, p, env, begun) ==
    LET f == Head1(e)
        from(i) == [j \in 1..(NArgs(e) - i + 1) |-> [p |-> p \o <<i + j>>, e |-> Arg(e, i + j - 1)]]
        one(i, mm) == Eval(fns, Arg(e, i), p \o <<i + 1>>, env, mm)
        first == one(1, begun)
    IN CASE e.t = "lit"  -> Done(begun, IntVal(e.v))
         [] e.t = "atom" -> Done(begun, Lookup(e.n, env))
         [] f \in {"and", "or"} -> Lazy(fns, e, p, env, begun)
         [] f = "if" -> IF first.end # "ok" THEN first
                        ELSE one(IF Truthy(first.val) THEN 2 ELSE 3, first)
         [] f = "asserts!" ->
              IF first.end # "ok" \/ Truthy(first.val) THEN first
              ELSE LET thrown == one(2, first)
                   IN IF thrown.end # "ok" THEN thrown ELSE Returns(thrown, thrown.val)
         [] f = "begin" -> Steps(fns, from(1), env, begun).m
         [] f = "as-contract?" -> AsOk(Steps(fns, AllowanceArgs(e, p) \o from(2), env, begun).m)
         [] f = "let" -> Body(fns, from(2), Binds(fns, Arg(e, 1).s, p, env, begun))
         [] f = "match" ->
              IF first.end # "ok" THEN first
              ELSE Arm(fns, e, p, env, first, first.val = None \/ first.val.ty = "err")
         [] f \in Loads -> Load(f, Arg(e, 1).n, begun)
         [] f \in Stores -> LET r == one(IF f \in {"map-set", "map-insert"} THEN 3 ELSE 2, begun)
                            IN IF r.end # "ok" THEN r ELSE Store(f, Arg(e, 1).n, r)
         [] f = "as-max-len?" ->
              IF first.end # "ok" \/ Len(first.val.vs) <= Arg(e, 2).v THEN first ELSE Done(first, None)
         [] OTHER -> LET skipped == IF f = "contract-call?" THEN 2 ELSE IF f \in Overs THEN 1 ELSE 0
                     IN Applied(fns, e, env, Steps(fns, from(1 + skipped), env, begun))

Eval(fns, e, p, env, m) == Ended(fns, p, Evaluated(fns, e, p, env, Begun(fns, e, p, m)))

---------------------------------------------------------------------------
(* Contracts.                                                              *)

Items(exprs, f) == {i \in 1..Len(exprs) : Head1(exprs[i]) = f}
Constants(exprs) ==
    LET fns == FnTable(exprs)
        F[n \in 0..Len(exprs)] ==
            IF n = 0 THEN <<>>
            ELSE LET prev == F[n - 1]
                     e == exprs[n]
                     world == World("c" :> [fns |-> fns, consts |-> prev], "c")
                 IN IF Head1(e) # "define-constant" THEN prev
                    ELSE (Arg(e, 1).n :> Eval(world, Arg(e, 2), <<n, 3>>, Names(prev, <<>>),
                                              Machine(<<>>)).val) @@ prev
    IN F[Len(exprs)]
\* What a contract stores, and states of it.
Stored(exprs) ==
    {Arg(exprs[i], 1).n : i \in Items(exprs, "define-data-var") \cup Items(exprs, "define-map")
                                  \cup Items(exprs, "define-fungible-token")}
StatesOf(exprs, values) ==
    LET maps == {Arg(exprs[i], 1).n : i \in Items(exprs, "define-map")}
        fts == {Arg(exprs[i], 1).n : i \in Items(exprs, "define-fungible-token")}
    IN {[x \in Stored(exprs) |-> CASE x \in maps -> IF v = 0 THEN None ELSE IntVal(v)
                                    [] x \in fts  -> IntVal(0)
                                    [] OTHER      -> IntVal(v)] : v \in values}

\* The name of the contract that is looked at.
Own == <<"transient", "contract">>
\* The code of a contract, and the bytes of its text and of its constants.
CodeWith(exprs, consts) ==
    LET F[S \in SUBSET DOMAIN consts] ==
            IF S = {} THEN 0 ELSE LET x == CHOOSE y \in S : TRUE IN F[S \ {x}] + ValueBytes(consts[x])
    IN [fns |-> FnTable(exprs), consts |-> consts, bytes |-> Len(exprs) + F[DOMAIN consts]]
Code(exprs) == CodeWith(exprs, Constants(exprs))
\* A call of a function from outside, next to the contracts in others: what it returns and the
\* variables it leaves.  Only the effects of a public call that ends in (ok ...) stay.
Settled(r, vars) == IF r.end = "ok" /\ r.val.ty = "ok" THEN r ELSE [r EXCEPT !.vars = vars]
CallIn(code, others, f, vals, vars) ==
    Settled(Apply(World((Own :> code) @@ others, Own), f, vals, Names(code.consts, <<>>),
                  Reading(Machine(vars), code.bytes)), vars)
CallAmong(exprs, others, f, vals, vars) == CallIn(Code(exprs), others, f, vals, vars)
CallFn(exprs, f, vals, vars) == CallAmong(exprs, <<>>, f, vals, vars)
=============================================================================
