------------------------- MODULE MCContractEditing -------------------------
(* Contracts of a constant, a data variable, two private functions and a public one. *)
EXTENDS ContractEditing

N(k) == Lit("int", k)
\* An item on one line, and one on several, with what is written before its lines.
Item(e) == [e |-> e, breaks |-> {}, notes |-> <<NoNote>>]
Wrapped(e, breaks, notes) ==
    [e |-> e, breaks |-> breaks, notes |-> [k \in 1..(Cardinality(breaks) + 1) |-> IF k \in DOMAIN notes THEN notes[k] ELSE NoNote]]
Sig(f, params) == List(<<Atom(f)>> \o [i \in 1..Len(params) |-> List(<<Atom(params[i]), Atom("int")>>)])

Const == Call("define-constant", <<Atom("C"), N(1)>>)
Var == Call("define-data-var", <<Atom("v"), Atom("int"), N(0)>>)
SetV(e) == Call("var-set", <<Atom("v"), e>>)
GetV == Call("var-get", <<Atom("v")>>)

FOfY == Call("define-private", <<Sig("f", <<"y">>), Call("+", <<Atom("y"), N(1)>>)>>)
FDef(b) == Call("define-private", <<Sig("f", <<"x">>), b>>)
HDef == Call("define-private", <<Sig("h", <<>>), Call("f", <<Atom("C")>>)>>)

Leaves == {N(0), N(1), GetV, Atom("C"), Call("f", <<N(1)>>)}
Few == {N(0), N(1), GetV}
Ops == {"+", "*", "-", "/"}
Binary(as, bs) == {Call(o, <<a, b>>) : o \in Ops, a \in as, b \in bs}
Shallow == Binary(Leaves, Leaves) \cup {Call(o, <<a>>) : o \in Ops, a \in Leaves}
CallsF == Binary(Leaves, {Call("f", <<N(1)>>)})
Overflowing == {Call(o, <<GetV, N(1), N(1), a>>) : o \in {"+", "-"}, a \in {N(0), N(1)}}
Deep == {Call(o, <<GetV, Call(q, <<b, d>>)>>) : o \in Ops, q \in {"+", "*"}, b \in Few, d \in Few}
Bools == {Atom("true"), Atom("false"), SetV(N(1)), Call("<", <<GetV, N(0)>>)}
Returning == {Call("and", <<Call("asserts!", <<Call("<", <<GetV, N(0)>>), Call("err", <<N(1)>>)>>), b>>) : b \in {Atom("false"), Atom("true")}}
Tests == {Call(o, <<a, b>>) : o \in {"and", "or", "is-eq"}, a \in Bools, b \in Bools}
          \cup {Call("not", <<Call("not", <<a>>)>>) : a \in Bools}
Let(bs, e) == Call("let", <<List([i \in 1..Len(bs) |-> List(<<Atom(bs[i][1]), bs[i][2]>>)]), e>>)
Lets == {Let(<<<<"y", a>>, <<"w", b>>>>, Call("+", <<b, d>>)) :
         a \in Few, b \in {Atom("y"), N(0)}, d \in {Atom("w"), Call("f", <<Atom("y")>>)}}
Blocks == {Call("begin", <<Call("begin", <<SetV(a), a>>), b>>) : a \in Few, b \in Few}
Public(b) == Call("define-public", <<Sig("g", <<>>), Call("ok", <<b>>)>>)

\* More definitions, and what public code does with them.
MapDef == Call("define-map", <<Atom("m"), Atom("int"), Atom("int")>>)
FtDef == Call("define-fungible-token", <<Atom("t")>>)
TraitUse == Call("use-trait", <<Atom("tr"), Lit("trait-id", <<"transient", "other">>)>>)
Key == N(1)
MapUses == {Call("map-set", <<Atom("m"), Key, N(1)>>), Call("map-insert", <<Atom("m"), Key, N(1)>>),
            Call("is-some", <<Call("map-get?", <<Atom("m"), Key>>)>>), Atom("true")}
FtUses == {Call("ft-mint?", <<Atom("t"), N(1), Atom("C")>>), Call("ok", <<Call("ft-get-supply", <<Atom("t")>>)>>)}
Wrong == {Call("f", <<N(1), N(1)>>)}
Odd == {Call("at-block", <<N(0), GetV>>), Call("tuple", <<List(<<Atom("k"), GetV>>)>>),
        Call("as-max-len?", <<Call("list", <<GetV>>), Lit("uint", 1)>>), Call("unwrap-panic", <<Call("ok", <<GetV>>)>>)}
ZDef(b) == Call("define-private", <<Sig("z", <<>>), b>>)
TraitSig(f) == List(<<Atom(f), List(<<Atom("x"), TraitRef("tr")>>)>>)
RDef(k) == Call(k, <<TraitSig("r"), Call("ok", <<N(0)>>)>>)

\* Costs: branches, early returns, lists, calls that are narrowed, other contracts and traits.
Typed(f, ps) == List(<<Atom(f)>> \o [i \in 1..Len(ps) |-> List(<<Atom(ps[i][1]), ps[i][2]>>)])
Private(f, ps, b) == Call("define-private", <<Typed(f, ps), b>>)
PublicOf(ps, b) == Call("define-public", <<Typed("g", ps), b>>)
Bool == Atom("bool")
Ints(n) == Call("list", <<Lit("uint", n), Atom("int")>>)
Ok(e) == Call("ok", <<e>>)
If(b, x, y) == Call("if", <<b, x, y>>)
Id(c) == <<"transient", c>>
Lib(c) == Lit("contract", Id(c))
CallOf(c, x) == Call("contract-call?", <<c, Atom("add"), x>>)
SumDef == Private("f", <<<<"x", Atom("int")>>, <<"y", Atom("int")>>>>, Call("begin", <<SetV(Atom("x")), Call("+", <<Atom("x"), Atom("y")>>)>>))
Choose == Private("f", <<<<"x", Bool>>>>, If(Atom("x"), SetV(N(1)), If(Call("not", <<Atom("x")>>), Atom("true"), Call("<", <<GetV, N(0)>>))))
Walk == Private("h", <<<<"z", Ints(2)>>>>, Call("fold", <<Atom("f"), Atom("z"), N(0)>>))
Demand(e) == Call("asserts!", <<Call("<", <<GetV, e>>), Call("err", <<N(1)>>)>>)
Bounded == Call("is-some", <<Call("as-max-len?", <<Call("list", <<GetV, Call("+", <<GetV, N(1)>>)>>), Lit("uint", 1)>>)>>)
CostItems ==
    {<<Const, Var, PublicOf(<<<<"b", Bool>>>>, b)>> : b \in
        {If(Atom("b"), Call("begin", <<SetV(N(1)), Ok(GetV)>>), Call("err", <<GetV>>)),
         Call("begin", <<Demand(N(1)), SetV(N(1)), Demand(N(0)), Ok(Atom("C"))>>),
         Let(<<<<"y", GetV>>, <<"w", Atom("b")>>>>, If(Atom("w"), Ok(Atom("y")), Ok(Call("+", <<Atom("y"), GetV>>)))),
         Ok(If(Atom("b"), CallOf(Lib("lib"), N(1)), CallOf(Lib("alt"), GetV))),
         Call("match", <<CallOf(Lib("alt"), N(1)), Atom("y"), Ok(Call("+", <<Atom("y"), GetV>>)), Atom("w"), Call("err", <<Atom("w")>>)>>),
         Ok(CallOf(Lib("gone"), N(1))), Ok(Bounded), Ok(Call("or", <<Atom("b"), Call("<", <<GetV, N(0)>>), SetV(N(0))>>))}}
    \cup {<<Var, Choose, PublicOf(<<<<"b", Bool>>>>, Ok(Call("f", <<a>>)))>> : a \in {Atom("b"), Atom("true"), Atom("false")}}
    \cup {<<Var, SumDef, Walk, PublicOf(<<<<"w", Ints(1)>>>>, Ok(Call(o[1], o[2])))>> :
             o \in {<<"h", <<Call("list", <<N(0)>>)>>>>, <<"h", <<Atom("w")>>>>, <<"fold", <<Atom("f"), Atom("w"), N(0)>>>>,
                     <<"fold", <<Atom("f"), Call("list", <<GetV>>), N(0)>>>>}}
Through == CallOf(Atom("x"), N(1))
Twice == Call("begin", <<Call("try!", <<Through>>), Through>>)
TraitUses(t) == Call("use-trait", <<Atom(t), Lit("trait-id", <<"transient", "other">>)>>)
TraitItems ==
    LET negative == Call("<", <<GetV, N(0)>>)
        toF == Call("f", <<Atom("x")>>)
        given(t) == <<<<"x", TraitRef(t)>>>>
    IN {<<TraitUses(t), Var, Private("f", given(t), If(negative, Twice, Through)), PublicOf(given(t), b)>> :
           t \in {"tr", "tq"}, b \in {Through, toF, Call("begin", <<Call("try!", <<Through>>), toF>>), If(negative, Twice, toF)}}
MCLibraries ==
    [c \in {Id("lib"), Id("alt")} |->
        LET v == IF c = Id("lib") THEN "lv" ELSE "av" IN
        [version |-> IF c = Id("lib") THEN 3 ELSE 6, exprs |->
        <<Call("define-constant", <<Atom("D"), N(1)>>), Call("define-data-var", <<Atom(v), Atom("int"), N(0)>>),
          Call("define-public", <<Typed("add", <<<<"k", Atom("int")>>>>),
              Call("begin", IF c = Id("lib") THEN <<Call("var-set", <<Atom(v), Atom("k")>>), Ok(Atom("D"))>>
                            ELSE <<Ok(Call("var-get", <<Atom(v)>>))>>)>>)>>]]
MCImpls == [tr |-> <<Id("lib"), Id("alt")>>, tq |-> <<Id("gone"), Id("lib")>>]

\* Constants that are named only where no tool looks, and a body whose storage is not counted.
Verify == Call("secp256k1-verify", <<N(0), N(1), Atom("C")>>)
Allowing == Call("as-contract?", <<List(<<Call("with-ft", <<Lib("lib"), Lit("ascii", "t"), Atom("C")>>)>>), Atom("true")>>)
Balance(e) == Private("h", <<>>, Call("stx-get-balance", <<e>>))
Hidden == {<<Const, PublicOf(<<>>, Ok(b))>> : b \in {Verify, Allowing}}
            \cup {<<Var, FOfY, Balance(e), PublicOf(<<>>, Ok(Call("h", <<>>)))>> : e \in {Call("f", <<N(0)>>), N(0)}}

\* Text on several lines.
BodyLine == <<3>>
ExprLine == <<3, 2>>
LetLines == {BodyLine, <<3, 2, 2, 1, 2>>, <<3, 2, 2, 2>>, <<3, 2, 3>>}
Env == [kind |-> "env", lints |-> {}]
Filter == [kind |-> "filter", lints |-> {}]
ErrConst(x, e) == Call("define-constant", <<Atom(x), e>>)
OneField == Call("tuple", <<List(<<Atom("k"), Atom("int")>>)>>)
Text(its) == [items |-> its, version |-> 6, rev |-> FALSE]
Texts ==
    {Text(<<Item(Var), Item(FOfY), Wrapped(Public(b), LetLines, ns)>>) :
        b \in Lets, ns \in {<<>>, <<NoNote, Env>>, <<Filter, NoNote, NoNote, Allow({"noop"})>>}}
      \cup {Text(<<Wrapped(Const, {}, <<n>>), Item(Var), Wrapped(Public(Call("+", <<Call("+", <<N(0), GetV>>), Call("*", <<GetV, N(1)>>)>>)), bs, <<>>)>>) :
               n \in {NoNote, Allow({"unused_const"})}, bs \in {{BodyLine}, {ExprLine}, {BodyLine, <<3, 2, 3>>}, {<<3, 2, 2>>, <<3, 2, 3>>}}}
      \cup {Text(<<Wrapped(Private("z", <<<<"Y", OneField>>>>, Call("+", <<N(0), N(1)>>)), bs, <<n>>), Item(Var), Item(Public(GetV))>>) :
               n \in {NoNote, Env, Filter}, bs \in {{<<2, 2, 2>>}, {<<2, 2>>, BodyLine}}}
      \cup {Text(<<Wrapped(ErrConst("E1", Call("err", <<a>>)), {}, <<n>>), Item(ErrConst("E2", Call("err", <<N(1)>>))),
                   Item(ErrConst("E3", N(1))), Item(Var), Item(Public(GetV))>>) : a \in {N(0), N(1)}, n \in {NoNote, Allow({"unused_const"})}}

Of(es, n, r) == [items |-> [i \in 1..Len(es) |-> Item(es[i])], version |-> n, rev |-> r]
Six(es) == Of(es, 6, FALSE)
MCContracts ==
    {Six(<<Const, Var, FDef(Atom("x")), Public(gb)>>) : gb \in Shallow \cup Overflowing \cup Tests \cup Wrong}
      \cup {Six(<<Const, Var, FDef(Call("begin", <<SetV(Atom("x")), Atom("x")>>)), Public(gb)>>) : gb \in CallsF}
      \cup {Six(<<Var, Public(gb)>>) : gb \in Returning}
      \cup {Six(es) : es \in Hidden} \cup Texts
      \cup {Of(<<Var, FOfY, Public(gb)>>, 6, r) : gb \in Lets, r \in BOOLEAN}
      \cup {Six(<<Const, Var, FDef(Atom("x")), HDef, Public(gb)>>) : gb \in Deep \cup Blocks}
      \cup {Six(<<Const, MapDef, Public(Call("and", <<a, b>>))>>) : a \in MapUses, b \in MapUses}
      \cup {Six(<<Const, FtDef, Call("define-public", <<Sig("g", <<>>), u>>)>>) : u \in FtUses}
      \cup {Of(<<Const, Var, ZDef(o), Public(GetV)>>, 4, FALSE) : o \in Odd}
      \cup {Of(es, k[1], k[2]) : es \in CostItems \cup TraitItems, k \in {<<3, FALSE>>, <<6, FALSE>>, <<6, TRUE>>}}
      \cup {Six(<<TraitUse, RDef(k)>>) : k \in {"define-public", "define-private"}}

Off == [groups |-> <<>>, lints |-> <<>>, include |-> {}, exclude |-> {}]
Quiet == [groups |-> <<<<"perf", "ignore">>, <<"style", "error">>>>, lints |-> <<<<"noop", "on">>>>,
          include |-> {{"contract"}}, exclude |-> {{"requirement"}}]
MCFiles == {Off, Quiet}
MCNameClass == [x \in {"C", "Y"} |-> <<"upper">>] @@ [x \in {"E1", "E2", "E3"} |-> <<"upper", "underscore", "digit">>] @@ [x \in {"v", "f", "h", "g", "x", "y", "w", "m", "t", "tr", "tq", "z", "r", "k", "b"} |-> <<"lower">>]
=============================================================================
