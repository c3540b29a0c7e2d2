----------------------------- MODULE MCPlanFiles -----------------------------
(***************************************************************************)
(* Small projects for PlanFiles: three requirements, of which r1 can be    *)
(* understood only after r3 and then refers to r2, a boot contract, the    *)
(* sBTC contracts and three contracts of the project.                      *)
(***************************************************************************)
EXTENDS PlanFiles

CONSTANTS b, p1, p2, p3, r1, r2, r3, s1, s2, ph

MCOrder == <<p1, p2, p3, r1, r2, r3, b, s1, s2, ph>>
MCSbtc == <<s1, s2>>

Fun(k, name, params, calls) == [k |-> k, name |-> name, params |-> params, calls |-> calls]
Static(to, fn, args) == [k |-> "static", to |-> to, fn |-> fn, args |-> args]
Dynamic(via, fn, args) == [k |-> "dynamic", via |-> via, fn |-> fn, args |-> args]
Local(fn, args) == [k |-> "local", fn |-> fn, args |-> args]
Param(name, type) == [name |-> name, type |-> type]
Opt(t) == [k |-> "optional", of |-> t]
Items(t) == [k |-> "items", of |-> t]
Tup(t) == [k |-> "tuple", of |-> [f |-> t]]
Resp(t) == [k |-> "response", ok |-> Plain, err |-> t]
Head1(x) == Form(<<Atom("head"), x>>)

\* r3 defines a trait and functions that take contracts of that trait, one of
\* them inside tuples and lists.
T == TraitOf(r3, "t")
R3 == <<[k |-> "trait", name |-> "t", sigs |-> [h |-> <<Plain, Opt(T)>>]],
        Fun("public", "f", <<Param("x", T)>>, <<>>),
        Fun("read_only", "g", <<Param("x", Items(Tup(T))), Param("y", Resp(T))>>, <<>>)>>
R2 == <<[k |-> "impl_trait", to |-> r3],
        Fun("public", "h", <<Param("n", Plain), Param("o", Opt(T))>>, <<>>)>>

\* r1 refers to r2 only in an argument whose type r3 gives.
R1(how) ==
    <<Fun("public", "main", <<Param("via", T)>>,
          CASE how = "call" -> <<Static(r3, "f", <<Principal(r2)>>)>>
            [] how = "nested" ->
                 <<Static(r3, "g", <<Form(<<Atom("list"), Form(<<Atom("tuple"),
                       Form(<<Atom("f"), Principal(r2)>>)>>)>>),
                       Form(<<Atom("err"), Plain>>)>>)>>
            [] how = "trait" ->
                 <<Dynamic("via", "h", <<Atom("u1"), Head1(Principal(r2))>>)>>
            [] how = "boot" -> <<Static(b, "pox", <<>>), Static(r2, "h", <<Plain, Plain>>)>>
            [] how = "none" -> <<>>)>>

P1(how) ==
    <<[k |-> "constant", name |-> "target", to |-> p2],
      Fun("private", "inner", <<Param("x", T)>>, <<>>),
      Fun("public", "main", <<>>,
          CASE how = "constant" -> <<Dynamic("target", "main", <<>>), Static(ph, "x", <<>>)>>
            [] how = "local" -> <<Local("inner", <<Principal(p3)>>), Static(r1, "main", <<>>)>>
            [] how = "missing" -> <<Static(p2, "nowhere", <<Principal(p3)>>)>>
            [] how = "later" -> <<Static(p2, "take", <<Principal(p3)>>)>>)>>
P2(how) ==
    <<[k |-> "use_trait", to |-> r3],
      Fun("public", "take", <<Param("x", T)>>, <<>>),
      Fun("public", "main", <<>>,
          CASE how = "back" -> <<Static(p1, "main", <<>>)>>
            [] how = "on" -> <<Static(p3, "main", <<>>)>>
            [] how = "alone" -> <<>>)>>
P3 == <<Fun("public", "main", <<>>, <<>>)>>

Body(x, y, z) ==
    (b :> <<Fun("public", "pox", <<>>, <<Static(s2, "transfer", <<>>)>>)>>)
    @@ (s1 :> <<Fun("public", "put", <<>>, <<>>)>>)
    @@ (s2 :> <<Fun("public", "transfer", <<>>, <<Static(s1, "put", <<>>)>>)>>)
    @@ (r1 :> R1(x)) @@ (r2 :> R2) @@ (r3 :> R3)
    @@ (p1 :> P1(y)) @@ (p2 :> P2(z)) @@ (p3 :> P3)

MCWorlds ==
    {[body |-> Body(w[1], w[2], w[3]), requirements |-> w[4], remote |-> "none",
      epoch |-> (r1 :> 30) @@ (r2 :> 25) @@ (r3 :> 21) @@ (s1 :> 30) @@ (s2 :> 30),
      source |-> (p1 :> {SimnetCode, MainnetBoot}) @@ (p2 :> {SimnetCode}) @@ (p3 :> {})
                 @@ (r1 :> {MainnetBoot}) @@ (r2 :> {SimnetCode}) @@ (r3 :> {})
                 @@ (b :> {}) @@ (s1 :> {}) @@ (s2 :> {})] :
        w \in {<<"call", "constant", "back", <<r1>> >>, <<"nested", "local", "on", <<r1, r2>> >>,
               <<"trait", "missing", "on", <<r1>> >>, <<"boot", "local", "on", <<r2, r1>> >>,
               <<"trait", "local", "back", <<r3, r1>> >>, <<"call", "later", "alone", <<r3>> >>}}

MCManifests == {(p1 :> 30) @@ (p2 :> 30) @@ (p3 :> 30),
                (p1 :> 31) @@ (p2 :> 30) @@ (p3 :> 21),
                (p1 :> 30) @@ (p2 :> 30)}

MCCommands ==
    {[k |-> "sdk", network |-> "simnet", env |-> "Simnet", force |-> "ask", answer |-> TRUE]}
    \cup [k : {"generate"}, network : Networks, env : {"OnChain"}, force : {"ask"},
          answer : {TRUE}]
    \cup [k : {"load"}, network : {"simnet"}, env : {"Simnet", "OnChain"},
          force : {"disk", "computed", "ask"}, answer : {FALSE}]
    \cup [k : {"load"}, network : {"devnet", "testnet"}, env : {"OnChain"},
          force : {"ask"}, answer : BOOLEAN]

Call(c) == [k |-> "call", id |-> c, remap |-> FALSE]
MCCustom ==
    {[id |-> 0, epoch |-> 30, txs |-> <<Call(p1)>>],
     [id |-> 1, epoch |-> 30, txs |-> <<Call(p2)>>],
     [id |-> 5, epoch |-> NoEpoch, txs |-> <<Call(p3)>>]}
=============================================================================
