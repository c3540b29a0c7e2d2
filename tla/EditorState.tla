----------------------------- MODULE EditorState -----------------------------
(***************************************************************************)
(* What the language server knows (clarity-lsp/src/common/state.rs): the   *)
(* analysed projects, the manifest and settings of each analysed contract, *)
(* the contracts open in the editor, and two caches that outlive a build,  *)
(* parsed contracts and sessions with the boot contracts.                  *)
(*                                                                         *)
(* A text is a model value: what matters is whether it parses and whether  *)
(* it has #[env(simnet)] code.  Maps are functions on the keys present.    *)
(***************************************************************************)
EXTENDS Integers, Sequences, SequencesExt, Functions

CONSTANTS
    Contracts, Manifests,
    Broken,     \* texts that do not parse
    Annotated,  \* texts with #[env(simnet)] code
    CAPACITY,   \* of BaseSessionCaches, 2 in the code
    None

ASSUME EditorStateAssumption ==
    /\ CAPACITY \in Nat \ {0}
    /\ Broken \cap Annotated = {}

Empty == [x \in {} |-> None]
Without(f, keys) == Restrict(f, DOMAIN f \ keys)
Extended(f, g) == [x \in DOMAIN f \cup DOMAIN g |-> IF x \in DOMAIN g THEN g[x] ELSE f[x]]
With(f, key, value) == Extended(f, [k \in {key} |-> value])
Lookup(f, key) == IF key \in DOMAIN f THEN f[key] ELSE None

EditorStateNew ==
    [protocols |-> Empty, lookup |-> Empty, active |-> Empty, asts |-> Empty, base |-> <<>>]

-----------------------------------------------------------------------------
(* ActiveContractData: an open contract, parsed as it is typed. *)

Parsed(text, version) ==
    IF text \in Broken THEN None ELSE [source |-> text, version |-> version]
Definitions(version, expressions, issuer) ==
    [version |-> version, of |-> expressions, issuer |-> issuer]

update_definitions(a) ==
    IF a.expressions = None THEN a
    ELSE [a EXCEPT !.definitions = Definitions(a.version, a.expressions, a.issuer)]

update_expressions(a, withDefinitions) ==
    LET parsed == [a EXCEPT !.definitions = None, !.expressions = Parsed(a.text, a.version)]
    IN  IF withDefinitions THEN update_definitions(parsed) ELSE parsed

ActiveContractNew(version, issuer, text) ==
    update_expressions([version |-> version, issuer |-> issuer, text |-> text,
                        expressions |-> None, definitions |-> None], TRUE)

update_sources(a, text) == update_expressions([a EXCEPT !.text = text], FALSE)
update_clarity_version(a, version) == update_expressions([a EXCEPT !.version = version], TRUE)
update_issuer(a, issuer) == update_definitions([a EXCEPT !.issuer = issuer])

-----------------------------------------------------------------------------
(* BaseSessionCaches: least recently used first. *)

BaseIndex(base, m) == {i \in 1..Len(base) : base[i].manifest = m}
BaseGet(base, m) ==
    IF BaseIndex(base, m) = {} THEN None ELSE base[CHOOSE i \in BaseIndex(base, m) : TRUE].entry
\* A manifest has one slot at most.
BaseForget(base, m) ==
    IF BaseIndex(base, m) = {} THEN base
    ELSE RemoveAt(base, CHOOSE i \in BaseIndex(base, m) : TRUE)
BaseCommit(base, m, entry) ==
    LET room == IF BaseIndex(base, m) # {} THEN BaseForget(base, m)
                ELSE IF Len(base) >= CAPACITY THEN Tail(base)
                ELSE base
    IN  Append(room, [manifest |-> m, entry |-> entry])

\* The base session for a project's settings and what its slot holds afterwards.
prepared_session(entry, project) ==
    IF project.remote THEN [session |-> project.settings, entry |-> None]
    ELSE IF entry # None /\ entry.key = project.settings
      THEN [session |-> entry.session, entry |-> entry]
    ELSE [session |-> project.settings,
          entry |-> [key |-> project.settings, session |-> project.settings]]

-----------------------------------------------------------------------------
(* build_state, one environment at a time. *)

Environments == <<"OnChain", "Simnet">>

\* Simnet-only code is cut out of the on-chain pass, and only that pass reports it.
SourceFor(text, env) == <<text, env = "OnChain" /\ text \in Annotated>>
FoundEnvSimnet(project, files, env) ==
    env = "OnChain" /\ \E c \in project.contracts : files[c] \in Annotated

\* A contract is parsed under its identifier, and so for its deployer, which no
\* entry of the cache is compared by.
Ast(source, version, deployer) ==
    [source |-> source, version |-> version, deployer |-> deployer]
CachedAst(source, version, deployer) ==
    [hash |-> source, version |-> version, ast |-> Ast(source, version, deployer)]
\* Mutant: the text is not compared.
MutantMatches(entry, source, version) == entry.version = version
matches(entry, source, version) == entry.hash = source /\ entry.version = version

try_reuse(asts, key, source, version, deployer) ==
    IF key \in DOMAIN asts /\ matches(asts[key], source, version) THEN asts[key]
    ELSE CachedAst(source, version, deployer)

\* The cache entries of one pass, hits and fresh parses alike.
GenerateDeployment(project, files, env, asts) ==
    [key \in project.contracts \X {env} |->
        try_reuse(asts, key, SourceFor(files[key[1]], env), project.version, project.deployer)]

\* What the pass adds for one contract.  The last pass overwrites the AST; a
\* contract that fails to parse has no analysis and so no known deployer.
ContractState(entry, project) ==
    [ast |-> entry.ast, version |-> project.version, deployer |-> project.deployer,
     analysed |-> entry.ast.source[1] \notin Broken]

consolidate(project, entries, env, session, ran) ==
    [contracts |-> [c \in project.contracts |-> ContractState(entries[<<c, env>>], project)],
     ran |-> ran, session |-> session, settings |-> project.settings]

-----------------------------------------------------------------------------
(* EditorState: what notifications do to it. *)

Issuer(state) == IF state.analysed THEN state.deployer ELSE None

IndexedContract(a, state) ==
    LET versioned == IF a.version # state.version
                     THEN update_clarity_version(a, state.version) ELSE a
    IN  IF versioned.issuer = None \/ versioned.issuer # Issuer(state)
        THEN update_issuer(versioned, Issuer(state)) ELSE versioned

Metadata(m, state) ==
    [manifest |-> m, version |-> state.version, issuer |-> Issuer(state)]

\* Entries of contracts that left the manifest stay in the lookup.
index_protocol(es, m, protocol) ==
    LET of == protocol.contracts
    IN  [es EXCEPT
            !.active = [c \in DOMAIN @ |->
                            IF c \in DOMAIN of THEN IndexedContract(@[c], of[c]) ELSE @[c]],
            !.lookup = Extended(@, [c \in DOMAIN of |-> Metadata(m, of[c])]),
            !.protocols = With(@, m, protocol)]

clear_protocol(es, m) ==
    IF m \notin DOMAIN es.protocols THEN es
    ELSE [es EXCEPT !.protocols = Without(@, {m}),
                    !.lookup = Without(@, DOMAIN es.protocols[m].contracts)]

clear_protocol_associated_with_contract(es, c) ==
    IF c \in DOMAIN es.lookup THEN clear_protocol(es, es.lookup[c].manifest) ELSE es

insert_active_contract(es, c, version, issuer, text) ==
    [es EXCEPT !.active = With(@, c, ActiveContractNew(version, issuer, text))]

\* An error when the contract is not open; the state is as before.
update_active_contract(es, c, text) ==
    IF c \notin DOMAIN es.active THEN es
    ELSE [es EXCEPT !.active = [es.active EXCEPT ![c] = update_sources(@, text)]]

remove_active_contract(es, c) == [es EXCEPT !.active = Without(@, {c})]

\* The write at the end of a build; "saved" are contracts whose definitions are redone.
Commit(es, m, entry, protocol, entries, saved) ==
    LET slots == IF entry = None THEN BaseForget(es.base, m) ELSE BaseCommit(es.base, m, entry)
        indexed == index_protocol([es EXCEPT !.base = slots], m, protocol)
    IN  [indexed EXCEPT
            !.asts = Extended(@, entries),
            !.active = [c \in DOMAIN @ |->
                            IF c \in saved THEN update_definitions(@[c]) ELSE @[c]]]

-----------------------------------------------------------------------------
(* What the server tells the client. *)

\* get_aggregated_diagnostics: the lookup must hold every contract it names.
NotInLookup(es) ==
    {c \in Contracts : /\ \E m \in DOMAIN es.protocols : c \in DOMAIN es.protocols[m].contracts
                       /\ c \notin DOMAIN es.lookup}

\* Lists for each contract of a project, the manifests, and merged into them the
\* simnet hints of the open contracts.
Reported(es, c) ==
    LET of == {m \in DOMAIN es.protocols : c \in DOMAIN es.protocols[m].contracts}
    IN  [ast |-> IF of = {} THEN None ELSE es.protocols[CHOOSE m \in of : TRUE].contracts[c].ast,
         hint |-> c \in DOMAIN es.active /\ es.active[c].text \in Annotated]

AggregatedDiagnostics(es, shown) ==
    [c \in Contracts |->
        IF Reported(es, c) = [ast |-> None, hint |-> FALSE] THEN shown[c] ELSE Reported(es, c)]

\* The texts an answer is computed from.  Everything but a code lens reads the
\* open contract; completion adds calls to the other contracts of its project,
\* a definition may lead to another contract, open or as last analysed.
ProtocolOf(es, c) ==
    IF c \in DOMAIN es.lookup THEN Lookup(es.protocols, es.lookup[c].manifest) ELSE None

get_completion_items(es, c) == IF c \in DOMAIN es.active THEN {es.active[c].text} ELSE {}
get_document_symbols(es, c) ==
    IF c \in DOMAIN es.active /\ es.active[c].expressions # None
    THEN {es.active[c].expressions.source} ELSE {}
get_hover_data(es, c) == get_document_symbols(es, c)
get_signature_help(es, c) == get_document_symbols(es, c)
get_definition_location(es, c) ==
    IF get_document_symbols(es, c) = {} THEN {}
    ELSE IF es.active[c].definitions = None THEN get_document_symbols(es, c)
    ELSE {es.active[c].definitions.of.source}
\* A lens has the cost of the last build, at the live position of its function if
\* the open text parses and at the analysed one otherwise.
get_code_lenses(es, c) ==
    LET p == ProtocolOf(es, c)
    IN  IF p = None \/ c \notin DOMAIN p.contracts THEN {}
        ELSE IF get_document_symbols(es, c) # {} THEN get_document_symbols(es, c)
        ELSE {p.contracts[c].ast.source[1]}
Formatting(es, c) == get_completion_items(es, c)
=============================================================================
