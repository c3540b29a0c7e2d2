--------------------------- MODULE PlanGeneration ---------------------------
(***************************************************************************)
(* generate_default_deployment of clarinet-deployments/src/lib.rs, with    *)
(* retrieve_contract of requirements.rs: from a manifest to a deployment   *)
(* plan.  The requirements are found one at a time, a contract being put   *)
(* back behind the contracts it cannot be understood without; then the     *)
(* requirements and the project's own contracts are put in order, grouped  *)
(* by epoch and cut into batches.                                          *)
(*                                                                         *)
(* A source is the set of what the code treats specially in it: code for   *)
(* the simnet only, mainnet boot principals, the signer key written into   *)
(* sbtc-registry for a devnet.  Costs, senders and locations are left out, *)
(* but for the file a location stands for.                                 *)
(***************************************************************************)
EXTENDS DependencyDetector, FiniteSets

CONSTANTS
    Boot,           \* the boot contracts
    Sbtc,           \* the sBTC contracts, in the order the code lists them
    Registry,       \* the one a devnet patches
    TxChainLimit    \* transactions in a batch, 25 in the code

ASSUME PlanGenerationAssumption ==
    /\ TxChainLimit \in Nat \ {0}
    /\ Boot \cup ToSet(Sbtc) \subseteq Ids
    /\ Registry \in ToSet(Sbtc)

VARIABLES
    world,      \* [body, epoch, source, requirements, remote]
    manifest,   \* the project's contracts |-> their epoch
    cache,      \* files in the requirements cache: contract |-> [source, metadata]
    gen         \* the generation under way

SimnetCode == "simnet code"
MainnetBoot == "mainnet boot"
TestnetBoot == "testnet boot"
SignerKey == "signer key"
Networks == {"simnet", "devnet", "testnet", "mainnet"}
deployment_environment(network) == IF network = "simnet" THEN "Simnet" ELSE "OnChain"

remove_env_simnet(source) == source \ {SimnetCode}
remap_mainnet_boot_principals(source) ==
    IF MainnetBoot \in source THEN (source \ {MainnetBoot}) \cup {TestnetBoot} ELSE source

Idle == [phase |-> "idle", network |-> "simnet", env |-> "Simnet", queue |-> <<>>,
         deps |-> NoMap, data |-> NoMap, epochs |-> NoMap, publish |-> NoMap,
         txs |-> NoMap, error |-> "none", batches |-> <<>>, graph |-> NoMap]

simnet_remote_data(network) == network = "simnet" /\ world.remote # "none"

boot_contracts_ids(network) ==
    IF simnet_remote_data(network) THEN {}
    ELSE Boot \cup (IF network = "simnet" THEN ToSet(Sbtc) ELSE {})

\* The contracts whose code is compiled in, known before anything is retrieved.
Seeded(network) ==
    IF simnet_remote_data(network) THEN NoMap
    ELSE [c \in Boot \cup ToSet(Sbtc) |-> world.body[c]]

-----------------------------------------------------------------------------
(* The requirements. *)

Start(network, env) ==
    [Idle EXCEPT !.phase = "requirements", !.network = network, !.env = env,
                 !.queue = Reverse(world.requirements), !.data = Seeded(network)]

Fail(error) == gen' = [gen EXCEPT !.phase = "failed", !.error = error]

\* The transaction that publishes a requirement with this source.
RequirementTx(network, env, c, source) ==
    LET emulated == network = "simnet"
        remap == emulated /\ env = "Simnet" /\ MainnetBoot \in source
    IN  [k |-> IF emulated THEN "emulated" ELSE "requirement", id |-> c, remap |-> remap,
         source |-> IF remap THEN remap_mainnet_boot_principals(source) ELSE source]

\* retrieve_contract, from the two cached files or from the API, which fills them.
Cached(c) == c \in DOMAIN cache /\ cache[c].metadata
Fetched(c) == [source |-> world.source[c], metadata |-> TRUE]

\* A contract popped from the queue whose code is at hand, or not.
KnownRequirement(c) ==
    /\ c \in DOMAIN gen.data
    /\ ~ (gen.network = "testnet" /\ c \in ToSet(Sbtc))

\* Mutant: what an unresolved contract waits for is not put before it.
MutantAnalysed(g, c) ==
    LET found == detect_dependencies(c :> world.body[c], g.data)
        known == [g EXCEPT !.data = With(@, c, world.body[c])]
    IN  IF found.unresolved = <<>>
        THEN [known EXCEPT !.deps = With(@, c, Get(found.deps, c, {})),
                           !.queue = @ \o Sorted(Get(found.deps, c, {}))]
        ELSE [known EXCEPT !.queue = <<c>> \o @]

\* Its dependencies are looked for with what is known so far.  If some of them
\* are not known well enough it waits in front of the queue, behind them.
Analysed(g, c) ==
    LET found == detect_dependencies(c :> world.body[c], g.data)
        known == [g EXCEPT !.data = With(@, c, world.body[c])]
    IN  IF found.unresolved = <<>>
        THEN [known EXCEPT !.deps = With(@, c, Get(found.deps, c, {})),
                           !.queue = @ \o Sorted(Get(found.deps, c, {}))]
        ELSE [known EXCEPT !.queue = Reverse(found.unresolved) \o <<c>> \o @
                                       \o Sorted(Get(found.deps, c, {}))]

Popped == [gen EXCEPT !.queue = Tail(@)]

SkipRequirement ==
    /\ gen.phase = "requirements" /\ gen.queue # <<>>
    /\ Head(gen.queue) \in DOMAIN gen.deps
    /\ gen' = Popped
    /\ UNCHANGED <<world, manifest, cache>>

ReuseRequirement ==
    /\ gen.phase = "requirements" /\ gen.queue # <<>>
    /\ LET c == Head(gen.queue)
       IN  /\ c \notin DOMAIN gen.deps
           /\ KnownRequirement(c)
           /\ gen' = Analysed([Popped EXCEPT !.data = Restrict(@, DOMAIN @ \ {c})], c)
    /\ UNCHANGED <<world, manifest, cache>>

RetrieveRequirement ==
    /\ gen.phase = "requirements" /\ gen.queue # <<>>
    /\ LET c == Head(gen.queue)
           file == IF Cached(c) THEN cache[c] ELSE Fetched(c)
           listed == gen.network # "mainnet" /\ ~ simnet_remote_data(gen.network)
           got == [Popped EXCEPT
                     !.epochs = With(@, c, world.epoch[c]),
                     !.publish = IF listed
                         THEN With(@, c, RequirementTx(gen.network, gen.env, c, file.source))
                         ELSE @]
       IN  /\ c \notin DOMAIN gen.deps
           /\ ~ KnownRequirement(c)
           /\ c \in DOMAIN world.epoch
           /\ gen' = Analysed(got, c)
           /\ cache' = With(cache, c, file)
    /\ UNCHANGED <<world, manifest>>

\* The API does not know the contract or does not answer, or the tool is killed
\* after the source and before the metadata are written.
RetrieveFails ==
    /\ gen.phase = "requirements" /\ gen.queue # <<>>
    /\ LET c == Head(gen.queue)
       IN  /\ c \notin DOMAIN gen.deps
           /\ ~ KnownRequirement(c) /\ ~ Cached(c)
           /\ Fail("retrieve")
           /\ \/ cache' = cache
              \/ /\ c \in DOMAIN world.epoch
                 /\ cache' = With(cache, c, [Fetched(c) EXCEPT !.metadata = FALSE])
    /\ UNCHANGED <<world, manifest>>

-----------------------------------------------------------------------------
(* The plan. *)

add_transaction_to_epoch(txs, tx, epoch) ==
    With(txs, epoch, Append(Get(txs, epoch, <<>>), tx))

AddInOrder(txs, order, epochs, publish) ==
    FoldLeft(LAMBDA t, c : add_transaction_to_epoch(t, publish[c], epochs[c]), txs, order)

OrderRequirements ==
    /\ gen.phase = "requirements" /\ gen.queue = <<>>
    /\ LET ordered == order_contracts(gen.deps, gen.epochs)
           dropped == boot_contracts_ids(gen.network)
                        \cup (IF gen.network = "devnet" THEN ToSet(Sbtc) ELSE {})
           kept == SelectSeq(ordered.order, LAMBDA c : c \notin dropped)
       IN  IF gen.network = "mainnet" \/ simnet_remote_data(gen.network)
             THEN gen' = [gen EXCEPT !.phase = "sbtc"]
           ELSE IF ordered.error # "none" THEN Fail(ordered.error)
           ELSE gen' = [gen EXCEPT !.phase = "sbtc",
                           !.txs = AddInOrder(@, kept, gen.epochs, gen.publish)]
    /\ UNCHANGED <<world, manifest, cache>>

\* A devnet gets the sBTC contracts in epoch 3.0, and their files in the cache.
SbtcSource(c) == world.source[c] \cup (IF c = Registry THEN {SignerKey} ELSE {})
PublishSbtc ==
    /\ gen.phase = "sbtc"
    /\ IF gen.network # "devnet"
       THEN gen' = [gen EXCEPT !.phase = "project"] /\ UNCHANGED cache
       ELSE LET publish == [c \in ToSet(Sbtc) |->
                               [k |-> "requirement", id |-> c, remap |-> FALSE, source |-> SbtcSource(c)]]
            IN  /\ gen' = [gen EXCEPT !.phase = "project",
                     !.txs = AddInOrder(@, Sbtc, [c \in ToSet(Sbtc) |-> 30], publish)]
                /\ cache' = [c \in ToSet(Sbtc) |->
                                [source |-> SbtcSource(c),
                                 metadata |-> c \in DOMAIN cache /\ cache[c].metadata]] @@ cache
    /\ UNCHANGED <<world, manifest>>

\* The project's own contract, its source prepared for the environment.
ContractTx(c) ==
    LET read == IF gen.env = "OnChain" THEN remove_env_simnet(world.source[c])
                ELSE world.source[c]
        remap == /\ gen.network = "simnet" /\ gen.env = "Simnet"
                 /\ ~ simnet_remote_data("simnet") /\ MainnetBoot \in read
    IN  [k |-> IF gen.network = "simnet" THEN "emulated" ELSE "contract", id |-> c,
         remap |-> remap,
         source |-> IF remap THEN remap_mainnet_boot_principals(read) ELSE read]

Chunks(txs) ==
    [i \in 1..((Len(txs) + TxChainLimit - 1) \div TxChainLimit) |->
        SubSeq(txs, (i - 1) * TxChainLimit + 1,
               IF i * TxChainLimit < Len(txs) THEN i * TxChainLimit ELSE Len(txs))]

\* One batch per chunk of an epoch, numbered from zero.
Batches(txs) ==
    LET epochs == SetToSortSeq(DOMAIN txs, <)
        cut == FlattenSeq([e \in DOMAIN epochs |->
                  LET chunks == Chunks(txs[epochs[e]])
                  IN  [i \in DOMAIN chunks |-> [epoch |-> epochs[e], txs |-> chunks[i]]]])
    IN  [i \in DOMAIN cut |-> [id |-> i - 1] @@ cut[i]]

PlanProject ==
    /\ gen.phase = "project"
    /\ LET found == detect_dependencies([c \in DOMAIN manifest |-> world.body[c]], gen.data)
           graph == gen.deps @@ [c \in boot_contracts_ids(gen.network) |-> {}] @@ found.deps
           epochs == manifest @@ gen.epochs
           ordered == order_contracts(graph, epochs)
           own == SelectSeq(ordered.order, LAMBDA c : c \notin DOMAIN gen.data)
           publish == [c \in ToSet(own) |-> ContractTx(c)]
       IN  IF ordered.error # "none"
           THEN gen' = [gen EXCEPT !.phase = "failed", !.error = ordered.error, !.graph = graph]
           ELSE gen' = [gen EXCEPT !.phase = "done", !.graph = graph,
                          !.batches = Batches(AddInOrder(gen.txs, own, epochs, publish))]
    /\ UNCHANGED <<world, manifest, cache>>

Generation ==
    \/ SkipRequirement \/ ReuseRequirement \/ RetrieveRequirement \/ RetrieveFails
    \/ OrderRequirements \/ PublishSbtc \/ PlanProject
=============================================================================
