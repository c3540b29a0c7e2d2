------------------------------ MODULE PlanFiles ------------------------------
(***************************************************************************)
(* Deployment plans on disk (clarinet-deployments/src/types.rs and lib.rs),*)
(* and the commands that generate, save, merge, load and run them: the     *)
(* SDK's initSession (clarinet-sdk-wasm/src/core.rs), `clarinet            *)
(* deployments generate` and `apply`, `clarinet check`                     *)
(* (clarinet-cli/src/frontend/cli.rs).  In between the user edits the      *)
(* manifest and the plan.                                                  *)
(*                                                                         *)
(* A saved transaction names its contract; the source stays in the         *)
(* project's files or in the requirements cache.  The user's transactions  *)
(* are calls of a contract.                                                *)
(***************************************************************************)
EXTENDS PlanGeneration

CONSTANTS
    None,
    Worlds,         \* what is on chain and in the project's files
    Commands,
    Manifests,      \* the manifests the user switches between
    Custom,         \* the batches the user adds to a saved plan
    MaxCommands, MaxEdits

VARIABLES
    file,       \* network |-> the batches saved for it, or None
    cmd,        \* the command under way
    ran,        \* what the last command deployed or checked
    commands, edits

vars == <<world, manifest, cache, gen, file, cmd, ran, commands, edits>>

NoEpoch == 0
NoCommand == [k |-> "none", network |-> "simnet", env |-> "Simnet", force |-> "ask",
              answer |-> TRUE, turn |-> FALSE]
Nothing == [by |-> "nothing", network |-> "simnet", env |-> "Simnet", batches |-> <<>>,
            remote |-> "none", code |-> NoMap]

is_mainnet == world.remote = "mainnet"
IsPublish(tx) == tx.k # "call"
Calls(batches) == FlattenSeq([i \in DOMAIN batches |->
                     SelectSeq(batches[i].txs, LAMBDA tx : ~ IsPublish(tx))])

-----------------------------------------------------------------------------
(* Saving and loading. *)

to_specification_file(batches) ==
    [i \in DOMAIN batches |->
        [batches[i] EXCEPT !.txs =
            [j \in DOMAIN @ |-> [k |-> @[j].k, id |-> @[j].id, remap |-> @[j].remap]]]]

\* The source at the location of a published contract.
LocationExists(c) == c \in DOMAIN cache \/ c \notin DOMAIN world.epoch
SourceAt(c) == IF c \in DOMAIN world.epoch THEN cache[c].source ELSE world.source[c]

CanLoad(batches) ==
    \A i \in DOMAIN batches : \A tx \in ToSet(batches[i].txs) :
        IsPublish(tx) => LocationExists(tx.id)

TxFromSpecification(network, tx) ==
    IF ~ IsPublish(tx) THEN [source |-> {}] @@ tx
    ELSE [source |-> IF network = "simnet" THEN SourceAt(tx.id)
                     ELSE remove_env_simnet(SourceAt(tx.id))] @@ tx

from_specifications(network, batches) ==
    LET read == [i \in DOMAIN batches |->
                   [batches[i] EXCEPT !.txs =
                       [j \in DOMAIN @ |-> TxFromSpecification(network, @[j])]]]
    IN  SelectSeq(read, LAMBDA b : b.txs # <<>>)

load_deployment(network) == from_specifications(network, file[network])

remove_publish_transactions(batches) ==
    [i \in DOMAIN batches |->
        [batches[i] EXCEPT !.txs = SelectSeq(@, LAMBDA tx : ~ IsPublish(tx))]]

\* A stable sort: batches without an epoch come first.
sort_batches_by_epoch(batches) ==
    LET epochs == SetToSortSeq({batches[i].epoch : i \in DOMAIN batches}, <)
        sorted == FlattenSeq([e \in DOMAIN epochs |->
                     SelectSeq(batches, LAMBDA b : b.epoch = epochs[e])])
    IN  [i \in DOMAIN sorted |-> [sorted[i] EXCEPT !.id = i - 1]]

\* Mutant: a batch is recognised by its number alone.
MutantMergeBatches(batches, custom) ==
    LET MergeOne(b, c) ==
            LET i == SelectInSeq(b, LAMBDA x : x.id = c.id)
            IN  IF i # 0 THEN [b EXCEPT ![i].txs = @ \o c.txs]
                ELSE IF c.txs # <<>> THEN Append(b, c)
                ELSE b
    IN  sort_batches_by_epoch(FoldLeft(MergeOne, batches, custom))

merge_batches(batches, custom) ==
    LET MergeOne(b, c) ==
            LET i == SelectInSeq(b, LAMBDA x : x.id = c.id /\ x.epoch = c.epoch)
            IN  IF i # 0 THEN [b EXCEPT ![i].txs = @ \o c.txs]
                ELSE IF c.txs # <<>> THEN Append(b, c)
                ELSE b
    IN  sort_batches_by_epoch(FoldLeft(MergeOne, batches, custom))

strip_plan(batches) ==
    [i \in DOMAIN batches |->
        [batches[i] EXCEPT !.txs =
            [j \in DOMAIN @ |-> [@[j] EXCEPT !.source = remove_env_simnet(@)]]]]

-----------------------------------------------------------------------------
(* Running a plan on the simnet. *)

\* The marker of a loaded plan, added where an older plan lacks it and dropped
\* for the on-chain pass.
Marked(tx, env, withAsts) ==
    LET backfill == env = "Simnet" /\ ~ withAsts /\ ~ is_mainnet
    IN  [tx EXCEPT !.remap = env # "OnChain" /\ (@ \/ (backfill /\ MainnetBoot \in tx.source))]

\* Mutant: the rewrite is not applied again to a source read from disk.
MutantSourceForEmulatedPublish(tx) == tx.source

source_for_emulated_publish(tx) ==
    IF ~ tx.remap \/ is_mainnet THEN tx.source ELSE remap_mainnet_boot_principals(tx.source)

setup_session_with_deployment(batches, env, withAsts) ==
    [i \in DOMAIN batches |->
        [batches[i] EXCEPT !.txs = [j \in DOMAIN @ |->
            IF @[j].k = "emulated" THEN Marked(@[j], env, withAsts) ELSE @[j]]]]

\* The contracts the simnet ends up with: boot contracts are already there.
run_deployment_plan(batches) ==
    LET txs == FlattenSeq([i \in DOMAIN batches |-> batches[i].txs])
        published == SelectSeq(txs, LAMBDA tx :
                        tx.k = "emulated" /\ tx.id \notin boot_contracts_ids("simnet"))
    IN  [c \in {tx.id : tx \in ToSet(published)} |->
            source_for_emulated_publish(published[SelectInSeq(published, LAMBDA t : t.id = c)])]

Run(by, network, env, batches) ==
    ran' = [by |-> by, network |-> network, env |-> env, batches |-> batches,
            remote |-> world.remote,
            code |-> IF network = "simnet" THEN run_deployment_plan(batches) ELSE NoMap]

-----------------------------------------------------------------------------
(* Commands. *)

Free == cmd.k = "none"
Idling == cmd' = NoCommand /\ gen' = Idle

Begin(c) ==
    /\ Free /\ commands < MaxCommands
    /\ cmd' = [turn |-> FALSE] @@ c
    /\ commands' = commands + 1
    /\ gen' = IF c.k = "load" /\ c.force = "disk" /\ file[c.network] # None THEN Idle
              ELSE Start(c.network,
                         IF c.k = "load" /\ file[c.network] = None THEN c.env
                         ELSE deployment_environment(c.network))
    /\ UNCHANGED <<world, manifest, cache, file, ran, edits>>

\* The SDK keeps the user's transactions and always brings the file up to date.
SdkSession ==
    /\ cmd.k = "sdk" /\ gen.phase = "done"
    /\ LET plan == IF file["simnet"] = None THEN gen.batches
                   ELSE merge_batches(gen.batches,
                          from_specifications("simnet",
                              remove_publish_transactions(file["simnet"])))
       IN  /\ file' = [file EXCEPT !["simnet"] = to_specification_file(plan)]
           /\ Run("sdk", "simnet", "Simnet", plan)
    /\ Idling /\ UNCHANGED <<world, manifest, cache, commands, edits>>

\* `clarinet deployments generate`: the user is asked before a plan is replaced.
GeneratePlan ==
    /\ cmd.k = "generate" /\ gen.phase = "done"
    /\ LET saved == file[cmd.network]
           new == to_specification_file(gen.batches)
           write == \/ saved = None
                    \/ /\ CanLoad(saved) /\ cmd.answer
                       /\ to_specification_file(load_deployment(cmd.network)) # new
       IN  file' = IF write THEN [file EXCEPT ![cmd.network] = new] ELSE file
    /\ Idling /\ UNCHANGED <<world, manifest, cache, ran, commands, edits>>

\* The plan a command runs on, for `check` (simnet, either pass) or `apply`.
Use(by, batches) ==
    IF cmd.network # "simnet" THEN Run(by, cmd.network, cmd.env, batches)
    ELSE Run(by, "simnet", cmd.env,
             setup_session_with_deployment(
                 IF cmd.env = "OnChain" /\ by # "fresh" THEN strip_plan(batches) ELSE batches,
                 cmd.env, by = "fresh"))

\* No plan is saved: the computed one is used, and saved if it is for a chain.
LoadFresh ==
    /\ cmd.k = "load" /\ gen.phase = "done" /\ file[cmd.network] = None
    /\ Use("fresh", gen.batches)
    /\ file' = IF cmd.network = "simnet" THEN file
               ELSE [file EXCEPT ![cmd.network] = to_specification_file(gen.batches)]
    /\ Idling /\ UNCHANGED <<world, manifest, cache, commands, edits>>

\* A plan is saved and differs from the computed one, which replaces it.
LoadComputed ==
    /\ cmd.k = "load" /\ gen.phase = "done" /\ file[cmd.network] # None
    /\ to_specification_file(gen.batches) # file[cmd.network]
    /\ cmd.force = "computed" \/ cmd.answer
    /\ Use("computed", gen.batches)
    /\ file' = [file EXCEPT ![cmd.network] = to_specification_file(gen.batches)]
    /\ Idling /\ UNCHANGED <<world, manifest, cache, commands, edits>>

\* The saved plan is used: as asked, or as it is up to date, or as the user
\* declines the computed one, or as none could be computed.
UsesSaved ==
    /\ cmd.k = "load" /\ file[cmd.network] # None
    /\ \/ cmd.force = "disk"
       \/ gen.phase = "failed"
       \/ gen.phase = "done" /\ to_specification_file(gen.batches) = file[cmd.network]
       \/ gen.phase = "done" /\ cmd.force = "ask" /\ ~ cmd.answer

LoadSaved ==
    /\ UsesSaved /\ CanLoad(file[cmd.network])
    /\ Use("saved", load_deployment(cmd.network))
    /\ Idling /\ UNCHANGED <<world, manifest, cache, file, commands, edits>>

\* The command ends with an error.
Abort ==
    /\ \/ cmd.k \in {"sdk", "generate"} /\ gen.phase = "failed"
       \/ cmd.k = "load" /\ gen.phase = "failed" /\ file[cmd.network] = None
       \/ UsesSaved /\ ~ CanLoad(file[cmd.network])
    /\ Idling /\ UNCHANGED <<world, manifest, cache, file, ran, commands, edits>>

-----------------------------------------------------------------------------
(* The user, between two commands. *)

Edit == Free /\ edits < MaxEdits /\ commands > 0 /\ edits' = edits + 1

EditManifest ==
    /\ Edit
    /\ \E m \in Manifests : m # manifest /\ manifest' = m
    /\ UNCHANGED <<world, cache, gen, file, cmd, ran, commands>>

EditSettings ==
    /\ Edit
    /\ \E r \in {"none", "mainnet", "testnet"} :
          r # world.remote /\ world' = [world EXCEPT !.remote = r]
    /\ UNCHANGED <<manifest, cache, gen, file, cmd, ran, commands>>

EditPlan ==
    /\ Edit /\ file["simnet"] # None
    /\ \E b \in Custom :
          file' = [file EXCEPT !["simnet"] =
              LET i == SelectInSeq(@, LAMBDA x : x.id = b.id /\ x.epoch = b.epoch)
              IN  IF i # 0 THEN [@ EXCEPT ![i].txs = @ \o b.txs] ELSE Append(@, b)]
    /\ UNCHANGED <<world, manifest, cache, gen, cmd, ran, commands>>

\* The cache is a directory of the project the user may remove.
ClearCache ==
    /\ Edit /\ cache # NoMap
    /\ cache' = NoMap
    /\ UNCHANGED <<world, manifest, gen, file, cmd, ran, commands>>

-----------------------------------------------------------------------------
Init ==
    /\ world \in Worlds
    /\ manifest \in Manifests
    /\ cache = NoMap /\ gen = Idle
    /\ file = [n \in Networks |-> None]
    /\ cmd = NoCommand /\ ran = Nothing
    /\ commands = 0 /\ edits = 0

\* A turn of the command shows even when it leaves all else as it was.
Step ==
    /\ Generation
    /\ cmd' = [cmd EXCEPT !.turn = ~ @]
    /\ UNCHANGED <<file, ran, commands, edits>>
Finish == SdkSession \/ GeneratePlan \/ LoadFresh \/ LoadComputed \/ LoadSaved \/ Abort
Next ==
    \/ \E c \in Commands : Begin(c)
    \/ Step \/ Finish
    \/ EditManifest \/ EditSettings \/ EditPlan \/ ClearCache
    \/ Free /\ UNCHANGED vars

\* A command that is under way goes on: weak fairness of its steps.  One of them
\* is possible in every state but those where no command runs, which the absence
\* of deadlock shows, so that Free stands for their not being enabled.
Fairness == []<>Free \/ []<><<Step \/ Finish>>_vars

Spec == Init /\ [][Next]_vars /\ Fairness

-----------------------------------------------------------------------------
(* Properties. *)

\* The types of a function or of a trait's function, wherever they are defined.
Function(c, fn) == {i \in ToSet(Get(world.body, c, <<>>)) :
                      i.k \in {"public", "read_only", "private"} /\ i.name = fn}
Trait(t) == {i \in ToSet(Get(world.body, t[1], <<>>)) : i.k = "trait" /\ i.name = t[2]}

\* What a contract refers to, with everything else known.
CallNeeds(c, item, call) ==
    IF call.k = "dynamic"
    THEN UNION {check_trait_dependencies(t.sigs, call.fn, call.args) :
                    t \in UNION {Trait(x) : x \in ToSet(get_param_trait(item.params, call.via))}}
         \cup {i.to : i \in {x \in ToSet(world.body[c]) : x.k = "constant" /\ x.name = call.via}}
    ELSE LET to == IF call.k = "static" THEN call.to ELSE c
         IN  ({to} \ {c}) \cup UNION {check_callee_type(ParamTypes(f.params), call.args) :
                                        f \in Function(to, call.fn)}
Needs(c) ==
    UNION {IF i.k \in {"use_trait", "impl_trait"} THEN {i.to}
           ELSE IF i.k \in {"public", "read_only", "private"}
             THEN UNION {CallNeeds(c, i, call) : call \in ToSet(i.calls)}
           ELSE {} : i \in ToSet(world.body[c])} \ Placeholders

\* The requirements and what they need, directly or not.
Required ==
    CHOOSE S \in SUBSET DOMAIN world.body :
        /\ ToSet(world.requirements) \subseteq S
        /\ \A c \in S : Needs(c) \subseteq S
        /\ \A T \in SUBSET S : T # S => ~ (/\ ToSet(world.requirements) \subseteq T
                                           /\ \A c \in T : Needs(c) \subseteq T)

\* A finished plan publishes every contract of the project and every contract
\* its requirements need exactly once, each after all it refers to, across
\* batches and epochs, however late the requirement was understood.  The sBTC
\* contracts of a devnet or testnet are left out: see the README.  The project is
\* refused as circular exactly when some of its contracts refer to each other in
\* a circle, and the error names those on a circle and those that need one of
\* them, no other.
PlanRespectsDependencies ==
    /\ gen.phase = "done" =>
        LET txs == FlattenSeq([i \in DOMAIN gen.batches |-> gen.batches[i].txs])
            ids == [i \in DOMAIN txs |-> txs[i].id]
            apart == boot_contracts_ids(gen.network) \cup Boot \cup ToSet(Sbtc)
            listed == DOMAIN manifest
                \cup (IF gen.network = "mainnet" \/ simnet_remote_data(gen.network) THEN {}
                      ELSE Required \ apart)
        IN  /\ {c \in ToSet(ids) : c \notin apart} = listed
            /\ \A i, j \in DOMAIN ids : ids[i] = ids[j] => i = j
            /\ \A i \in DOMAIN ids : \A x \in Needs(ids[i]) \cap listed :
                  \E j \in 1..(i - 1) : ids[j] = x
    /\ gen.graph # NoMap /\ gen.error # "height" =>
        LET Circle(S) == S # {} /\ \A c \in S : Needs(c) \cap S # {}
            circles == {S \in SUBSET DOMAIN manifest : Circle(S)}
        IN  /\ (gen.error = "circular") <=> circles # {}
            /\ order_contracts(gen.graph, manifest @@ gen.epochs).contracts = UNION circles

\* A plan just made for a chain, or for the on-chain pass, keeps the simnet code of
\* a requirement (lib.rs:1067), which loading the plan removes: "Devnet/Testnet
\* broadcast RequirementPublish on-chain; strip `#[env(simnet)]` from those sources
\* too" (types.rs:953) is so of a plan that is read from its file only.
KeepsSimnetCode(c) == ran.by # "saved" /\ ran.env = "OnChain" /\ c \in DOMAIN world.epoch

\* A plan computed beside a saved one in the on-chain pass is made for the simnet,
\* its boot principals rewritten: see OnChainPassSeesPublished.
MadeForSimnet == ran.by = "computed" /\ ran.env = "OnChain" /\ ran.network = "simnet"

\* What the simnet ends up with is the contract as it is on disk or on chain,
\* with its boot principals rewritten unless the session follows the mainnet,
\* and in the on-chain pass of `clarinet check` what would be published.  It is
\* the same whether the plan was computed or read from disk, whenever it was
\* saved; and no plan for a chain publishes simnet code.  Left out are the two
\* cases above, which the code treats otherwise, and a session that follows a
\* testnet, where only a loaded plan is rewritten.
DeployedCodeFits ==
    /\ ran.network = "simnet" /\ ran.remote # "testnet" /\ ~ MadeForSimnet =>
        \A c \in DOMAIN ran.code : ~ KeepsSimnetCode(c) =>
            ran.code[c] = IF ran.env = "OnChain" THEN remove_env_simnet(world.source[c])
                          ELSE IF ran.remote = "mainnet" THEN world.source[c]
                          ELSE remap_mainnet_boot_principals(world.source[c])
    /\ ran.network # "simnet" =>
        \A i \in DOMAIN ran.batches : \A tx \in ToSet(ran.batches[i].txs) :
            IsPublish(tx) /\ ~ KeepsSimnetCode(tx.id) => SimnetCode \notin tx.source

\* "the on-chain pass must analyse what will actually be published on chain, where
\* the mainnet boot addresses are the correct ones" (lib.rs:1336): in that pass of
\* `clarinet check` a contract of the project is checked as it would be published.
\* A plan computed beside a saved one is made for the simnet instead.
OnChainPassSeesPublished ==
    ran.network = "simnet" /\ ran.env = "OnChain" =>
        \A c \in DOMAIN ran.code \ DOMAIN world.epoch :
            ran.code[c] = remove_env_simnet(world.source[c])

\* When the SDK brings a saved plan up to date the user's transactions stay, in
\* their epoch, each once; one that calls a contract of its epoch or an earlier
\* one comes after it is published, as long as the epoch fits in one batch.
Counted(seq) == [x \in ToSet(seq) |-> Cardinality({i \in DOMAIN seq : seq[i] = x})]
CallsOf(batches, e) == Calls(SelectSeq(batches, LAMBDA b : b.epoch = e))
UserTransactionsStay ==
    [][file["simnet"] # None /\ SdkSession =>
        LET old == file["simnet"]
            new == file'["simnet"]
            epochs == {old[i].epoch : i \in DOMAIN old} \cup {new[i].epoch : i \in DOMAIN new}
            At(i, j, x) == IsPublish(new[i].txs[j]) /\ new[i].txs[j].id = x
        IN  /\ \A e \in epochs : Counted(CallsOf(old, e)) = Counted(CallsOf(new, e))
            /\ \A i \in DOMAIN new : \A j \in DOMAIN new[i].txs :
                  LET tx == new[i].txs[j]
                      same == {k \in DOMAIN new : new[k].epoch = new[i].epoch
                                  /\ \E t \in ToSet(new[k].txs) : IsPublish(t)}
                  IN  (~ IsPublish(tx) /\ Get(manifest, tx.id, 99) <= new[i].epoch
                       /\ Cardinality(same) <= 1) =>
                        \E k \in 1..i : \E l \in DOMAIN new[k].txs :
                            At(k, l, tx.id) /\ (k < i \/ l < j)]_vars

\* Every command ends: the search for requirements comes to an end whatever
\* order the contracts are understood in.
CommandsEnd == ~ Free ~> Free
=============================================================================
