# A verification project for Clarinet

TLA+ models of Clarinet's core: deployments and their plans, the devnet, the simnet, the
indexer, the language server, the debugger, and the analyses of contracts (lints, costs,
coverage). TLC checks them on small instances; for the deployment, the observer, mining,
the devnet's shutdown, the simnet, the language server and the debugger TLAPS proves the
safety properties for every instance. `PROJECT.json` maps each definition to the source
lines it stands for and lists the runs, the mutants that show what each property can
detect, the findings, the hazards and the theorems.

## The system

Clarinet is a toolchain for Clarity contracts. Its parts, the state they keep
and how they meet:

| Part | State | Operations | Interaction | Hard behaviour |
|---|---|---|---|---|
| Deployment generation (`clarinet-deployments`, `ast_dependency_detector.rs`) | queue of requirements, caches, plan files | generate, load, merge, save, run | CLI, SDK and language server call it; reads chain and disk | requirements are understood in any order; plans and files age between commands |
| On-chain deployment (`clarinet-deployments/onchain`) | trackers, cached nonces, heights read | encode, post, poll | a thread; RPC to a Stacks node; events to a dashboard or to the coordinator | the node moves between two requests; requests fail; accounts are shared |
| Event observer (`observer`) | command queue, block store | HTTP handlers, command loop | the nodes call it; it calls the coordinator through a channel | handlers run concurrently; a handler updates the pool and enqueues in separate steps |
| Fork pad and block pool (`observer/indexer`) | forks, orphans, stored headers, microblocks | process a header, a block, microblocks | called by the observer's handlers under a lock | any order of arrival, reorganisations, pruning |
| Chains coordinator (`stacks-network/chains_coordinator.rs`) | heights, flags, stacking orders | a select loop over commands and observer events | observer, mining controller, orchestrator, dashboard | blocking work inside the loop; threads it does not wait for |
| Bitcoin mining controller (same file) | stop flag, run loop threads | Start, Pause, Mine | commanded by dashboard, coordinator, signal handler | the flag is read only after a block; requests time out |
| Orchestrator (`orchestrator.rs`) | containers and the ids it holds | clean up, prepare and boot each service, kill | terminator and termination channels | boot steps fail or their answers are lost; the process ends during kill |
| Runner and dashboard (`lib.rs`, `ui/mod.rs`) | channels, thread handles | key, event, signal, join | joins everyone | everyone waiting on everyone |
| Simnet session, datastore, mempool (`clarity-repl`, `clarinet-sdk-wasm`) | versioned keys, journals, chain tips, queue | mine a block, submit, roll back, clone | called by SDK, REPL, language server | undo after a rejected block; clones share a cell; circular nonce dependencies |
| Language server and extension (`clarity-lsp`, `clarity-vscode`) | editor state, caches, a queue | notifications, requests, builds | editor and files | builds await reads; queued changes are merged |
| Debugger (`repl/debug`, `frontend/dap.rs`, the SDK's clients) | breakpoints, stack, connections | step, continue, set, evaluate | the VM's hook, an editor, test runners | requests are read only at a stop; runners time out |
| Lints and editor requests (`analysis`, `clarity-lsp/requests`) | caches of one pass | diagnose, suggest, resolve, complete | linter, language server | suggestions must keep what a contract does |
| Static cost (`clarity-static-cost`) | cost trees, visited sets | bound costs, count trait calls | the VM's cost functions | hash order, calls across contracts |
| Coverage (`coverage.rs`) | counts of one call, reports | hook, collect | the VM's hook, the SDK | names are never evaluated |
| Formatter, manifests, remote data, dashboards, templates | little or none | pure functions and I/O | | not modelled |

What makes each part right: a plan publishes everything once and after what it
needs, and a deployment never outruns its dependencies, epochs or nonces; the
event stream of the indexer always describes one chain; the devnet has a miner
when it should and none when it should not; a devnet that is told to end ends,
and takes its containers with it; a block that is not included leaves no trace
in the simnet, and an admitted transaction can be mined; the editor shows the
newest source and is never stuck in a debug session; what a lint suggests keeps
the contract's behaviour; what the costs promise, and what the coverage shows,
is what the VM does.

## Modules

| Component | Modules | Instance |
|---|---|---|
| On-chain deployment | `Deployment`, `DeploymentProofs` | `MCDeployment` |
| Plans | `DependencyDetector` (order of contracts), `PlanGeneration` (over it), `PlanFiles` (commands over both) | `MCPlanFiles` |
| Indexer | `ForkTracking` (one fork, and what pad and pool share), `ForkScratchPad`, `StacksBlockPool`, `Indexer` (over both); `ChainFollower`, the abstract specification of both | `MCIndexer` |
| Observer and coordinator | `Coordinator` (the observer's pipeline and the coordinator's loop), `CoordinatorProofs` | `MCCoordinator` |
| Mining | `BitcoinMining`, `BitcoinMiningProofs` | `MCDevnet` |
| Devnet | `Orchestrator` (containers), `Devnet` (the threads over it), `DevnetProofs` | `MCDevnet`, one run with the miner's |
| Simnet | `SimnetChain` (datastore and mempool), `Simnet` (session over it); `SimnetLedger`, its abstract specification; `SimnetProofs` | `MCSimnet` |
| Language server | `EditorState`, `LanguageServer` (with the extension's queue), `LanguageServerProofs` | `MCLanguageServer` |
| Contracts | `Clarity` (trees and their traversal, and the VM), `Lints` (and the linter that runs them), `Requests` (definitions, completion, outline), `StaticCost` (with the counts of trait calls), `Coverage`, `ContractEditing` (over all) | `MCContractEditing` |
| Debugger | `DebugServer` (the debugger's state and the sessions over it), `DebugServerProofs` | `MCDebugServer`, with the hook calls of a program |

The second part of `Clarity` is external: the VM as far as the code uses it, its
results, effects, costs and the calls of the evaluation hook.

### State and actions against the code

`Deployment`. `pc` is the place in `apply_on_chain_deployment`. The encoding loop is one
action per transaction (`EncodeTransaction`, or `SkipTransaction` for emulated
transactions, requirements the node has and bitcoin transfers), `NextBatch` the turn of
the batch loop, `PollEpoch` one turn of the epoch loop, `PostTransaction` and `PostError`
one post, `GetInfo` to `EndPass` one turn of the check loop with one action per answer. A
request and what the thread does with its answer are one step; between two requests the
node may mine, leave out transactions, abort a publish, or serve another program
(`MineBitcoinBlock`, `MineStacksBlock`, `ForeignTransaction`). `Fault` is a request that
failed after its retries. `rows` is what the dashboard shows, addressed by index as in the
code.

`PlanFiles`. A command reads the manifest, generates, saves, loads, asks or
applies; generation is the loop of `PlanGeneration`, one requirement per step,
so that retrieval may fail, be answered by the cache or find contracts that
cannot be understood yet. Between commands the user edits the manifest, the
settings, the saved plan and the cache. `world` is what is on chain and on
disk; `ran` records what the last command deployed. A source is the set of what
the code treats specially in it. `DependencyDetector` works on bodies that are
lists of references, in the order of the visitor.

`ForkScratchPad`, `StacksBlockPool`. `pad` and `pool` have the fields of the Rust
structs. A header is processed under the indexer's lock, so it is one action; its
helpers follow the function from the test for a repeated header to pruning. Forks
are a function from ids, because ids are reused. `BTreeMap` iteration is in id
order, so the canonical choice is the last of the longest. `view`, `confirmed`
and `trails` are not in the program: they are the subscriber that applies each
event.

`Coordinator`. One process per request in flight (update under
the lock, then send), the queue, the commands handler with its store of bitcoin
blocks, the coordinator's two kinds of event, one thread per order of pox-5 and
publication, and the node's mempool and blocks, where other accounts stake too.
Chains are lines here.

`BitcoinMining`. A run loop sleeps, requests a block and reads the flag, in
three actions (`RunloopWakes`, `RunloopAnswered`, `RunloopChecks`). A request is
answered, refused, or given up while the node still works on it (`LateBlock`).
Every `Start` appends a run loop. A snapshot is `CreateSnapshot`,
`SnapshotPauses`, `SnapshotExports`, `SnapshotResumes`, since the coordinator
copies, sends Pause, sleeps, exports and sends Start. `overshoot` and
`exportFrom` only record what the properties speak of.

`Devnet`. One variable per thread and one per channel. `CommandTerminates`, `ObserverInfo`
and `ObserverTerminate` are the branches of the coordinator's select, `CoordinatorFails`
the error with which it returns before the loop, and `CoordinatorPanics` its own panics: a
chain event without a block, a reorganisation of microblocks, a deployment thread that is
gone; `InitializeFails` and `BootFails` the two ways a boot fails, of which only the
second goes through `or_fatal` and kills; `PressQuit` and `Terminated` are the two halves
of the dashboard's `terminate`. Other events of the devnet only paint and are left out. In
`Orchestrator`, `docker` says of each service's container whether it is absent, created or
running, and `recorded` whose id is held; each service has an action for its `prepare_*`
and one for its `boot_*` function, in the order of `start`. What is written into a
configuration is data. A step that fails may have had its effect (`StepFails`), a session
may begin with containers of an earlier one (`Leftovers`), and `KillContainers` removes
what is recorded and prunes what does not run. Docker may fail to kill or to remove the
containers of `Stubborn` services; the code discards the error, and `refused` records
them.

`Simnet`. The store maps a key to its values by height; `chain` holds the block
tables and tips of both datastores, `cur` the cell that clones share, `journal`
and `undo` what a tentative block needs to be taken back. `mineBlock` with a
list, the mempool drain, single signed transactions in a tentative block, calls,
read-only calls, snippets, mints, epochs, empty blocks and `initSession` are its
operations; a
transaction is several steps (open a block, execute, charge, commit or undo).
`mirror` is the table of balances that the session reports. `SimnetLedger` says
what that amounts to: accounts and heights change by one included transaction,
or one block, at a time.

`LanguageServer`. The user acts on `disk`, `project` and `buffer`; the extension queues
notifications and merges changes; one handler is under way at a time and awaits reads that
may fail or see newer files. A contract may be opened with a text that is not the file's;
the notification carries it and the bridge drops it. A parse is for a text, a version and
a deployer, of which the cache compares the first two. `es` has the fields of
`EditorState` with its caches of parses and base sessions. Requests are operators on `es`,
asked in every state.

`ContractEditing`. `items` is the contract, `version` its version of Clarity,
`rev` the order in which hash maps are walked. A step follows one diagnostic's
suggestion or writes an `#[allow]`; all else is computed from the state: the
diagnostics by `run_analysis` with one operator per lint and cache, definitions
and completions by `Requests`, bounds by `StaticCost`, the
report by `Coverage`, and the truth by the VM of `Clarity`, which runs every public
and read-only function on every argument and store of the instance. An expression is
a tree; a span is the path to it and the line on which that begins. The developer
breaks lines anywhere, and writes annotations on lines of their own, which
`collect_annotations` numbers and `get_index_of_span` finds by number.

`DebugServer`. An execution is a sequence of hook calls, walked one call at a
time: the parameter `Calls`, for which `MCDebugServer` takes what the VM of
`Clarity` does with the contracts of the instance. `d` is the `DebugState`. `goal` records
where execution was last resumed, by which command, and when each breakpoint was
set; no action depends on it. The editor sends any request
the protocol allows in its view; requests wait in `inbox` until the debugger
reads them. Test runners follow scripts through the blocking or the
asynchronous client, with timeouts. The extension's relay answers `initialize`
by itself and forwards the rest.

## Runs

| Run | Shows |
|---|---|
| `deployment_safety` | Seven transactions of every kind in three batches, the middle one empty, one failing request, one omission or abort, two shared accounts: publish order, completion, epoch gate, no nonce gap, and the deployment ends unless a publish was lost. |
| `deployment_inclusion` | *Violated*: a failed nonce request ends the wait for a batch (finding). |
| `plan_generation` | Commands and edits in any order: a plan publishes everything once, after what it needs, or the circle is reported; the code that is run is the one on disk or on chain, but for the next run and the simnet code of requirements; the user's transactions survive an update; commands end. |
| `plan_onchain_pass` | *Violated*: a computed plan in the on-chain pass of `clarinet check` is rewritten for the simnet (finding). |
| `indexer_pools` | Thirteen bitcoin headers in every order, or twelve stacks blocks and three microblocks out of order: the events of each pool implement `ChainFollower` and agree with its canonical fork, and a block that confirms microblocks finds them applied. |
| `coordinator_pipeline` | Requests, indexer, commands and stacking threads interleaved: a bitcoin event has all its blocks unless a later one overtook it, and a snapshot waits for as many stakes as it counts on, which are those of the orders when nobody else stakes and none stakes twice. |
| `devnet_ends` | Shutdown: every service in turn, with failures, lost answers, leftovers of an earlier session, a container that docker does not remove, a coordinator that fails or panics, a key, a signal and a failing observer in any order: no other container survives a return without error or after a failed boot; a signal ends the process, and so does the key while the coordinator lives. Mining: no run loop is lost, none is started twice by the same party, a handled Pause lets each make one more block, and they come to rest. |
| `simnet_blocks` | The session implements `SimnetLedger`, a rejected transaction leaves no trace, the reported balances are the chain's, and an admitted queue without gaps can be mined. |
| `lsp_session` | Two projects, four user actions: no request is answered from an older text, the server ends up with the newest files, and the queue drains. |
| `lsp_shared` | *Violated*: two projects with a common contract, and the gathering of diagnostics panics (finding). |
| `contract_lints` | Several hundred contracts, edited until nothing is suggested: suggestions keep behaviour but for the named exceptions, dead code is found, an `#[allow]` reaches the line below it only, names resolve as in the VM; static costs and trait counts bound every run, and coverage shows what ran. |
| `debug_sessions` | The console, a launched session and the server with two runners: execution stops where asked, the editor is not stuck, answers belong to their requests, and an editor that goes away leaves nothing stopped. |

Some properties are stated with a premise, because the code has the limit. Each is
a named definition beside the property or a conjunct of it, and the instance has
the case:

* `Terminates` lets a lost publish (`Lost`) keep the thread waiting.
* `CleanReturn` excepts the containers that docker refused to remove and two ways
  to end, `ShutdownEnds` a quit key whose coordinator is gone (`CoordinatorLost`).
* `CompleteUnlessLate` lets events that were overtaken be incomplete.
* `SnapshotAfterStakes` says whose the stakes are only when nobody else stakes and
  no order stakes twice.
* `AnswersAreCurrent` and `ServerIsCurrent` leave out a contract that was opened
  with an unsaved text until it is edited; the second lets a parse be for an earlier
  deployer of the manifest. Both are for projects without a common contract.
* `SuggestionsKeepBehaviour` leaves out the suggestions of `ChangesBehaviour`
  (`StillNamed`, `IsNegation`, `LiteralsOverflow`, `DropsReturn`), and the writes of
  `DropsWrites`; `DeadCodeIsFound` and `EditorKnowsNames` what the traversal does not
  visit (`Unseen`). `EditorKnowsNames` also accepts that a name bound by `match`
  leads to the expression that is matched and is not offered by the completion.
* `AllowIsLocal` lets an allowed error constant hide its duplicate
  (`NoLongerDuplicate`).
* `CostCoversRuns` is about what is read and written and about look-ups, of
  contracts that are neither `Stripped` nor `Computed`; `TraitCallsAreCounted` leaves
  out lists and nested calls.
* `DeployedCodeFits` leaves out what `KeepsSimnetCode`, what is `MadeForSimnet` and a
  session on a remote testnet; `UserTransactionsStay` orders calls behind contracts
  in epochs of one batch.
* `AnswersBelong` allows the blocking client a late answer after a timeout;
  `StopsWhereAsked` both outcomes where numbers of expressions collide.

They are explained under "Findings" and "Observations".

Two runs check two specifications each, which share no variable: a behaviour of
`indexer_pools` feeds one of the two pools (`fed`), and one of `devnet_ends` is a
behaviour of `Devnet` or of `BitcoinMining` (`part`), the other standing still in an
initial state in which its fairness asks for nothing. Every behaviour of either is among
them, so the run decides the properties of both.

### Bounds

* Deployment: seven transactions of seven kinds, three batches. `MaxFaults` 1
  suffices for every error path, since each ends the wait, the pass or the
  deployment; `MaxOmissions` 1 gives a block that leaves out a valid transaction
  and a foreign transaction in between. `MaxLag` (1) bounds how far the node runs
  ahead of what the thread last read, so that either chain moves between two
  reads, `MaxDrift` (2) how far one chain runs ahead of the other. `MaxHeight`
  (16) is past the highest activation height and is not reached before the
  deployment ends, so it does not cut off behaviours of `Terminates`.
* Plans: three contracts of the project, three requirements, two sBTC contracts,
  one boot contract and a placeholder; a batch holds three transactions, so
  epochs overflow. Two commands with one edit in between reach every pair of
  writer and reader of the files.
* Indexer: the code's confirmation length, 7, with a trunk of nine headers,
  so that pruning happens more than once, and side branches below, at and above
  the point of confirmation. `HeaderWindow`, the whole tree, and `Window`, 3 for
  the pool, bound how far a block may overtake. The first header is the one
  without a parent, as the devnet starts to observe at the beginning of its
  chain; the pool may also start from the blocks of a snapshot.
* Pipeline: two requests at a time, three bitcoin and two stacks blocks, two
  orders, staked at the switch to pox-5 or a cycle after each other, the second
  again when its cycle comes. The two requests are symmetric.
* Mining: at most two run loops can be started (`StartedOnce`), so one snapshot
  and one boot give every combination. `MaxHeight` only stops counting blocks,
  not making them; `MaxProxied`, `MaxKeys`, `MaxFaults` are 1.
* Devnet: nothing is bounded; every channel is finite because its senders are.
  All services are enabled and there are two signers, so every step happens.
  Docker may fail to remove the bitcoin node's container (`Stubborn`); one is
  enough, as containers do not depend on each other.
* Simnet: two accounts, six signed transactions that conflict, sponsor each
  other in a circle or fail, a queue of two, one listed per block, height 2.
  The chaining limit, 26 in the code, is 1 so that it is met.
* Language server: two contracts in two projects, three texts (plain, with
  simnet code, broken), four user actions, a queue of four, a cache of one base
  session so that it is evicted, a manifest that changes its deployer and one that
  changes settings and moves a contract to the overridden boot contracts.
* Contracts: small contracts around each lint, each native function that a lint,
  a cost rule or the coverage treats specially, and calls of two libraries,
  directly and through a trait, some of them broken into lines with annotations
  between; both hash orders; integers up to 1, so that sums of literals overflow;
  one `#[allow]` beside those of the text. `MaxCost` caps sums far above what occurs.
* Debugger: one expression that calls between two contracts whose expressions share
  numbers; at most one breakpoint or watchpoint in the console, three when
  launched, two when attached; two requests under way, one pause; scripts of one block with a
  snippet and a call, and a second runner that disconnects.

Deadlock is checked for `plan_generation`: a command that is under way always has
a next step. Elsewhere the modelled systems end.

### Fairness

* `Deployment!FairSpec`: the thread is scheduled, and both chains produce
  blocks. On a devnet the mining controller makes bitcoin blocks at a fixed
  interval and the stacks node follows; without blocks the code waits and
  promises nothing. Requests may fail `MaxFaults` times.
* `PlanFiles!Fairness`: a command that was given goes on, since it runs in a
  thread of its own until it ends. `turn` flips with each of its steps, so that a
  loop of steps that change nothing else counts as one. The user need not do
  anything.
* `MinerFairness`: the controller and each run loop are scheduled and a
  request ends, because the client has a timeout of two seconds. The keyboard,
  the boot and the coordinator need not do anything.
* `Devnet!Fairness`: each thread is scheduled, the steps of the boot end, and the
  two channels of the coordinator's `select` are served fairly, as crossbeam picks a ready operation
  at random. Most requests are retried a bounded number of times; two loops of the
  boot have no bound (a wallet that can be neither created nor loaded,
  `orchestrator.rs:1985`, and an API container that does not run, line 1371), and
  `wait_container` waits for docker; that they end is assumed. So is that the
  coordinator starts or fails to. Keys, signals and failures need not happen.
* `LanguageServer`: the handler in flight goes on, since reads end, well or not.
* `DebugServer!Fairness`: the server is scheduled, and the connection of an
  editor that has disconnected is closed. The editor and the runners need not do
  anything.

## Proofs

`DeploymentProofs` proves, for every plan that satisfies the named assumptions
(transactions flattened in batch order, no requirements on mainnet) and every
bound:

* `TypeCorrect`: `Spec => []TypeOK`.
* `PublishOrder`, `CompletionIsPublication`: what is posted and what is
  completed implies that earlier contracts are on the node. Neither is
  inductive: that a batch was left says nothing about contracts until one knows
  that the pass which left it visited every tracker. `IInv` adds that nothing is
  posted before encoding is done and that what encoding skipped is on the node
  (`EncodedInv`), that every batch before the current one is published
  (`BatchInv`), that a tracker which the running pass has visited without
  `keep_looping` is published (`CheckInv`), and that the final event came after
  the last batch (`OutcomeInv`). The node's part of the argument is that
  `published` only grows.
* `EpochGate`: from `EpochInv`, which relates the height the thread remembers to
  the node's and says that past the gate the node is past the activation height.
* `NoncesHaveNoGap`: from `GapInv`, beside `IInv`. The nonces given out for an
  account fill an interval that starts at or below the account's nonce and rise in
  the order of the plan (`NonceInv`); transactions are posted in that order, across
  batches too (`PostInv`); and what was posted is in the mempool until its nonce is
  spent (`MempoolInv`). A block takes a prefix of an account's nonces; that the
  account's nonce grows by exactly the number of its transactions in the block is
  `BlockSpends`, a bijection between the block and an interval.

`BitcoinMiningProofs` proves, for every configuration and bound:

* `TypeCorrect`, `NoMinerLost`, `StartsAreSingle`, `BoundedOvershoot`. The
  invariant `Inductive` shows to be inductive has four parts besides the type:
  `MinerIsNotLost` itself, since a Start appends a run loop in the step that
  lowers the flag and no run loop ends with the flag down; `SnapshotInv`, that
  the coordinator is in a snapshot only once; `ChannelInv`, that a Start by
  someone is in the queue, or done, only if that someone has sent it, and sent
  once; `OvershootInv`, that a run loop which has used its extra block is on its
  way to read the raised flag.

`DevnetProofs` proves `CleanShutdown`, for any signers and any disabled services: a
dashboard run that returns without an error, or after a failed step of the boot, leaves no
container but those docker refused to kill or to remove, unless the bitcoin node could not
be initialized or the coordinator panicked. `CleanReturn` relates the main thread to the
containers and is not inductive; its two halves meet at the orchestrator's thread: such a
return has waited for the thread or its kill (`JoinedInv`, `TerminatedInv`), and the
thread ends with kill (`KilledInv`). That kill leaves nothing needs `RecordedInv`: a
container runs only after it was started by its id, or because it was refused to a
clean-up, so the ones whose id was lost do not run and are pruned; `DiscardEffect` says
what both clean-ups leave.

`CoordinatorProofs` proves `OnTimeIsComplete`, for any set of handlers, any depth
of confirmation and chains of any length: `CompleteUnlessLate`. It is not
inductive, as it speaks of events already handled; `IInv` follows a block from
the request to the store:

* `TipInv`: the indexer's tip ends what it has seen without a gap;
* `KeptInv`: a header above the tip, or about to be indexed, has its block in the
  store or in the queue, because a handler queues the block first;
* `EventsInv`: an event that waits in the queue or in a handler finds each of its
  blocks kept by then, unless a later event was handled already;
* `OrderInv`: of two waiting events, one has the smaller number and is about
  blocks that the other neither announces nor confirms, because numbers are given
  out under the indexer's lock together with the headers just above the tip.

Only a confirmation takes a block out of the store, so with `OrderInv` handling
one event leaves the blocks of the later ones alone.

`SimnetProofs` begins with lemmas about the versioned store: a read finds the
latest write at or below its height (`ReadIsLatest`), what a frame commits is what
is then read (`CommitIsRead`), undoing the journal gives back the store as it was
when the journal was opened, a cell written twice included (`RestoreUndoes`). It
then proves, for any accounts, contracts, signed transactions, calls and epochs
and any number of blocks:

* `TypeCorrect`, `RejectionLeavesNoTrace`, `MirrorIsTheChain`. `IInv` relates the
  phase of the operation to the journal (`Phases`), the tables and the mirror of
  the balances to the store (`Session`), what is read through the open frame to
  the fee and the transfer of the transaction that is executed (`Framed`), and,
  while a block is tentative, the session to the one the block began in:
  one block above it, with a journal that undoes the store to the old one
  (`Undoable`). The mirror is kept in two ways, read back for signed transactions
  and added up from events for the others; `Framed` is what makes them agree.

The second part, about the ledger, builds on it:

* `SessionIsLedger`: `Spec => IsLedger`, the refinement of `SimnetLedger` under the
  mapping that hides a tentative block until it is included. The block's writes
  become visible in one step, so `LInv` adds what that step relies on: that the
  transaction was admitted against the nonces and balances it then takes
  (`Admitted`), and that since the tentative block began either nothing happened or
  exactly one transaction was included (`Progress`).
* `MempoolIsLive`: `QueueCanBeMined`. Its second half asks for an order, so
  `QueueOK` says that there is one: a rank of the queued transactions that grows
  with the nonces of every account. Admission gives the rank, as the topological
  sort of `check_nonce_dependencies` numbers what it takes; its recursive function
  is shown to be well defined on the way. Since, by the refinement, no step takes a
  nonce back within a session, what is stale stays stale and the rank stays good.

`LanguageServerProofs` proves, for any contracts, texts and notifications of an
editing session and any projects without a common contract (`Disjoint`, a hypothesis
of each theorem):

* `TypeCorrect`, `ServerFollowsEditor`, `AnswersFollowEditor`: `TypeOK`,
  `ServerIsCurrent` and `AnswersAreCurrent`. Both properties speak of an empty
  queue; `IInv` says what the waiting notifications will make true. For each
  contract the newest waiting notification about its buffer carries what the buffer
  holds, or is an opening of a file that the buffer still equals (`TextOK`); this is
  where the rule that merges changes matters. An opening comes when the server has
  the contract closed, or behind a closing (`TurnOK`), or else the text that was
  typed would stay in place of the file's. An analysed project describes the files,
  or a save of the file that it does not describe is still to be handled
  (`ProjectOK`). What is parsed, defined and cached is about the text it is kept
  with (`ActiveOK`, `CacheOK`), and a base session is kept under the settings it was
  set up for (`Slots`), so that what a build reuses is what it would have computed,
  for the deployer of then: `DInv` says that it was one of the manifest's. A contract
  in `unsaved` is left out of `TextOK` until it is edited.
* `DisjointNeverPanics`: the lookup holds every contract of every analysed project, so the
  gathering of diagnostics never fails its `expect`. `ProjectOK` has it as a part.

No code enforces `Disjoint`. With two manifests that list one file, forgetting one
project takes the file out of the lookup while the other still names it; when the
build that follows fails or lists the file no more, the next gathering of diagnostics
panics: run `lsp_shared`.

`DebugServerProofs` proves, for any sequences of hook calls, breakpoints, watched
variables and scripts of any number of test runners, in all three modes:

* `TypeCorrect`: `Spec => []TypeOK`.
* `StopsAreAsked`: `StopsWhereAsked`, from `RunInv`. The property compares a stop
  with the calls since the last command, the debugger only sees its own stack, set
  of active breakpoints and state, so `RunInv` relates the two after every hook
  call. `Follows`: the stack is what is being evaluated, frame by frame; a
  breakpoint is active only while an expression at it is, that began after the
  breakpoint was set (deleting one leaves its number behind, and numbers are not
  given out again). `Pursues`: the state is what `Remains` of the last command, and
  no breakpoint was hit since that a list has not answered, or else the state is
  that of the breakpoint that was met. For a step out, what remains is a frame that
  is still open, or one with the same number that has ended since (`Left`). Lemmas
  show what a "begin" and an "end" do to either (`FollowsBegin`, `PursuesBegin`,
  `FollowsEnd`, `PursuesEnd`), and that where they disagree is where execution
  stops (`StopMust`, `StopMay`).
* `EditorGoesOn`: `EditorIsNotStuck`, from `EditorInv`. The property speaks of an
  empty queue; the invariant says, for every queue, what it may hold in each view of
  the editor: at most one request before the session is configured, `threads` only
  as the last while it is, nothing of the handshake once the program runs, and a
  `disconnect` only at the end; and that the editor is owed one answer for each
  request that waits, and one more while a launch is configured. A stop that the
  editor did not expect finds requests made against the view before it, so
  `LiveInv` holds in every view.
* `AnswersAreOwn`: `AnswersBelong`, from `SdkInv`: what is executed is the first
  request on the wire of its client, and the numbers on the wire and on the way back
  rise, those on the way back first. For the blocking client, unless a request has
  timed out, nothing is under way but the one that waits.

They rest on `CallsAssumption`, that the VM calls the hook in pairs, so that only an
expression that has begun ends, and on `ServerAssumption`, the types of the
parameters. No assumption is made of the numbers of expressions, which collide
between contracts: the property allows for it.

The assumptions are the named `ASSUME`s of the models: types of the parameters, the order
of a flattened plan, that an absent entry of the store is no value, that signed
transactions and calls are told apart, that hook calls are paired. TLC evaluates each on
its instance, and checked each inductive invariant there before it was proved (the
debugger's in each mode by itself without extra requests, and with one request under way
when attached).

Only model-checked:

* liveness (`Terminates`, `PauseStops`, `ShutdownEnds`, `CommandsEnd`,
  `QueueDrains`, `QuitRunsOn`), which the provers do not cover;
* the fork pad and the block pool, with their refinement of `ChainFollower`: their
  state is computed by folds over forks, and what a fold computes needs induction
  over data;
* everything about syntax trees (`Clarity` and the modules over it,
  `DependencyDetector` and the plans), which is recursive. That the hook calls which
  `MCDebugServer` derives from a program are paired is checked on the instance only, as
  the assumption of the debugger's proofs;
* `SnapshotAfterStakes`, whose counts are cardinalities of sets that several threads
  fill;
* the sizes of the channels in `Devnet!TypeOK`.

## Findings

* A failed nonce request lets the deployment leave a batch early
  (`onchain/mod.rs:870`): run `deployment_inclusion`.
* Two manifests that list one file make the gathering of diagnostics panic
  (`state.rs:701`): run `lsp_shared`.
* A computed plan in the on-chain pass of `clarinet check` has its boot principals
  rewritten for the simnet, against the comments at
  `clarinet-deployments/src/lib.rs:80` and 1336: run `plan_onchain_pass`.

## Observations

What else was met while modelling. The models take these steps as the code does;
the properties are stated so that they hold beside them.

Deployment: a publish that was mined and aborted, or whose nonce another program
spent, is asked for in every pass, and the thread waits for ever
(`onchain/mod.rs:861`).

Devnet and indexer:

* Fork ids are reused while alive, so that a fork registered after a pruning can
  overwrite a live one (`fork_scratch_pad.rs:89`); a confirmed header that is
  announced again is confirmed again (line 56).
* A Pause does not keep blocks out of an export (`chains_coordinator.rs:1247`),
  and the Start after a snapshot may add a second miner (line 762).
* Errors of killing and removing containers are discarded, in the clean-up before a
  session (`orchestrator.rs:795`) and at its end (line 1859), and the run is reported
  a success.
* The quit key hangs after the observer has ended by itself (line 561), and after the
  coordinator returned an error (`chains_coordinator.rs:178`) or panicked: on an event
  without blocks (line 361), or on failed orders and sends (lines 400, 428, 445, 454).
  A signal in logger mode ends the process before the containers are killed
  (`lib.rs:291`); a failed `initialize_bitcoin_node` never kills
  (`orchestrator.rs:441`); a message that arrives after the dashboard has
  returned makes the coordinator panic, and main returns an error without
  joining the orchestrator (`chains_coordinator.rs:353`).
* The snapshot counts every successful stake of pox-5 and not those of the orders
  (`chains_coordinator.rs:474`), where the comment at line 468 says "only after all
  stacking orders are confirmed on-chain". Stated of every order, without the premise of
  `SnapshotAfterStakes`, TLC refutes it within the same bounds.
* When the node moves to pox-5, orders that are not active any more are stacked
  again (line 826), and the number of stakes to wait for includes orders that are
  only extended. Stakes are counted in the last block of an event only.
* The pool computes a microblock event against a fork that it reads anew for each
  microblock of a payload, so an event tells of the last one only
  (`blocks_pool.rs:466`).

Plans:

* A plan that has just been made for a chain keeps the simnet code of its requirements
  (`clarinet-deployments/src/lib.rs:1067`); only one that is read from its file loses it,
  although `types.rs:953` says "strip `#[env(simnet)]` from those sources too". Without
  `KeepsSimnetCode`, TLC refutes `DeployedCodeFits`.
* `--no-batch` is not read. The SDK's update of a plan sorts a batch without an
  epoch first, is not idempotent, and can put a call before its contract when an
  epoch needs more than one batch.
* A requirement on testnet loses the dependencies of its sBTC contracts, and one
  that reaches pox-5 fails with an error about heights; the devnet's sBTC
  contracts follow the requirements in epoch 3.0 whoever calls them. A session
  on a remote testnet rewrites the boot principals of a loaded plan and not those
  of a new one. A requirement that calls a function nobody defines would be put
  back for ever.

Language server:

* The text of `didOpen` is dropped (`vscode_bridge.rs:70`), so that a contract restored
  with unsaved changes is answered, and formatted, from its file until the next
  change. A changed deployer does not make an unchanged contract be parsed again
  (`types.rs:205`). Diagnostics of a contract that a manifest dropped stay shown.
* In the native bridge a change of a file that is no contract waits for an answer
  that nobody sends (`native_bridge.rs:371`), and all handlers share one response
  channel (line 127).
* A name bound by `match` leads to the expression that is matched, and is not
  offered by the completion; the range of "bindings" in the outline depends on
  the order of a hash map.

Lints:

* `(- x)` is reported as having no effect; `(and (var-set ..) false)` is
  simplified to `false` with its effect lost, and with an early return in it lost
  too; literals that overflow start the
  accumulator again. The public key of `secp256k1-verify` is never traversed
  (`ast_visitor.rs:1395`), of an allowance only the first argument (line 2862),
  and `as-contract?` without arguments slices past its end.
* An effect in a top-level expression ends the traversal of
  `unnecessary_public`; an unused map, token or trait is suggested for removal
  although another definition names it; an allowed duplicate error constant
  hides the next. An `#[allow]` for an unused `let` binding is looked up by the line
  of its value, one for a tuple type by that of the definition, while the diagnostic
  is shown at the name or the type: on a text of several lines the `#[allow]` above
  what is shown has no effect.

Costs:

* The run time maximum is not a bound: the cost of calls as the only operands is stripped,
with the storage of the expression around them (`cost_analysis.rs:1559`), so that a run
reads more than the maximum too; a constant that is not a literal is not counted when it
is loaded (line 651); look-ups of bound names are not charged; the length of a list whose
type is not inferred is 1. The minimum is not a bound under `try!`, `unwrap!`, short
circuits, nested `asserts!` or `map-insert` of a present key. * A circle through traits,
or a second call of a contract whose analysis failed, costs nothing; the trait path drops
the callee's warnings; types of the calling contract are used inside its callees; a call
narrowed by its arguments can cost more than the general one. * Trait calls under `map`
and `fold`, or in a call nested in a call's argument, do not reach the caller, and nested
multipliers replace each other.

Coverage: the first line of a function may count one more, depending on the
order of a hash map; a function's name alone on its line shows 0.

Debugger:

* After a timeout the blocking client takes the late answer for that of its next
  request (`syncDebugSocket.ts:146`), and `callPrivateFn` sends a method the
  server does not know.
* `finish` waits for the end of the enclosing expression (`debug/mod.rs:210`), where the
  help of the console says "until returning from the current expression" (`cli.rs:573`).
* Expression ids of different contracts collide, so a step over goes on in a caller that
  has the id (`debug/mod.rs:511`), although the comment there says "We're still inside the
  expression which should be stepped over"; a step out may in the same way end early.
* A breakpoint on the line of an atom stops at the next list or
  never; frames at one depth share an id. A pause is only read at a stop; a
  message that cannot be decoded ends the stream; an `evaluate` before
  initialisation is not answered; `next` before the execution unwraps nothing.

## Not modelled

Payloads, fees, signatures and wire formats; the Clarity VM, Docker, bitcoind
and the Stacks node except as the code uses them; presentation and wording;
parsing of manifests and of the text of deployment files; the formatter, whose
result is text; remote data, since the sessions of the models have none; the
snapshot cache's files; the native bridge. In `Devnet`: handlers that cannot be
installed, errors of the terminal, and the orchestrator's restart command, which
nothing sends. In `Deployment`: the update of fees before the deployment, and
the outcome of a bitcoin transfer, which the code does not check either. In
`Simnet`: the remote chain, logs and traces. In `StacksBlockPool`: payloads of
several microblocks and signer data. In the modules about contracts: native
functions that no lint, cost rule or hook treats specially are represented by
one of their kind. `PROJECT.json` gives the reason for each component.

## Plan

Theorems to come: `TypeOK` of `Devnet`; `ConfirmedTrails` of `StacksBlockPool`.
Models to come: the snapshot cache with its marker, crashes and two processes;
the reads of a remote chain; the native bridge of the language server.
