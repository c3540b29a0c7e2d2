---------------------------- MODULE BitcoinMining ----------------------------
(***************************************************************************)
(* Who makes bitcoin blocks on a devnet (stacks-network).                  *)
(*                                                                         *)
(* Until the deployment is complete the chains coordinator mines a block   *)
(* itself for each bitcoin transaction the stacks node sends.  Then the    *)
(* mining controller takes over: commands reach it through a channel, each *)
(* Start spawns a run loop thread, and Pause raises the flag that the run  *)
(* loops read after each block.  Start comes from the user interface when  *)
(* the boot completes and from the coordinator when it has taken a         *)
(* snapshot; Mine from the keyboard; Pause from whoever ends the devnet,   *)
(* and from the coordinator before a snapshot is exported.                 *)
(***************************************************************************)
EXTENDS Integers, Sequences

CONSTANTS
    AutominingDisabled, \* bitcoin_controller_automining_disabled
    CreateNewSnapshot,  \* --create-new-snapshot
    Keyboard,           \* whether the dashboard is displayed, with its keys
    MaxHeight,          \* bound: blocks counted, later ones are not
    MaxProxied,         \* bound: bitcoin transactions the stacks node sends
    MaxKeys,            \* bound: presses of the key that mines a block
    MaxFaults           \* bound: generatetoaddress requests that fail

ASSUME MiningAssumption ==
    /\ AutominingDisabled \in BOOLEAN /\ CreateNewSnapshot \in BOOLEAN
    /\ Keyboard \in BOOLEAN
    /\ MaxHeight \in Nat /\ MaxProxied \in Nat /\ MaxKeys \in Nat /\ MaxFaults \in Nat

VARIABLES
    queue,         \* mining commands sent and not received yet
    stopMiner,     \* the flag of handle_bitcoin_mining
    controller,    \* the mining controller: receiving, or waiting for a block
    runloops,      \* the run loop threads: who started each, and where it is
    coordinatorAt, \* where the chains coordinator is
    bootCompleted, \* the flag the relay of deployment events raises
    bootEvent,     \* whether BootCompleted is unsent, sent or handled
    ui,            \* the thread that handles devnet events
    signalled,     \* SIGINT or SIGTERM was received
    snapshotCreated,
    height,        \* blocks on the bitcoin node
    late,          \* requests the client gave up and the node still works on
    proxied, keys, faults,
    overshoot,     \* requests each run loop sent since the flag was raised
    exportFrom     \* the height when an export began with the flag raised

mining   == <<queue, stopMiner, controller, runloops, overshoot>>
starters == <<bootCompleted, bootEvent, ui, signalled, keys>>
node     == <<height, late, faults>>
chains   == <<coordinatorAt, snapshotCreated, exportFrom, proxied>>
minerVars == <<mining, starters, node, chains>>

NoHeight == -1

Senders == {"ui", "coordinator", "signal"}
Commands == [cmd : {"Start", "Pause", "Mine"}, from : Senders]

Runloops == [by : Senders, pc : {"asleep", "requested", "answered", "ended"}]

Send(cmd, from) == queue' = Append(queue, [cmd |-> cmd, from |-> from])

MinerInit ==
    /\ queue = <<>>
    /\ stopMiner = FALSE
    /\ controller = "receiving"
    /\ runloops = <<>>
    /\ coordinatorAt = "looping"
    /\ bootCompleted = FALSE
    /\ bootEvent = "none"
    /\ ui = "running"
    /\ signalled = FALSE
    /\ snapshotCreated = FALSE
    /\ height = 0 /\ late = 0
    /\ proxied = 0 /\ keys = 0 /\ faults = 0
    /\ overshoot = <<>>
    /\ exportFrom = NoHeight

-----------------------------------------------------------------------------
(* mine_bitcoin_block: the node makes the block and answers, or refuses, or *)
(* the client's two seconds are over while the node still works on it.      *)
Count(n) == IF n < MaxHeight THEN n + 1 ELSE n

RequestEnds ==
    \/ height' = Count(height) /\ UNCHANGED <<late, faults>>
    \/ /\ faults < MaxFaults
       /\ faults' = faults + 1
       /\ late' \in {late, late + 1}
       /\ UNCHANGED height

LateBlock ==
    /\ late > 0
    /\ late' = late - 1
    /\ height' = Count(height)
    /\ UNCHANGED <<mining, starters, faults, chains>>

-----------------------------------------------------------------------------
(* The mining controller: handle_bitcoin_mining. *)
Received(cmd) ==
    /\ controller = "receiving"
    /\ queue # <<>>
    /\ Head(queue).cmd = cmd
    /\ queue' = Tail(queue)

Spawned(from) == [by |-> from, pc |-> "asleep"]

\* Mutant: a Start finds a run loop and only lowers the flag.
StartReusesRunloop ==
    /\ Received("Start")
    /\ stopMiner' = FALSE
    /\ runloops' = IF runloops = <<>> THEN <<Spawned(Head(queue).from)>> ELSE runloops
    /\ overshoot' = [i \in DOMAIN runloops' |-> 0]
    /\ UNCHANGED <<controller, starters, node, chains>>

Start ==
    /\ Received("Start")
    /\ stopMiner' = FALSE
    /\ runloops' = Append(runloops, Spawned(Head(queue).from))
    /\ overshoot' = [i \in DOMAIN runloops' |-> 0]
    /\ UNCHANGED <<controller, starters, node, chains>>

Pause ==
    /\ Received("Pause")
    /\ stopMiner' = TRUE
    /\ UNCHANGED <<controller, runloops, overshoot, starters, node, chains>>

Mine ==
    /\ Received("Mine")
    /\ controller' = "requested"
    /\ UNCHANGED <<stopMiner, runloops, overshoot, starters, node, chains>>

MineEnds ==
    /\ controller = "requested"
    /\ RequestEnds
    /\ controller' = "receiving"
    /\ UNCHANGED <<queue, stopMiner, runloops, overshoot, starters, chains>>

-----------------------------------------------------------------------------
(* A run loop: it sleeps for the block time, requests a block, and reads    *)
(* the flag when the request has ended.                                     *)
RunloopAt(i, pc)   == i \in DOMAIN runloops /\ runloops[i].pc = pc
RunloopGoes(i, pc) == runloops' = [runloops EXCEPT ![i].pc = pc]

\* Mutant: a run loop that finds the flag raised goes on sleeping.
RunloopSleepsOn(i) ==
    /\ RunloopAt(i, "asleep") /\ ~stopMiner
    /\ RunloopGoes(i, "requested")
    /\ overshoot' = [overshoot EXCEPT ![i] = 0]
    /\ UNCHANGED <<queue, stopMiner, controller, starters, node, chains>>

RunloopWakes(i) ==
    /\ RunloopAt(i, "asleep")
    /\ RunloopGoes(i, "requested")
    /\ overshoot' = [overshoot EXCEPT ![i] = IF stopMiner THEN @ + 1 ELSE 0]
    /\ UNCHANGED <<queue, stopMiner, controller, starters, node, chains>>

RunloopAnswered(i) ==
    /\ RunloopAt(i, "requested")
    /\ RequestEnds
    /\ RunloopGoes(i, "answered")
    /\ UNCHANGED <<queue, stopMiner, controller, overshoot, starters, chains>>

\* Mutant: a failed request is tried again before the flag is read.
RunloopChecksLate(i) ==
    /\ RunloopAt(i, "answered")
    /\ \/ RunloopGoes(i, IF stopMiner THEN "ended" ELSE "asleep")
       \/ faults > 0 /\ RunloopGoes(i, "asleep")
    /\ UNCHANGED <<queue, stopMiner, controller, overshoot, starters, node,
                   chains>>

RunloopChecks(i) ==
    /\ RunloopAt(i, "answered")
    /\ RunloopGoes(i, IF stopMiner THEN "ended" ELSE "asleep")
    /\ UNCHANGED <<queue, stopMiner, controller, overshoot, starters, node,
                   chains>>

-----------------------------------------------------------------------------
(* The chains coordinator. *)

\* NotifyBitcoinTransactionProxied: the flag is read, then the thread sleeps,
\* then it mines.
TransactionProxied ==
    /\ coordinatorAt = "looping" /\ ~bootCompleted
    /\ proxied < MaxProxied
    /\ proxied' = proxied + 1
    /\ coordinatorAt' = "delaying"
    /\ UNCHANGED <<mining, starters, node, snapshotCreated, exportFrom>>

BootBlock ==
    /\ coordinatorAt = "delaying"
    /\ RequestEnds
    /\ coordinatorAt' = "looping"
    /\ UNCHANGED <<mining, starters, snapshotCreated, exportFrom, proxied>>

\* create_global_snapshot, when the stacking orders are confirmed: the chain
\* directories are copied, mining is paused, the API's events are exported,
\* mining is resumed.
CreateSnapshot ==
    /\ coordinatorAt = "looping"
    /\ CreateNewSnapshot /\ ~snapshotCreated
    /\ snapshotCreated' = TRUE
    /\ coordinatorAt' = "copying"
    /\ UNCHANGED <<mining, starters, node, exportFrom, proxied>>

SnapshotPauses ==
    /\ coordinatorAt = "copying"
    /\ Send("Pause", "coordinator")
    /\ coordinatorAt' = "pausing"
    /\ UNCHANGED <<stopMiner, controller, runloops, overshoot, starters, node,
                   snapshotCreated, exportFrom, proxied>>

SnapshotExports ==
    /\ coordinatorAt = "pausing"
    /\ coordinatorAt' = "exporting"
    /\ exportFrom' = IF stopMiner THEN height ELSE NoHeight
    /\ UNCHANGED <<mining, starters, node, snapshotCreated, proxied>>

SnapshotResumes ==
    /\ coordinatorAt = "exporting"
    /\ Send("Start", "coordinator")
    /\ coordinatorAt' = "looping"
    /\ exportFrom' = NoHeight
    /\ UNCHANGED <<stopMiner, controller, runloops, overshoot, starters, node,
                   snapshotCreated, proxied>>

\* ChainsCoordinatorCommand::Terminate from the dashboard, and the end of the
\* observer after a signal.
CoordinatorTerminates ==
    /\ coordinatorAt = "looping"
    /\ ui = "terminating"
    /\ Send("Pause", "coordinator")
    /\ coordinatorAt' = "ended"
    /\ UNCHANGED <<stopMiner, controller, runloops, overshoot, starters, node,
                   snapshotCreated, exportFrom, proxied>>

CoordinatorEnds ==
    /\ coordinatorAt = "looping"
    /\ signalled
    /\ coordinatorAt' = "ended"
    /\ UNCHANGED <<mining, starters, node, snapshotCreated, exportFrom,
                   proxied>>

-----------------------------------------------------------------------------
(* The relay of deployment events, the signal handler and the thread that   *)
(* handles devnet events, the dashboard's or the logger's.                  *)

\* DeploymentCompleted; the relay leaves its loop.
BootCompletes ==
    /\ bootEvent = "none"
    /\ bootCompleted' = TRUE
    /\ bootEvent' = "sent"
    /\ UNCHANGED <<mining, ui, signalled, keys, node, chains>>

\* Mutant: the event is not consumed, as with a relay that goes on.
HandleBootCompletedAgain ==
    /\ ui = "running" /\ bootEvent = "sent" /\ Len(queue) < 2
    /\ IF AutominingDisabled THEN UNCHANGED queue ELSE Send("Start", "ui")
    /\ UNCHANGED <<stopMiner, controller, runloops, overshoot, starters, node,
                   chains>>

HandleBootCompleted ==
    /\ ui = "running" /\ bootEvent = "sent"
    /\ bootEvent' = "handled"
    /\ IF AutominingDisabled THEN UNCHANGED queue ELSE Send("Start", "ui")
    /\ UNCHANGED <<stopMiner, controller, runloops, overshoot, bootCompleted,
                   ui, signalled, keys, node, chains>>

\* The key "n", which the dashboard knows what to do with after BootCompleted.
PressMine ==
    /\ Keyboard /\ ui = "running" /\ bootEvent = "handled"
    /\ keys < MaxKeys
    /\ keys' = keys + 1
    /\ Send("Mine", "ui")
    /\ UNCHANGED <<stopMiner, controller, runloops, overshoot, bootCompleted,
                   bootEvent, ui, signalled, node, chains>>

\* Control-C on the dashboard, or a fatal error of the orchestrator: either way
\* the coordinator is told to terminate and no more devnet event is handled.
Quit ==
    /\ ui = "running"
    /\ ui' = "terminating"
    /\ UNCHANGED <<mining, bootCompleted, bootEvent, signalled, keys, node,
                   chains>>

SignalPauses ==
    /\ ~signalled
    /\ signalled' = TRUE
    /\ Send("Pause", "signal")
    /\ UNCHANGED <<stopMiner, controller, runloops, overshoot, bootCompleted,
                   bootEvent, ui, keys, node, chains>>

\* DevnetEvent::Terminate, three seconds after the signal.
UiTerminates ==
    /\ signalled /\ ui = "running"
    /\ ui' = "ended"
    /\ UNCHANGED <<mining, bootCompleted, bootEvent, signalled, keys, node,
                   chains>>

-----------------------------------------------------------------------------
Controller == Start \/ Pause \/ Mine \/ MineEnds

Runloop == \E i \in DOMAIN runloops : RunloopWakes(i) \/ RunloopAnswered(i) \/ RunloopChecks(i)

CoordinatorSteps ==
    \/ TransactionProxied \/ BootBlock
    \/ CreateSnapshot \/ SnapshotPauses \/ SnapshotExports \/ SnapshotResumes
    \/ CoordinatorTerminates \/ CoordinatorEnds

Events ==
    \/ BootCompletes \/ HandleBootCompleted
    \/ PressMine \/ Quit \/ SignalPauses \/ UiTerminates

MinerNext == LateBlock \/ Controller \/ Runloop \/ CoordinatorSteps \/ Events

MinerSpec == MinerInit /\ [][MinerNext]_minerVars

\* Every thread that can run does, and a request ends because the client's
\* timeout is two seconds.  Nobody has to press a key, and the boot may never
\* complete.
MinerFairness ==
    /\ WF_minerVars(Controller)
    /\ \A i \in 1..2 : WF_minerVars(RunloopWakes(i) \/ RunloopAnswered(i) \/ RunloopChecks(i))

MinerFairSpec == MinerSpec /\ MinerFairness

-----------------------------------------------------------------------------
\* The type of each variable; no more late requests than faults.
MinerTypeOK ==
    /\ queue \in Seq(Commands)
    /\ stopMiner \in BOOLEAN
    /\ controller \in {"receiving", "requested"}
    /\ runloops \in Seq(Runloops)
    /\ coordinatorAt \in {"looping", "delaying", "copying", "pausing", "exporting", "ended"}
    /\ bootCompleted \in BOOLEAN /\ signalled \in BOOLEAN /\ snapshotCreated \in BOOLEAN
    /\ bootEvent \in {"none", "sent", "handled"}
    /\ ui \in {"running", "terminating", "ended"}
    /\ height \in 0..MaxHeight /\ faults \in 0..MaxFaults /\ late \in 0..faults
    /\ proxied \in 0..MaxProxied /\ keys \in 0..MaxKeys
    /\ overshoot \in [DOMAIN runloops -> Nat]
    /\ exportFrom \in {NoHeight} \cup 0..MaxHeight

\* However a Pause and a Start race with the run loops that read the flag, a
\* devnet that is meant to mine has a run loop that does: a resumed miner is
\* never lost.
MinerIsNotLost ==
    ~stopMiner /\ runloops # <<>> => runloops[Len(runloops)].pc # "ended"

\* A run loop is started once by each of those who may: by the user interface
\* when automining is on, by the coordinator after a snapshot.
StartedOnce ==
    /\ \A i, j \in DOMAIN runloops : runloops[i].by = runloops[j].by => i = j
    /\ \A i \in DOMAIN runloops :
          \/ runloops[i].by = "ui" /\ ~AutominingDisabled
          \/ runloops[i].by = "coordinator" /\ CreateNewSnapshot

\* Once the controller has handled a Pause, a run loop sends one more request
\* at most before it ends.
OneBlockTooMany == \A i \in DOMAIN overshoot : overshoot[i] <= 1

\* A devnet that stays paused comes to rest: every run loop ends, although
\* each reads the flag only after its next block.
PauseStops ==
    <>[]stopMiner => <>[](\A i \in DOMAIN runloops : runloops[i].pc = "ended")

=============================================================================
