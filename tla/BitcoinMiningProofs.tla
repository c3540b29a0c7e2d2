------------------------ MODULE BitcoinMiningProofs ------------------------
(***************************************************************************)
(* Proofs about BitcoinMining: what holds of the mining controller and its *)
(* run loops however commands, threads and failures interleave.            *)
(***************************************************************************)
EXTENDS BitcoinMining, TLAPS

\* Whoever has sent a Start, or may still have one to send.
Asked(s) ==
    \/ s = "ui" /\ ~AutominingDisabled /\ bootEvent = "handled"
    \/ /\ s = "coordinator" /\ CreateNewSnapshot /\ snapshotCreated
       /\ coordinatorAt \notin {"copying", "pausing", "exporting"}

\* A Start in the channel was asked for by someone who has sent no other and
\* for whom no run loop was spawned.
ChannelInv ==
    /\ \A k \in DOMAIN queue : queue[k].cmd = "Start" => Asked(queue[k].from)
    /\ \A i \in DOMAIN runloops : Asked(runloops[i].by)
    /\ \A k, l \in DOMAIN queue :
          queue[k].cmd = "Start" /\ queue[l].cmd = "Start" /\ queue[k].from = queue[l].from
             => k = l
    /\ \A k \in DOMAIN queue, i \in DOMAIN runloops :
          queue[k].cmd = "Start" => queue[k].from # runloops[i].by
    /\ \A i, j \in DOMAIN runloops : runloops[i].by = runloops[j].by => i = j

\* A snapshot is under way only if one was asked for.
SnapshotInv ==
    coordinatorAt \in {"copying", "pausing", "exporting"} => CreateNewSnapshot /\ snapshotCreated

\* A run loop that has sent a request since the flag was raised is on its way
\* to reading it.
OvershootInv ==
    \A i \in DOMAIN runloops :
        /\ overshoot[i] <= 1
        /\ overshoot[i] # 0 => stopMiner /\ runloops[i].pc # "asleep"

\* The inductive invariant.
IInv == MinerTypeOK /\ SnapshotInv /\ ChannelInv /\ OvershootInv /\ MinerIsNotLost

-----------------------------------------------------------------------------
\* mine_bitcoin_block, whatever its outcome, keeps the node's counters typed.
LEMMA RequestType ==
    ASSUME MinerTypeOK, RequestEnds
    PROVE  height' \in 0..MaxHeight /\ faults' \in 0..MaxFaults /\ late' \in 0..(faults')
BY MiningAssumption DEF MinerTypeOK, RequestEnds, Count

\* Sending and receiving keep the channel a sequence of commands.
LEMMA ChannelType ==
    ASSUME MinerTypeOK
    PROVE  /\ \A c \in {"Start", "Pause", "Mine"}, s \in Senders :
                 Send(c, s) => queue' \in Seq(Commands)
           /\ \A c \in {"Start", "Pause", "Mine"} :
                 Received(c) => queue' \in Seq(Commands) /\ Head(queue) \in Commands
<1>1. ASSUME NEW c \in {"Start", "Pause", "Mine"}, NEW s \in Senders, Send(c, s)
      PROVE  queue' \in Seq(Commands)
  <2>1. [cmd |-> c, from |-> s] \in Commands
    BY DEF Commands
  <2> QED
    BY <1>1, <2>1 DEF Send, MinerTypeOK
<1>2. ASSUME NEW c \in {"Start", "Pause", "Mine"}, Received(c)
      PROVE  queue' \in Seq(Commands) /\ Head(queue) \in Commands
  BY <1>2 DEF Received, MinerTypeOK
<1> QED
  BY <1>1, <1>2

\* Type correctness is inductive.
LEMMA TypeStep == MinerTypeOK /\ [MinerNext]_minerVars => MinerTypeOK'
<1> SUFFICES ASSUME MinerTypeOK, [MinerNext]_minerVars PROVE MinerTypeOK'
  OBVIOUS
<1> USE DEF mining, starters, node, chains
<1>1. CASE LateBlock
  BY <1>1, MiningAssumption DEF LateBlock, MinerTypeOK, Count
<1>2. CASE Start
  <2>1. queue' \in Seq(Commands) /\ Head(queue).from \in Senders
    BY <1>2, ChannelType DEF Start, Commands
  <2>2. Spawned(Head(queue).from) \in Runloops
    BY <2>1 DEF Spawned, Runloops
  <2>3. runloops' \in Seq(Runloops)
    BY <1>2, <2>2 DEF Start, MinerTypeOK
  <2> QED
    BY <1>2, <2>1, <2>3 DEF Start, MinerTypeOK
<1>3. CASE Pause
  <2>1. queue' \in Seq(Commands)
    BY <1>3, ChannelType DEF Pause
  <2> QED
    BY <1>3, <2>1 DEF Pause, MinerTypeOK
<1>4. CASE Mine
  <2>1. queue' \in Seq(Commands)
    BY <1>4, ChannelType DEF Mine
  <2> QED
    BY <1>4, <2>1 DEF Mine, MinerTypeOK
<1>5. CASE MineEnds
  BY <1>5, RequestType DEF MineEnds, MinerTypeOK
<1>6. CASE Runloop
  <2>1. PICK i \in DOMAIN runloops :
           RunloopWakes(i) \/ RunloopAnswered(i) \/ RunloopChecks(i)
    BY <1>6 DEF Runloop
  <2>2. ASSUME NEW pc \in {"asleep", "requested", "answered", "ended"}, RunloopGoes(i, pc)
        PROVE  runloops' \in Seq(Runloops) /\ DOMAIN runloops' = DOMAIN runloops
    <3>1. runloops \in Seq(Runloops) /\ runloops[i] \in Runloops
      BY DEF MinerTypeOK
    <3>2. [runloops[i] EXCEPT !.pc = pc] \in Runloops
      BY <3>1 DEF Runloops
    <3> QED
      BY <2>2, <3>1, <3>2 DEF RunloopGoes
  <2>3. CASE RunloopWakes(i)
    <3>1. overshoot' \in [DOMAIN runloops -> Nat]
      BY <2>3 DEF RunloopWakes, MinerTypeOK
    <3> QED
      BY <2>2, <2>3, <3>1 DEF RunloopWakes, MinerTypeOK
  <2>4. CASE RunloopAnswered(i)
    BY <2>2, <2>4, RequestType DEF RunloopAnswered, MinerTypeOK
  <2>5. CASE RunloopChecks(i)
    BY <2>2, <2>5 DEF RunloopChecks, MinerTypeOK
  <2> QED
    BY <2>1, <2>3, <2>4, <2>5
<1>7. CASE CoordinatorSteps
  <2>1. CASE TransactionProxied
    BY <2>1, MiningAssumption DEF TransactionProxied, MinerTypeOK
  <2>2. CASE BootBlock
    BY <2>2, RequestType DEF BootBlock, MinerTypeOK
  <2>3. CASE CreateSnapshot
    BY <2>3 DEF CreateSnapshot, MinerTypeOK
  <2>4. CASE SnapshotPauses
    <3>1. queue' \in Seq(Commands)
      BY <2>4, ChannelType DEF SnapshotPauses, Senders
    <3> QED
      BY <2>4, <3>1 DEF SnapshotPauses, MinerTypeOK
  <2>5. CASE SnapshotExports
    BY <2>5 DEF SnapshotExports, MinerTypeOK
  <2>6. CASE SnapshotResumes
    <3>1. queue' \in Seq(Commands)
      BY <2>6, ChannelType DEF SnapshotResumes, Senders
    <3> QED
      BY <2>6, <3>1 DEF SnapshotResumes, MinerTypeOK
  <2>7. CASE CoordinatorTerminates
    <3>1. queue' \in Seq(Commands)
      BY <2>7, ChannelType DEF CoordinatorTerminates, Senders
    <3> QED
      BY <2>7, <3>1 DEF CoordinatorTerminates, MinerTypeOK
  <2>8. CASE CoordinatorEnds
    BY <2>8 DEF CoordinatorEnds, MinerTypeOK
  <2> QED
    BY <1>7, <2>1, <2>2, <2>3, <2>4, <2>5, <2>6, <2>7, <2>8 DEF CoordinatorSteps
<1>8. CASE Events
  <2>1. CASE BootCompletes
    BY <2>1 DEF BootCompletes, MinerTypeOK
  <2>2. CASE HandleBootCompleted
    <3>1. queue' \in Seq(Commands)
      BY <2>2, ChannelType DEF HandleBootCompleted, Senders, MinerTypeOK
    <3> QED
      BY <2>2, <3>1 DEF HandleBootCompleted, MinerTypeOK
  <2>3. CASE PressMine
    <3>1. queue' \in Seq(Commands)
      BY <2>3, ChannelType DEF PressMine, Senders
    <3> QED
      BY <2>3, <3>1, MiningAssumption DEF PressMine, MinerTypeOK
  <2>4. CASE Quit
    BY <2>4 DEF Quit, MinerTypeOK
  <2>5. CASE SignalPauses
    <3>1. queue' \in Seq(Commands)
      BY <2>5, ChannelType DEF SignalPauses, Senders
    <3> QED
      BY <2>5, <3>1 DEF SignalPauses, MinerTypeOK
  <2>6. CASE UiTerminates
    BY <2>6 DEF UiTerminates, MinerTypeOK
  <2> QED
    BY <1>8, <2>1, <2>2, <2>3, <2>4, <2>5, <2>6 DEF Events
<1>9. CASE UNCHANGED minerVars
  BY <1>9 DEF minerVars, MinerTypeOK
<1> QED
  BY <1>1, <1>2, <1>3, <1>4, <1>5, <1>6, <1>7, <1>8, <1>9 DEF MinerNext, Controller

-----------------------------------------------------------------------------
\* What a step may do to the run loops and the flag they read.
LEMMA RunloopFrame ==
    ASSUME [MinerNext]_minerVars
    PROVE  \/ Start \/ Pause
           \/ \E i \in DOMAIN runloops : RunloopWakes(i) \/ RunloopAnswered(i) \/ RunloopChecks(i)
           \/ UNCHANGED <<stopMiner, runloops, overshoot>>
<1> USE DEF mining
<1>1. CASE LateBlock \/ Mine \/ MineEnds \/ UNCHANGED minerVars
  BY <1>1 DEF LateBlock, Mine, MineEnds, minerVars
<1>2. CASE CoordinatorSteps
  BY <1>2 DEF CoordinatorSteps, TransactionProxied, BootBlock, CreateSnapshot, SnapshotPauses,
     SnapshotExports, SnapshotResumes, CoordinatorTerminates, CoordinatorEnds
<1>3. CASE Events
  BY <1>3 DEF Events, BootCompletes, HandleBootCompleted, PressMine, Quit, SignalPauses,
     UiTerminates
<1> QED
  BY <1>1, <1>2, <1>3 DEF MinerNext, Controller, Runloop

\* One more request after the flag is raised, and no miner lost when it is
\* lowered: both follow from where each run loop is when it reads the flag.
LEMMA RunloopStep ==
    ASSUME MinerTypeOK, OvershootInv, MinerIsNotLost, [MinerNext]_minerVars
    PROVE  OvershootInv' /\ MinerIsNotLost'
<1>0. runloops \in Seq(Runloops) /\ overshoot \in [DOMAIN runloops -> Nat]
  BY DEF MinerTypeOK
<1>1. CASE Start
  <2>1. /\ runloops' = Append(runloops, Spawned(Head(queue).from))
        /\ overshoot' = [i \in DOMAIN runloops' |-> 0]
        /\ stopMiner' = FALSE
    BY <1>1 DEF Start
  <2>2. runloops' # <<>> /\ runloops'[Len(runloops')].pc = "asleep"
    BY <1>0, <2>1 DEF Spawned
  <2> QED
    BY <2>1, <2>2 DEF OvershootInv, MinerIsNotLost
<1>2. CASE Pause
  BY <1>2 DEF Pause, OvershootInv, MinerIsNotLost
<1>3. CASE UNCHANGED <<stopMiner, runloops, overshoot>>
  BY <1>3 DEF OvershootInv, MinerIsNotLost
<1>4. ASSUME NEW i \in DOMAIN runloops, NEW pc, RunloopGoes(i, pc)
      PROVE  /\ DOMAIN runloops' = DOMAIN runloops /\ Len(runloops') = Len(runloops)
             /\ runloops'[i].pc = pc
             /\ \A j \in DOMAIN runloops : j # i => runloops'[j] = runloops[j]
             /\ runloops' # <<>> /\ runloops # <<>>
  <2>1. DOMAIN runloops' = DOMAIN runloops /\ Len(runloops') = Len(runloops)
    BY <1>0, <1>4 DEF RunloopGoes
  <2>2. runloops'[i].pc = pc /\ \A j \in DOMAIN runloops : j # i => runloops'[j] = runloops[j]
    <3>1. runloops[i] \in Runloops
      BY <1>0
    <3> QED
      BY <1>0, <1>4, <3>1 DEF RunloopGoes, Runloops
  <2>3. runloops # <<>> /\ runloops' # <<>>
    BY <1>0, <2>1
  <2> QED
    BY <2>1, <2>2, <2>3
<1>5. ASSUME NEW i \in DOMAIN runloops, RunloopWakes(i)
      PROVE  OvershootInv' /\ MinerIsNotLost'
  <2>1. RunloopGoes(i, "requested") /\ runloops[i].pc = "asleep" /\ UNCHANGED stopMiner
    BY <1>5 DEF RunloopWakes, RunloopAt
  <2>2. /\ overshoot'[i] = IF stopMiner THEN overshoot[i] + 1 ELSE 0
        /\ \A j \in DOMAIN runloops : j # i => overshoot'[j] = overshoot[j]
    BY <1>0, <1>5 DEF RunloopWakes
  <2>3. overshoot[i] = 0
    BY <2>1 DEF OvershootInv
  <2>4. OvershootInv'
    BY <1>4, <2>1, <2>2, <2>3 DEF OvershootInv
  <2>5. MinerIsNotLost'
    BY <1>0, <1>4, <2>1 DEF MinerIsNotLost
  <2> QED
    BY <2>4, <2>5
<1>6. ASSUME NEW i \in DOMAIN runloops, RunloopAnswered(i)
      PROVE  OvershootInv' /\ MinerIsNotLost'
  <2>1. RunloopGoes(i, "answered") /\ UNCHANGED <<stopMiner, overshoot>>
    BY <1>6 DEF RunloopAnswered
  <2> QED
    BY <1>0, <1>4, <2>1 DEF OvershootInv, MinerIsNotLost
<1>7. ASSUME NEW i \in DOMAIN runloops, RunloopChecks(i)
      PROVE  OvershootInv' /\ MinerIsNotLost'
  <2>1. /\ RunloopGoes(i, IF stopMiner THEN "ended" ELSE "asleep")
        /\ UNCHANGED <<stopMiner, overshoot>>
    BY <1>7 DEF RunloopChecks
  <2>2. CASE stopMiner
    BY <1>0, <1>4, <2>1, <2>2 DEF OvershootInv, MinerIsNotLost
  <2>3. CASE ~stopMiner
    BY <1>0, <1>4, <2>1, <2>3 DEF OvershootInv, MinerIsNotLost
  <2> QED
    BY <2>2, <2>3
<1> QED
  BY <1>1, <1>2, <1>3, <1>5, <1>6, <1>7, RunloopFrame

-----------------------------------------------------------------------------
\* Commands and run loops go back to one of the three senders.
LEMMA Origins ==
    ASSUME MinerTypeOK
    PROVE  /\ \A k \in DOMAIN queue : queue[k].from \in Senders
           /\ \A i \in DOMAIN runloops : runloops[i].by \in Senders
<1>1. queue \in Seq(Commands) /\ runloops \in Seq(Runloops)
  BY DEF MinerTypeOK
<1>2. \A k \in DOMAIN queue : queue[k] \in Commands
  BY <1>1
<1>3. \A i \in DOMAIN runloops : runloops[i] \in Runloops
  BY <1>1
<1> QED
  BY <1>2, <1>3 DEF Commands, Runloops

\* The channel invariant speaks of Starts, of those who send them and of who
\* started each run loop.  A step that adds no Start, spawns no run loop and
\* takes back nobody's request preserves it.
LEMMA ChannelFrame ==
    ASSUME MinerTypeOK, ChannelInv,
           DOMAIN runloops' = DOMAIN runloops,
           \A i \in DOMAIN runloops : runloops'[i].by = runloops[i].by,
           \A s \in Senders : Asked(s) => Asked(s)',
           \/ queue' = queue
           \/ queue # <<>> /\ queue' = Tail(queue)
           \/ \E c \in {"Pause", "Mine"}, s \in Senders : Send(c, s)
    PROVE  ChannelInv'
<1>0. queue \in Seq(Commands) /\ runloops \in Seq(Runloops)
  BY DEF MinerTypeOK
<1>1. /\ \A k \in DOMAIN queue : queue[k].from \in Senders
      /\ \A i \in DOMAIN runloops : runloops[i].by \in Senders
  BY Origins
<1>2. CASE queue' = queue
  BY <1>1, <1>2 DEF ChannelInv
<1>3. CASE queue # <<>> /\ queue' = Tail(queue)
  <2>1. \A k \in DOMAIN queue' : k + 1 \in DOMAIN queue /\ queue'[k] = queue[k + 1]
    BY <1>0, <1>3
  <2>2. \A k, l \in DOMAIN queue' : k + 1 = l + 1 => k = l
    BY <1>0, <1>3
  <2> QED
    BY <1>1, <2>1, <2>2 DEF ChannelInv
<1>4. CASE \E c \in {"Pause", "Mine"}, s \in Senders : Send(c, s)
  <2>1. \A k \in DOMAIN queue' : queue'[k].cmd = "Start"
           => k \in DOMAIN queue /\ queue'[k] = queue[k]
    BY <1>0, <1>4 DEF Send
  <2> QED
    BY <1>1, <2>1 DEF ChannelInv
<1> QED
  BY <1>2, <1>3, <1>4

\* A Start is sent by one who had not asked before.
LEMMA ChannelSend ==
    ASSUME MinerTypeOK, ChannelInv, NEW s \in Senders, ~Asked(s), Asked(s)',
           Send("Start", s), UNCHANGED runloops,
           \A t \in Senders : Asked(t) => Asked(t)'
    PROVE  ChannelInv'
<1>0. queue \in Seq(Commands) /\ runloops \in Seq(Runloops)
  BY DEF MinerTypeOK
<1>1. /\ \A k \in DOMAIN queue : queue[k].from \in Senders
      /\ \A i \in DOMAIN runloops : runloops[i].by \in Senders
  BY Origins
<1>2. \A k \in DOMAIN queue' :
         \/ k \in DOMAIN queue /\ queue'[k] = queue[k]
         \/ k = Len(queue) + 1 /\ queue'[k].from = s
  BY <1>0 DEF Send
<1> QED
  BY <1>1, <1>2 DEF ChannelInv

\* The Start at the head of the channel becomes a run loop.
LEMMA ChannelSpawn ==
    ASSUME MinerTypeOK, ChannelInv, Start
    PROVE  ChannelInv'
<1>0. queue \in Seq(Commands) /\ runloops \in Seq(Runloops)
  BY DEF MinerTypeOK
<1>1. /\ queue # <<>> /\ queue' = Tail(queue) /\ Head(queue).cmd = "Start"
      /\ runloops' = Append(runloops, Spawned(Head(queue).from))
      /\ \A s : Asked(s)' <=> Asked(s)
  BY DEF Start, Received, Asked, starters, chains
<1>2. \A k \in DOMAIN queue' : k + 1 \in DOMAIN queue /\ queue'[k] = queue[k + 1] /\ k + 1 # 1
  BY <1>0, <1>1
<1>3. 1 \in DOMAIN queue /\ Head(queue) = queue[1]
  BY <1>0, <1>1
<1>4. \A i \in DOMAIN runloops' :
         \/ i \in DOMAIN runloops /\ runloops'[i] = runloops[i]
         \/ i = Len(runloops) + 1 /\ runloops'[i].by = queue[1].from
  BY <1>0, <1>1, <1>3 DEF Spawned
<1>5. \A k, l \in DOMAIN queue' : k + 1 = l + 1 => k = l
  BY <1>0, <1>1
<1> QED
  BY <1>1, <1>2, <1>3, <1>4, <1>5 DEF ChannelInv

\* Only CreateSnapshot lets the coordinator into create_global_snapshot.
LEMMA SnapshotStep ==
    ASSUME SnapshotInv, [MinerNext]_minerVars
    PROVE  SnapshotInv'
<1> USE DEF mining, starters, node, chains
<1>1. CASE CoordinatorSteps
  BY <1>1 DEF CoordinatorSteps, TransactionProxied, BootBlock, CreateSnapshot, SnapshotPauses,
     SnapshotExports, SnapshotResumes, CoordinatorTerminates, CoordinatorEnds, SnapshotInv
<1>2. CASE UNCHANGED chains
  BY <1>2 DEF SnapshotInv
<1>3. [MinerNext]_minerVars => CoordinatorSteps \/ UNCHANGED chains
  <2>1. LateBlock \/ Controller \/ UNCHANGED minerVars => UNCHANGED chains
    BY DEF LateBlock, Controller, Start, Pause, Mine, MineEnds, minerVars
  <2>2. Runloop => UNCHANGED chains
    BY DEF Runloop, RunloopWakes, RunloopAnswered, RunloopChecks
  <2>3. Events => UNCHANGED chains
    BY DEF Events, BootCompletes, HandleBootCompleted, PressMine, Quit, SignalPauses, UiTerminates
  <2> QED
    BY <2>1, <2>2, <2>3 DEF MinerNext
<1> QED
  BY <1>1, <1>2, <1>3

\* Each step preserves the channel invariant.
LEMMA ChannelStep ==
    ASSUME MinerTypeOK, SnapshotInv, ChannelInv, [MinerNext]_minerVars
    PROVE  ChannelInv'
<1> USE DEF mining, starters, node, chains
<1>1. CASE LateBlock
  BY <1>1, ChannelFrame DEF LateBlock, Asked
<1>2. CASE Start
  BY <1>2, ChannelSpawn
<1>3. CASE Pause \/ Mine \/ MineEnds
  BY <1>3, ChannelFrame DEF Pause, Mine, MineEnds, Received, Asked
<1>4. CASE Runloop
  <2>1. PICK i \in DOMAIN runloops :
           RunloopWakes(i) \/ RunloopAnswered(i) \/ RunloopChecks(i)
    BY <1>4 DEF Runloop
  <2>2. \E pc : RunloopGoes(i, pc)
    BY <2>1 DEF RunloopWakes, RunloopAnswered, RunloopChecks
  <2>3. DOMAIN runloops' = DOMAIN runloops /\ \A j \in DOMAIN runloops : runloops'[j].by = runloops[j].by
    <3>1. runloops \in Seq(Runloops) /\ \A j \in DOMAIN runloops : runloops[j] \in Runloops
      BY DEF MinerTypeOK
    <3> QED
      BY <2>2, <3>1 DEF RunloopGoes, Runloops
  <2>4. queue' = queue /\ \A s : Asked(s)' <=> Asked(s)
    BY <2>1 DEF RunloopWakes, RunloopAnswered, RunloopChecks, Asked
  <2> QED
    BY <2>3, <2>4, ChannelFrame
<1>5. CASE TransactionProxied \/ BootBlock \/ CreateSnapshot \/ SnapshotExports \/ CoordinatorEnds
  BY <1>5, ChannelFrame DEF TransactionProxied, BootBlock, CreateSnapshot, SnapshotExports,
     CoordinatorEnds, Asked
<1>6. CASE SnapshotPauses \/ CoordinatorTerminates
  <2>1. Send("Pause", "coordinator") /\ "coordinator" \in Senders
    BY <1>6 DEF SnapshotPauses, CoordinatorTerminates, Senders
  <2> QED
    BY <1>6, <2>1, ChannelFrame DEF SnapshotPauses, CoordinatorTerminates, Asked
<1>7. CASE BootCompletes \/ Quit \/ UiTerminates
  BY <1>7, ChannelFrame DEF BootCompletes, Quit, UiTerminates, Asked
<1>8. CASE PressMine \/ SignalPauses
  <2>1. \E c \in {"Pause", "Mine"}, s \in Senders : Send(c, s)
    BY <1>8 DEF PressMine, SignalPauses, Senders
  <2> QED
    BY <1>8, <2>1, ChannelFrame DEF PressMine, SignalPauses, Asked
<1>9. CASE HandleBootCompleted
  <2>1. CASE AutominingDisabled
    BY <1>9, <2>1, ChannelFrame DEF HandleBootCompleted, Asked
  <2>2. CASE ~AutominingDisabled
    <3>1. Send("Start", "ui") /\ ~Asked("ui") /\ Asked("ui")' /\ UNCHANGED runloops
      BY <1>9, <2>2 DEF HandleBootCompleted, Asked
    <3>2. \A t \in Senders : Asked(t) => Asked(t)'
      BY <1>9 DEF HandleBootCompleted, Asked
    <3> QED
      BY <3>1, <3>2, ChannelSend DEF Senders
  <2> QED
    BY <2>1, <2>2
<1>10. CASE SnapshotResumes
  <2>1. /\ Send("Start", "coordinator") /\ UNCHANGED runloops
        /\ ~Asked("coordinator") /\ Asked("coordinator")'
    BY <1>10 DEF SnapshotResumes, SnapshotInv, Asked
  <2>2. \A t \in Senders : Asked(t) => Asked(t)'
    BY <1>10 DEF SnapshotResumes, Asked
  <2> QED
    BY <2>1, <2>2, ChannelSend DEF Senders
<1>11. CASE UNCHANGED minerVars
  BY <1>11, ChannelFrame DEF minerVars, Asked
<1> QED
  BY <1>1, <1>2, <1>3, <1>4, <1>5, <1>6, <1>7, <1>8, <1>9, <1>10, <1>11
     DEF MinerNext, Controller, CoordinatorSteps, Events

-----------------------------------------------------------------------------
\* A devnet that has just been started satisfies the invariant.
LEMMA InitIInv == MinerInit => IInv
<1> SUFFICES ASSUME MinerInit PROVE IInv
  OBVIOUS
<1>1. MinerTypeOK
  <2>1. queue \in Seq(Commands) /\ runloops \in Seq(Runloops)
    BY DEF MinerInit
  <2>2. overshoot \in [DOMAIN runloops -> Nat]
    <3>1. DOMAIN runloops = {} /\ DOMAIN overshoot = {}
      BY DEF MinerInit
    <3>2. overshoot = [i \in {} |-> 0]
      BY <3>1 DEF MinerInit
    <3> QED
      BY <3>1, <3>2
  <2>3. /\ height \in 0..MaxHeight /\ faults \in 0..MaxFaults /\ late \in 0..faults
        /\ proxied \in 0..MaxProxied /\ keys \in 0..MaxKeys
    BY MiningAssumption DEF MinerInit
  <2>4. /\ exportFrom \in {NoHeight} \cup 0..MaxHeight
        /\ stopMiner \in BOOLEAN /\ bootCompleted \in BOOLEAN /\ signalled \in BOOLEAN
        /\ snapshotCreated \in BOOLEAN
    BY Zenon DEF MinerInit
  <2> QED
    BY <2>1, <2>2, <2>3, <2>4 DEF MinerInit, MinerTypeOK
<1>2. SnapshotInv /\ ChannelInv /\ OvershootInv /\ MinerIsNotLost
  BY DEF MinerInit, SnapshotInv, ChannelInv, OvershootInv, MinerIsNotLost
<1> QED
  BY <1>1, <1>2 DEF IInv

\* The inductive invariant holds in every state the devnet can reach.
THEOREM Inductive == MinerSpec => []IInv
<1>1. IInv /\ [MinerNext]_minerVars => IInv'
  BY TypeStep, SnapshotStep, ChannelStep, RunloopStep DEF IInv
<1> QED
  BY <1>1, InitIInv, PTL DEF MinerSpec

\* handle_bitcoin_mining and the threads around it keep every variable in its
\* type.
THEOREM TypeCorrect == MinerSpec => []MinerTypeOK
<1>1. IInv => MinerTypeOK
  BY DEF IInv
<1> QED
  BY <1>1, Inductive, PTL

\* Whatever the interleaving of Start, Pause and the run loops' reads of the
\* flag, a devnet whose flag is down and that has been started has a run loop.
THEOREM NoMinerLost == MinerSpec => []MinerIsNotLost
<1>1. IInv => MinerIsNotLost
  BY DEF IInv
<1> QED
  BY <1>1, Inductive, PTL

\* Every run loop was started by the user interface with automining on or by
\* the coordinator for a snapshot, and by each at most once.
THEOREM StartsAreSingle == MinerSpec => []StartedOnce
<1>1. IInv => StartedOnce
  BY DEF IInv, ChannelInv, Asked, StartedOnce
<1> QED
  BY <1>1, Inductive, PTL

\* After a Pause each run loop asks for at most one more block.
THEOREM BoundedOvershoot == MinerSpec => []OneBlockTooMany
<1>1. IInv => OneBlockTooMany
  <2>1. MinerTypeOK => DOMAIN overshoot = DOMAIN runloops
    BY DEF MinerTypeOK
  <2> QED
    BY <2>1 DEF IInv, OvershootInv, OneBlockTooMany
<1> QED
  BY <1>1, Inductive, PTL
=============================================================================
