---------------------------- MODULE DevnetProofs ----------------------------
(***************************************************************************)
(* A dashboard run that returns has cleaned up, however the boot and the   *)
(* shutdown interleave, up to the containers that docker refused to remove. *)
(***************************************************************************)
EXTENDS Devnet, TLAPS

\* The types that the argument needs.
TypeInv ==
    /\ docker \in [Services -> ContainerState]
    /\ terminated \in Nat

\* Nothing fails before the threads are spawned.
SpawnInv == main = "preparing" => failed = "no" /\ terminated = 0 /\ orchestrator = "preparing"

\* A dashboard run that has returned, and not because the coordinator panicked,
\* has waited for the orchestrator's thread, or for the kill of that thread.
JoinedInv ==
    /\ Dashboard /\ main = "returned"
    /\ result = "ok" \/ (failed = "booting" /\ coordinator # "panicked")
    => orchestrator = "ended"

\* The value that a dashboard waits for is sent by the kill that ends the thread.
TerminatedInv == terminated > 0 => orchestrator = "ended"

\* A container that runs has been started by its id, which is what kill needs:
\* the containers it does not know are pruned only if they do not run.  Others
\* run only if docker failed to kill them before the boot.
RecordedInv ==
    /\ Alive => \A s \in Services : docker[s] = "running" => s \in recorded \cup refused
    /\ orchestrator = "starting" => Current \in recorded

\* The orchestrator's thread ends after kill, or after an initialization that
\* failed.  What kill leaves is what docker refused.
KilledInv ==
    orchestrator = "ended" /\ failed # "initializing"
        => \A s \in Services : docker[s] = "absent" \/ s \in refused

IInv == TypeInv /\ SpawnInv /\ JoinedInv /\ TerminatedInv /\ RecordedInv /\ KilledInv

-----------------------------------------------------------------------------
\* What is discarded is gone afterwards, unless it ran and was not known, or was
\* refused.
LEMMA DiscardEffect ==
    ASSUME TypeInv, NEW known, Discard(known)
    PROVE  /\ docker' \in [Services -> ContainerState]
           /\ refused \subseteq refused'
           /\ \A s \in Services :
                docker'[s] = "absent" \/ s \in refused' \/ (docker[s] = "running" /\ s \notin known)
  BY DEF TypeInv, Discard, ContainerState

\* Preparing the network leaves no container but what docker refused, or ends the
\* run with an error that is not the boot's.
LEMMA PrepareStep == IInv /\ (PrepareLocalNetwork \/ PrepareLocalNetworkFails) => IInv'
<1> SUFFICES ASSUME IInv, PrepareLocalNetwork \/ PrepareLocalNetworkFails PROVE IInv'
  OBVIOUS
<1> USE DEF IInv, TypeInv, SpawnInv, JoinedInv, TerminatedInv, RecordedInv, KilledInv, Alive
<1>1. CleanPreviousSession => docker' \in [Services -> ContainerState]
                              /\ \A s \in Services : docker'[s] = "absent" \/ s \in refused'
  BY DiscardEffect DEF CleanPreviousSession
<1>2. CASE PrepareLocalNetwork
  BY <1>1, <1>2 DEF PrepareLocalNetwork, CleanPreviousSession, Current
<1>3. CASE PrepareLocalNetworkFails
  BY <1>1, <1>3 DEF PrepareLocalNetworkFails, CleanPreviousSession, containerVars, Current
<1> QED
  BY <1>2, <1>3

\* A step of the main thread ends no other thread, and makes main return from
\* the join of the orchestrator, after its kill, or because of a panic.
LEMMA MainStep == IInv /\ (PressQuit \/ Main) => IInv'
<1> SUFFICES ASSUME IInv, PressQuit \/ Main PROVE IInv'
  OBVIOUS
<1> USE DEF IInv, TypeInv, SpawnInv, JoinedInv, TerminatedInv, RecordedInv, KilledInv, Alive,
            orchestrating, containerVars, Current
<1>1. CASE PressQuit
  BY <1>1 DEF PressQuit
<1>2. CASE HandleFatalError
  BY <1>2 DEF HandleFatalError, Receives
<1>3. CASE HandleTerminate
  BY <1>3 DEF HandleTerminate, Receives, coordinating
<1>4. CASE Terminated
  BY <1>4 DEF Terminated, coordinating
<1>5. CASE JoinCoordinator
  BY <1>5 DEF JoinCoordinator, coordinating
<1>6. CASE JoinOrchestrator
  BY <1>6 DEF JoinOrchestrator, coordinating
<1> QED
  BY <1>1, <1>2, <1>3, <1>4, <1>5, <1>6 DEF Main

\* The signal handler, the coordinator and the observer leave the orchestrator's
\* thread and the main thread where they are.
LEMMA OthersStep ==
    IInv /\ (Signal \/ SignalHandled \/ Coordinator \/ ObserverTerminates \/ ObserverFails)
        => IInv'
<1> SUFFICES ASSUME IInv,
                    Signal \/ SignalHandled \/ Coordinator \/ ObserverTerminates \/ ObserverFails
             PROVE  IInv'
  OBVIOUS
<1>1. UNCHANGED <<main, result, containerVars, terminated, failed>> /\ Alive
  BY DEF Signal, SignalHandled, Coordinator, CoordinatorStarts, CoordinatorFails,
         CoordinatorPanics, CommandTerminates, Observes, ObserverInfo,
         ObserverTerminate, ObserverTerminates, ObserverFails, ObserverEnds, orchestrating
<1> QED
  BY <1>1 DEF IInv, TypeInv, SpawnInv, JoinedInv, TerminatedInv, RecordedInv, KilledInv, Alive,
              containerVars, Current

-----------------------------------------------------------------------------
\* What a step of the boot does to the containers: one is created and recorded,
\* or a recorded one is started, or none changes.
LEMMA BootStepEffect ==
    ASSUME TypeInv, BootStep,
           \A s \in Services : docker[s] = "running" => s \in recorded \cup refused
    PROVE  /\ docker' \in [Services -> ContainerState]
           /\ orchestrator # "ended"
           /\ orchestrator' \in {"preparing", "starting", "initializing", "waiting"}
           /\ \A s \in Services : docker'[s] = "running" => s \in recorded' \cup refused'
           /\ orchestrator' = "starting" => Current' \in recorded'
<1> USE DEF TypeInv, ContainerState
<1>1. ASSUME NEW s, Create(s) PROVE
           /\ docker' \in [Services -> ContainerState]
           /\ orchestrator # "ended"
           /\ orchestrator' \in {"preparing", "starting", "initializing", "waiting"}
           /\ \A t \in Services : docker'[t] = "running" => t \in recorded' \cup refused'
           /\ orchestrator' = "starting" => Current' \in recorded'
  BY <1>1 DEF Create, Current
<1>2. ASSUME NEW s, Starts(s) PROVE
           /\ docker' \in [Services -> ContainerState]
           /\ orchestrator # "ended"
           /\ \A t \in Services : docker'[t] = "running" => t \in recorded' \cup refused'
  BY <1>2 DEF Starts
<1>3. NextService => orchestrator' \in {"preparing", "waiting"}
  BY DEF NextService
<1>4. CASE \E s : Create(s)
  BY <1>1, <1>4
<1>5. CASE (\E s : Starts(s)) /\ (NextService \/ orchestrator' = "initializing")
  BY <1>2, <1>3, <1>5
<1>6. CASE InitializeBitcoinNode
  BY <1>3, <1>6 DEF InitializeBitcoinNode
<1> QED
  BY <1>4, <1>5, <1>6
  DEF BootStep, Prepare, PrepareBitcoinNode, PreparePostgres, PrepareStacksApi, PrepareStacksNode,
      PrepareStacksSigner, PrepareStacksExplorer, PrepareBitcoinExplorer, BootBitcoinNode,
      BootPostgres, BootStacksApi, BootStacksNode, BootStacksSigner, BootStacksExplorer,
      BootBitcoinExplorer

\* A step of the orchestrator happens while the process is alive, and the thread
\* ends only by kill or by an initialization that failed.
LEMMA OrchestratorStep ==
    IInv /\ (Boot \/ InitializeFails \/ BootFails \/ OrchestratorEnds) => IInv'
<1> SUFFICES ASSUME IInv, Boot \/ InitializeFails \/ BootFails \/ OrchestratorEnds PROVE IInv'
  OBVIOUS
<1> USE DEF IInv, TypeInv, SpawnInv, JoinedInv, TerminatedInv, RecordedInv, KilledInv, Alive,
            ContainerState
<1>1. CASE Boot
  <2>1. BootStep /\ UNCHANGED <<main, result, coordinating, terminated, failed>> /\ Alive
    BY <1>1 DEF Boot
  <2> QED
    BY <2>1, BootStepEffect DEF coordinating
<1>2. CASE InitializeFails
  BY <1>2 DEF InitializeFails, Current
<1>3. CASE BootFails
  BY <1>3 DEF BootFails, StepFails, coordinating, Current
<1>4. CASE ReceiveTerminator
  BY <1>4 DEF ReceiveTerminator, coordinating, Current
<1>5. CASE Kill
  <2>1. Discard(recorded) /\ Alive
    BY <1>5 DEF Kill, KillContainers
  <2>2. docker' \in [Services -> ContainerState]
        /\ \A s \in Services : docker'[s] = "absent" \/ s \in refused'
    BY <2>1, DiscardEffect
  <2>3. UNCHANGED <<main, result, failed, coordinator, recorded>> /\ terminated' = terminated + 1
        /\ orchestrator' = "ended" /\ orchestrator = "killing"
    BY <1>5 DEF Kill, KillContainers
  <2> QED
    BY <2>1, <2>2, <2>3
<1> QED
  BY <1>1, <1>2, <1>3, <1>4, <1>5 DEF OrchestratorEnds

\* Whatever ends a dashboard run, whoever ends first and whichever answers of
\* docker are lost, a return without an error, or after a step of the boot that
\* failed, leaves no container of the devnet behind but those that docker itself
\* failed to kill or to remove: do_run_local_devnet waits for the orchestrator's
\* kill, and kill asks for every container that runs because it holds its id.
THEOREM CleanShutdown == Spec => []CleanReturn
<1>1. Init => IInv
  BY DEF Init, OrchestratorInit, Leftovers, ContainerState, Alive, IInv, TypeInv, SpawnInv,
         JoinedInv, TerminatedInv, RecordedInv, KilledInv
<1>2. IInv /\ [Next]_vars => IInv'
  <2>1. IInv /\ UNCHANGED vars => IInv'
    BY DEF vars, IInv, TypeInv, SpawnInv, JoinedInv, TerminatedInv, RecordedInv, KilledInv,
           Alive, orchestrating, coordinating, containerVars, Current
  <2> QED
    BY <2>1, PrepareStep, MainStep, OthersStep, OrchestratorStep DEF Next
<1>3. IInv => CleanReturn
  BY DEF IInv, JoinedInv, KilledInv, CleanReturn
<1> QED
  BY <1>1, <1>2, <1>3, PTL DEF Spec
=============================================================================
