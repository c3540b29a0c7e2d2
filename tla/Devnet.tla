------------------------------- MODULE Devnet -------------------------------
(***************************************************************************)
(* How a local devnet ends (stacks-network, do_run_local_devnet).          *)
(*                                                                         *)
(* The main thread runs the dashboard, or the logger, on the channel of    *)
(* devnet events and then joins the others.  The orchestrator's thread     *)
(* boots the containers and waits for a terminator, the coordinator's      *)
(* thread selects between its commands and the observer's events, and the  *)
(* signal handler waits for SIGINT and SIGTERM.  The process ends with the *)
(* main thread, whatever the others are doing.                             *)
(*                                                                         *)
(* Channels that only ever carry one value are counters of what is in      *)
(* them.  Sending to a channel whose receiver is gone loses the value.     *)
(***************************************************************************)
EXTENDS Orchestrator

CONSTANT Dashboard \* whether the dashboard is displayed

ASSUME DashboardAssumption == Dashboard \in BOOLEAN

VARIABLES
    main,             \* where the main thread is
    result,           \* what do_run_local_devnet returns
    events,           \* devnet events: FatalError and Terminate, others are only shown
    handler,          \* the signal handler's thread
    coordinator,      \* the chains coordinator's thread
    commands,         \* Terminate commands to the coordinator
    observer,         \* the observer's thread
    observerCommands, \* Terminate commands to the observer
    observerEvents,   \* the observer's events to the coordinator
    terminators,      \* what the orchestrator's terminator channel holds
    terminated,       \* what its termination_success channel holds
    failed            \* where the boot failed, if it did

coordinating  == <<coordinator, commands>>
observing     == <<observer, observerCommands, observerEvents>>
orchestrating == <<containerVars, terminators, terminated, failed>>
vars == <<main, result, events, handler, coordinating, observing, orchestrating>>

Init ==
    /\ main = "preparing"
    /\ result = "ok"
    /\ events = <<>>
    /\ handler = "waiting"
    /\ coordinator = "starting" /\ commands = 0
    /\ observer = "running" /\ observerCommands = 0 /\ observerEvents = <<>>
    /\ OrchestratorInit /\ terminators = 0 /\ terminated = 0 /\ failed = "no"

\* The threads have been spawned and the process runs.
Alive == main \notin {"preparing", "returned"}

\* The main thread has left the loop that receives devnet events.
ReceiverDropped == main \in {"joining coordinator", "joining orchestrator", "returned"}

CommandCoordinator ==
    commands' = IF coordinator \in {"starting", "looping"} THEN commands + 1 ELSE commands

CommandObserver ==
    observerCommands' = IF observer = "running" THEN observerCommands + 1 ELSE observerCommands

CommandOrchestrator ==
    terminators' = IF orchestrator = "ended" THEN terminators ELSE terminators + 1

-----------------------------------------------------------------------------
(* The main thread. *)

\* prepare_local_network, before anything is spawned.
PrepareLocalNetwork ==
    /\ main = "preparing"
    /\ CleanPreviousSession
    /\ main' = "running"
    /\ UNCHANGED <<result, events, handler, coordinating, observing, terminators, terminated,
                   failed>>

\* The containers cannot be listed, or later the network cannot be created.
PrepareLocalNetworkFails ==
    /\ main = "preparing"
    /\ CleanPreviousSession \/ UNCHANGED containerVars
    /\ main' = "returned" /\ result' = "error"
    /\ UNCHANGED <<events, handler, coordinating, observing, terminators, terminated, failed>>

\* Control-C on the dashboard: terminate() commands the coordinator and waits
\* for the orchestrator.
PressQuit ==
    /\ Dashboard /\ main = "running"
    /\ CommandCoordinator
    /\ main' = "terminating"
    /\ UNCHANGED <<result, events, handler, coordinator, observing, orchestrating>>

Receives(event) ==
    /\ main = "running"
    /\ events # <<>> /\ Head(events) = event
    /\ events' = Tail(events)

HandleFatalError ==
    /\ Receives("FatalError")
    /\ result' = "error"
    /\ IF Dashboard THEN main' = "terminating" /\ CommandCoordinator
                    ELSE main' = "returned" /\ UNCHANGED commands
    /\ UNCHANGED <<handler, coordinator, observing, orchestrating>>

HandleTerminate ==
    /\ Receives("Terminate")
    /\ main' = IF Dashboard THEN "joining coordinator" ELSE "returned"
    /\ UNCHANGED <<result, handler, coordinating, observing, orchestrating>>

\* orchestrator_terminated_rx.recv(): a value, or a sender that is gone.
Terminated ==
    /\ main = "terminating"
    /\ terminated > 0 \/ orchestrator = "ended"
    /\ main' = IF result = "error" THEN "returned" ELSE "joining coordinator"
    /\ UNCHANGED <<result, events, handler, coordinating, observing, orchestrating>>

\* A coordinator that panicked with a formatted message ends the run at once;
\* an error it returned, and a panic with a fixed message, are dropped.
JoinCoordinator ==
    /\ main = "joining coordinator"
    /\ coordinator \in {"ended", "stopped", "panicked"}
    /\ IF coordinator = "panicked" THEN main' = "returned" /\ result' = "error"
                                   ELSE main' = "joining orchestrator" /\ UNCHANGED result
    /\ UNCHANGED <<events, handler, coordinating, observing, orchestrating>>

JoinOrchestrator ==
    /\ main = "joining orchestrator"
    /\ orchestrator = "ended"
    /\ main' = "returned"
    /\ UNCHANGED <<result, events, handler, coordinating, observing, orchestrating>>

Main == HandleFatalError \/ HandleTerminate \/ Terminated \/ JoinCoordinator \/ JoinOrchestrator

-----------------------------------------------------------------------------
(* The signal handler: everyone is told, and three seconds later main is.   *)
Signal ==
    /\ Alive /\ handler = "waiting"
    /\ CommandOrchestrator
    /\ CommandObserver
    /\ handler' = "sleeping"
    /\ UNCHANGED <<main, result, events, coordinating, observer, observerEvents, containerVars,
                   terminated, failed>>

SignalHandled ==
    /\ Alive /\ handler = "sleeping"
    /\ events' = IF ReceiverDropped THEN events ELSE Append(events, "Terminate")
    /\ handler' = "ended"
    /\ UNCHANGED <<main, result, coordinating, observing, orchestrating>>

-----------------------------------------------------------------------------
(* The coordinator: select over its commands and the observer's events.     *)

\* The project's snapshot directory is there and the observer is spawned.
CoordinatorStarts ==
    /\ Alive /\ coordinator = "starting"
    /\ coordinator' = "looping"
    /\ UNCHANGED <<main, result, events, handler, commands, observing, orchestrating>>

\* The directory cannot be created: an error is returned, and nobody will ever
\* receive the commands to the coordinator and to the observer.
CoordinatorFails ==
    /\ Alive /\ coordinator = "starting"
    /\ coordinator' = "stopped" /\ observer' = "ended"
    /\ UNCHANGED <<main, result, events, handler, commands, observerCommands, observerEvents,
                   orchestrating>>

\* A chain event that the loop does not expect: one without a block and a
\* reorganisation of microblocks panic with a fixed message, a deployment that
\* cannot be told to start, since its thread is gone, with a formatted one.
CoordinatorPanics ==
    /\ Alive /\ coordinator = "looping"
    /\ coordinator' \in {"stopped", "panicked"}
    /\ UNCHANGED <<main, result, events, handler, commands, observing, orchestrating>>

CommandTerminates ==
    /\ Alive /\ coordinator = "looping" /\ commands > 0
    /\ commands' = commands - 1
    /\ CommandOrchestrator
    /\ CommandObserver
    /\ coordinator' = "ended"
    /\ UNCHANGED <<main, result, events, handler, observer, observerEvents, containerVars,
                   terminated, failed>>

Observes(event) ==
    /\ Alive /\ coordinator = "looping"
    /\ observerEvents # <<>> /\ Head(observerEvents) = event
    /\ observerEvents' = Tail(observerEvents)

\* The message is relayed to main, or the thread panics: .expect("Unable to
\* terminate event observer").
ObserverInfo ==
    /\ Observes("Info")
    /\ coordinator' = IF ReceiverDropped THEN "panicked" ELSE coordinator
    /\ UNCHANGED <<main, result, events, handler, commands, observer, observerCommands,
                   orchestrating>>

\* Mutant: the event is logged.
ObserverTerminateIgnored ==
    /\ Observes("Terminate")
    /\ UNCHANGED <<main, result, events, handler, coordinator, commands, observer,
                   observerCommands, orchestrating>>

ObserverTerminate ==
    /\ Observes("Terminate")
    /\ coordinator' = "ended"
    /\ UNCHANGED <<main, result, events, handler, commands, observer, observerCommands,
                   orchestrating>>

Coordinator ==
    \/ CoordinatorStarts \/ CoordinatorFails \/ CoordinatorPanics
    \/ CommandTerminates \/ ObserverInfo \/ ObserverTerminate

-----------------------------------------------------------------------------
(* The observer: a command, or a block that cannot be standardised, ends    *)
(* its loop, and terminate() tells the coordinator.                         *)
ObserverEnds(how) ==
    /\ Alive /\ coordinator # "starting" /\ observer = "running"
    /\ observer' = how
    /\ observerEvents' = observerEvents \o <<"Info", "Terminate">>
    /\ UNCHANGED <<main, result, events, handler, coordinating, observerCommands, orchestrating>>

ObserverTerminates == observerCommands > 0 /\ ObserverEnds("ended")

ObserverFails == ObserverEnds("failed")

-----------------------------------------------------------------------------
(* The orchestrator's thread: DevnetOrchestrator::start and kill. *)
Boot ==
    /\ Alive /\ BootStep
    /\ UNCHANGED <<main, result, events, handler, coordinating, observing, terminators,
                   terminated, failed>>

\* What the thread does with an error of start.
ReportFailure(pending) ==
    /\ events' = IF ReceiverDropped THEN pending ELSE Append(pending, "FatalError")
    /\ CommandCoordinator

\* initialize_bitcoin_node fails: the error is returned as it is.
InitializeFails ==
    /\ Alive /\ orchestrator = "initializing"
    /\ failed' = "initializing"
    /\ orchestrator' = "ended"
    /\ ReportFailure(events)
    /\ UNCHANGED <<main, result, handler, coordinator, observing, terminators, terminated,
                   at, docker, recorded, refused>>

\* Every other step of the boot fails through or_fatal, which kills.
BootFails ==
    /\ Alive /\ StepFails
    /\ failed' = "booting"
    /\ events' = IF ReceiverDropped THEN events ELSE Append(events, "FatalError")
    /\ UNCHANGED <<main, result, handler, coordinating, observing, terminators, terminated>>

ReceiveTerminator ==
    /\ Alive /\ orchestrator = "waiting" /\ terminators > 0
    /\ terminators' = terminators - 1
    /\ orchestrator' = "killing"
    /\ UNCHANGED <<main, result, events, handler, coordinating, observing, terminated,
                   at, docker, recorded, refused, failed>>

Kill ==
    /\ Alive /\ orchestrator = "killing"
    /\ KillContainers
    /\ terminated' = terminated + 1
    /\ IF failed = "no" THEN UNCHANGED <<events, commands>> ELSE ReportFailure(events)
    /\ UNCHANGED <<main, result, handler, coordinator, observing, terminators, failed>>

OrchestratorEnds == ReceiveTerminator \/ Kill

-----------------------------------------------------------------------------
Next ==
    \/ PrepareLocalNetwork \/ PrepareLocalNetworkFails
    \/ PressQuit \/ Main
    \/ Signal \/ SignalHandled
    \/ Coordinator
    \/ ObserverTerminates \/ ObserverFails
    \/ Boot \/ InitializeFails \/ BootFails \/ OrchestratorEnds

Spec == Init /\ [][Next]_vars

\* Threads that can run do, every step of the boot ends, well or not, and
\* select is not unfair to a channel.  The retries of most requests are bounded; two waits of
\* the boot, for a wallet that can be neither created nor loaded and for an API
\* container to run, are not, and are assumed to end.  Nobody has to press a
\* key or send a signal, and a coordinator does not have to panic.
Fairness ==
    /\ WF_vars(Main) /\ WF_vars(SignalHandled)
    /\ WF_vars(CoordinatorStarts \/ CoordinatorFails)
    /\ WF_vars(CommandTerminates) /\ WF_vars(ObserverInfo) /\ WF_vars(ObserverTerminate)
    /\ WF_vars(ObserverTerminates)
    /\ WF_vars(Boot \/ BootFails \/ InitializeFails) /\ WF_vars(OrchestratorEnds)

FairSpec == Spec /\ Fairness

-----------------------------------------------------------------------------
\* The type of each variable; each channel holds at most what its senders
\* send before they end.
TypeOK ==
    /\ main \in {"preparing", "running", "terminating", "joining coordinator", "joining orchestrator",
                 "returned"}
    /\ result \in {"ok", "error"}
    /\ events \in Seq({"FatalError", "Terminate"}) /\ Len(events) <= 3
    /\ handler \in {"waiting", "sleeping", "ended"}
    /\ coordinator \in {"starting", "looping", "ended", "stopped", "panicked"} /\ commands \in 0..2
    /\ observer \in {"running", "ended", "failed"} /\ observerCommands \in 0..2
    /\ observerEvents \in Seq({"Info", "Terminate"}) /\ Len(observerEvents) <= 2
    /\ orchestrator \in {"preparing", "starting", "initializing", "waiting", "killing", "ended"}
    /\ terminators \in 0..2 /\ terminated \in 0..1
    /\ at \in 1..(Len(BootOrder) + 1)
    /\ docker \in [Services -> ContainerState]
    /\ recorded \subseteq Services /\ refused \subseteq Services
    /\ failed \in {"no", "initializing", "booting"}

\* However the devnet was told to end, wherever its boot was then and whichever
\* answer of docker was lost, a dashboard run that returns, without an error or
\* because a step of the boot failed, leaves no container behind, its own or a
\* previous session's, except those that docker itself failed to kill or to
\* remove: their errors are discarded and the run is reported a success.  Two
\* ways to end are not cleaned up after: an initialization of the bitcoin node
\* that fails and a coordinator that panics with a formatted message.
CleanReturn ==
    /\ Dashboard /\ main = "returned"
    /\ result = "ok" \/ (failed = "booting" /\ coordinator # "panicked")
    /\ failed # "initializing"
    => \A s \in Services : docker[s] = "absent" \/ s \in refused

\* A signal ends the process: nothing the threads wait for can keep main from
\* returning.  So does the quit key, however it races with a signal, with the
\* boot and its failure, unless the thread it commands is gone: the observer
\* failed and took the coordinator with it, or the coordinator itself returned
\* an error or panicked.  Then the dashboard waits for the orchestrator, which
\* nobody tells.
CoordinatorLost == observer = "failed" \/ coordinator \in {"stopped", "panicked"}

ShutdownEnds ==
    /\ handler = "sleeping" ~> main = "returned"
    /\ main = "terminating" ~> main = "returned" \/ [](main = "terminating" /\ CoordinatorLost)

=============================================================================
