---------------------------- MODULE Orchestrator ----------------------------
(***************************************************************************)
(* The containers of a local devnet (stacks-network, DevnetOrchestrator).  *)
(*                                                                         *)
(* start prepares and boots one service after the other.  Preparing pulls  *)
(* the image, writes the configuration and creates the container, whose id *)
(* is recorded; booting starts the container of that id.  Docker may do    *)
(* what it was asked and the answer be lost, and it may refuse to kill or  *)
(* to remove a container, which nobody looks at.  The fields that hold the *)
(* ids are the set recorded.                                               *)
(***************************************************************************)
EXTENDS Integers, Sequences, SequencesExt

CONSTANTS
    Signers,  \* the services of the signers, one for each of their keys
    Disabled, \* the services that Devnet.toml disables
    Stubborn  \* the services whose containers docker may fail to remove

ASSUME OrchestratorAssumption ==
    /\ Signers \subseteq STRING /\ IsFiniteSet(Signers)
    /\ Disabled \subseteq {"postgres", "stacks-api", "stacks-explorer", "bitcoin-explorer"}

VARIABLES
    orchestrator, \* where the orchestrator's thread is
    at,           \* which service of BootOrder it is at
    docker,       \* the container of each service
    recorded,     \* the services whose container id the orchestrator holds
    refused       \* the containers that docker failed to kill or to remove

containerVars == <<orchestrator, at, docker, recorded, refused>>

\* The order of start; that of the signers is fixed.
AllServices ==
    <<"bitcoin-node", "postgres", "stacks-api", "stacks-node">> \o SetToSeq(Signers)
        \o <<"stacks-explorer", "bitcoin-explorer">>

BootOrder == SelectSeq(AllServices, LAMBDA s : s \notin Disabled)

Services == {AllServices[i] : i \in DOMAIN AllServices}

ContainerState == {"absent", "created", "running"}

\* What a session that did not clean up may have left.
Leftovers ==
    {[s \in Services |-> IF s \in left THEN state ELSE "absent"] :
        left \in SUBSET Services, state \in ContainerState}

OrchestratorInit ==
    /\ orchestrator = "preparing" /\ at = 1
    /\ docker \in Leftovers /\ recorded = {} /\ refused = {}

-----------------------------------------------------------------------------
Present(services) == {s \in services \cap Services : docker[s] # "absent"}

\* The known containers are killed, and those that do not run are removed or
\* pruned.  The errors are discarded: docker may leave a container running, or
\* stopped.
Discard(known) ==
    \E unkilled \in SUBSET Present(Stubborn), unremoved \in SUBSET Present(Stubborn) :
        /\ docker' = [s \in Services |->
                IF docker[s] = "running" /\ (s \in unkilled \/ s \notin known) THEN "running"
                ELSE IF s \in unremoved THEN "created" ELSE "absent"]
        /\ refused' = refused \cup unkilled \cup unremoved

\* clean_previous_session: whatever has the project's label is killed, and prune
\* removes the containers that do not run.
CleanPreviousSession ==
    /\ Discard(Services)
    /\ UNCHANGED <<orchestrator, at, recorded>>

Current == BootOrder[at]

\* The next service, or the wait for a terminator.
NextService ==
    /\ at' = at + 1
    /\ orchestrator' = IF at < Len(BootOrder) THEN "preparing" ELSE "waiting"

\* A container is created under the name of its service, which has to be free.
Create(s) ==
    /\ orchestrator = "preparing" /\ s = Current
    /\ docker' = [docker EXCEPT ![s] = "created"]
    /\ recorded' = recorded \cup {s}
    /\ refused' = refused \ {s}
    /\ orchestrator' = "starting"
    /\ UNCHANGED at

Prepare(s) == docker[s] = "absent" /\ Create(s)

Starts(s) ==
    /\ orchestrator = "starting" /\ s = Current
    /\ s \in recorded
    /\ docker' = [docker EXCEPT ![s] = "running"]
    /\ UNCHANGED <<recorded, refused>>

\* A creation that fails is tried once more, after the container that has the
\* name was killed, which frees the name if that container ran.
PrepareBitcoinNode == docker["bitcoin-node"] # "created" /\ Create("bitcoin-node")

PreparePostgres == Prepare("postgres")

PrepareStacksApi == Prepare("stacks-api")

PrepareStacksNode == Prepare("stacks-node")

PrepareStacksSigner == \E s \in Signers : Prepare(s)

PrepareStacksExplorer == Prepare("stacks-explorer")

PrepareBitcoinExplorer == Prepare("bitcoin-explorer")

\* The snapshot is copied into the container before it is started.
BootBitcoinNode == Starts("bitcoin-node") /\ orchestrator' = "initializing" /\ UNCHANGED at

BootPostgres == Starts("postgres") /\ NextService

\* Started, and then the cached events are imported.
BootStacksApi == Starts("stacks-api") /\ NextService

\* As for the bitcoin node, with the other snapshot.
BootStacksNode == Starts("stacks-node") /\ NextService

BootStacksSigner == (\E s \in Signers : Starts(s)) /\ NextService

BootStacksExplorer == Starts("stacks-explorer") /\ NextService

BootBitcoinExplorer == Starts("bitcoin-explorer") /\ NextService

\* The node answers, its wallet is there and its chain is loaded.
InitializeBitcoinNode ==
    /\ orchestrator = "initializing"
    /\ NextService
    /\ UNCHANGED <<docker, recorded, refused>>

BootStep ==
    \/ PrepareBitcoinNode \/ PreparePostgres \/ PrepareStacksApi \/ PrepareStacksNode
    \/ PrepareStacksSigner \/ PrepareStacksExplorer \/ PrepareBitcoinExplorer
    \/ BootBitcoinNode \/ BootPostgres \/ BootStacksApi \/ BootStacksNode
    \/ BootStacksSigner \/ BootStacksExplorer \/ BootBitcoinExplorer
    \/ InitializeBitcoinNode

\* A step that failed may have done its work: the container was created and the
\* answer with its id was lost, or it was started and the rest failed.
StepFails ==
    /\ orchestrator \in {"preparing", "starting"}
    /\ \/ UNCHANGED docker
       \/ /\ orchestrator = "preparing" => docker[Current] = "absent"
          /\ docker' = [docker EXCEPT ![Current] =
                            IF orchestrator = "preparing" THEN "created" ELSE "running"]
    /\ orchestrator' = "killing"
    /\ UNCHANGED <<at, recorded, refused>>

\* Mutant: kill leaves the containers without an id to docker.
KillRecorded ==
    /\ docker' = [s \in Services |-> IF s \in recorded THEN "absent" ELSE docker[s]]
    /\ orchestrator' = "ended"
    /\ UNCHANGED <<at, recorded, refused>>

\* kill: the recorded containers are killed and removed, and prune removes the
\* project's other ones unless they run.
KillContainers ==
    /\ Discard(recorded)
    /\ orchestrator' = "ended"
    /\ UNCHANGED <<at, recorded>>

=============================================================================
