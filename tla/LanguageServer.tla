--------------------------- MODULE LanguageServer ---------------------------
(***************************************************************************)
(* An editing session: the editor changes files and buffers and notifies,  *)
(* the extension's server queues the notifications (server/src/common.ts)  *)
(* and hands them one at a time to process_notification (backend.rs),      *)
(* which reads files back through the client and so awaits.                *)
(*                                                                         *)
(* A read through the file accessor can fail at every await.  A change of  *)
(* a manifest's buffer is ignored by the bridge and is left out, as are    *)
(* documents of schemes the extension does not serve.                      *)
(***************************************************************************)
EXTENDS EditorState

CONSTANTS
    Texts, Initial,  \* the texts there are, and those the files start with
    Projects,  \* what each manifest may say: its contracts, the files that override
               \* boot contracts, version and deployer of the contracts, settings
    FirstProject,  \* what each says at first
    Home,      \* the manifest find_manifest_location finds for a contract
    BootVersion,  \* of a boot contract
    MaxEdits,  \* bound: things the user does
    MaxQueue   \* bound: notifications waiting

Deployers == {p.deployer : p \in UNION {Projects[m] : m \in Manifests}}

ASSUME ServerAssumption ==
    /\ Contracts \cap Manifests = {}
    /\ Initial \subseteq Texts /\ None \notin Texts
    /\ None \notin [source : Texts \X BOOLEAN, version : Nat, deployer : Deployers]
    /\ FirstProject \in [Manifests -> UNION {Projects[m] : m \in Manifests}]
    /\ \A m \in Manifests :
          /\ FirstProject[m] \in Projects[m]
          /\ \A p \in Projects[m] : p.version \in Nat /\ p.contracts \subseteq Contracts
    /\ Home \in [Contracts -> Manifests]
    /\ MaxEdits \in Nat /\ MaxQueue \in Nat

\* No contract is in two projects.  Nothing in the code sees to it: two manifests
\* may name the same file, and then the server can panic (NeverPanics).
Disjoint ==
    \A m \in Manifests : \A n \in Manifests \ {m} :
        \A p \in Projects[m] : \A r \in Projects[n] : p.contracts \cap r.contracts = {}

VARIABLES
    disk,     \* the text of each contract file
    project,  \* what each manifest file says
    buffer,   \* the text of each contract in the editor, None when closed
    edits,    \* bound: things the user did
    unsaved,  \* history: contracts opened with a text that was not the file's, and not
              \* edited since
    deployers,  \* history: the deployers each manifest has named
    queue,    \* notifications; the first one is in flight
    task,     \* where the handler of the first one is
    es,       \* EditorState
    shown,    \* what the editor shows of the published diagnostics
    panicked

vars == <<disk, project, buffer, edits, unsaved, deployers, queue, task, es, shown, panicked>>
client == <<disk, project, buffer, edits, unsaved, deployers>>

Kinds == {"didOpen", "didChange", "didSave", "didClose"}
Notification(method, uri, text) == [method |-> method, uri |-> uri, text |-> text]
NoProject == [contracts |-> {}, boots |-> {}, version |-> 0, deployer |-> None,
              settings |-> None, remote |-> FALSE]
Idle == [at |-> "idle", manifest |-> None, project |-> NoProject, saved |-> {},
         env |-> 0, ran |-> {}, entries |-> Empty]

TypeOK ==
    /\ disk \in [Contracts -> Texts]
    /\ \A m \in Manifests : project[m] \in Projects[m]
    /\ buffer \in [Contracts -> Texts \cup {None}]
    /\ edits \in 0..MaxEdits
    /\ unsaved \subseteq Contracts /\ deployers \in [Manifests -> SUBSET Deployers]
    /\ Len(queue) <= MaxQueue
    /\ \A n \in Range(queue) : n.method \in Kinds /\ n.uri \in Contracts \cup Manifests
    /\ task.at \in {"idle", "opening", "building", "passes"}
    /\ (task.at # "idle") => (queue # <<>>)
    /\ DOMAIN es.protocols \subseteq Manifests
    /\ DOMAIN es.lookup \cup DOMAIN es.active \subseteq Contracts
    /\ panicked \in BOOLEAN

Init ==
    /\ disk \in [Contracts -> Initial]
    /\ project = FirstProject
    /\ buffer = [c \in Contracts |-> None]
    /\ edits = 0
    /\ unsaved = {} /\ deployers = [m \in Manifests |-> {FirstProject[m].deployer}]
    /\ queue = <<>> /\ task = Idle /\ es = EditorStateNew
    /\ shown = [c \in Contracts |-> [ast |-> None, hint |-> FALSE]]
    /\ panicked = FALSE

-----------------------------------------------------------------------------
(* The extension's queue. *)

\* The newest entry for the document takes the new snapshot if it is a change
\* that is not in flight; an open, save or close in between is a barrier.
Superseded(q, n) ==
    {i \in 2..Len(q) : /\ n.method = "didChange" /\ q[i].method = "didChange" /\ q[i].uri = n.uri
                       /\ \A j \in (i + 1)..Len(q) : q[j].uri # n.uri}

onNotification(n) ==
    LET old == Superseded(queue, n)
    IN  IF old # {} THEN queue' = [i \in DOMAIN queue |-> IF i \in old THEN n ELSE queue[i]]
        ELSE Len(queue) < MaxQueue /\ queue' = Append(queue, n)

\* Mutant: requests are answered while a notification is in flight.
MutantOnRequest(q, answer) == answer
\* A request is dropped while a notification is in flight.
onRequest(q, answer) == IF q # <<>> THEN {} ELSE answer

Acts == edits < MaxEdits /\ ~panicked /\ edits' = edits + 1
ServerIdles == UNCHANGED <<task, es, shown, panicked>>

\* The editor opens the file, or restores a text that was never saved.  It sends
\* the text, which the bridge decodes and drops.
OpenContract(c, text) ==
    /\ Acts /\ buffer[c] = None
    /\ buffer' = [buffer EXCEPT ![c] = text]
    /\ unsaved' = IF text = disk[c] THEN unsaved \ {c} ELSE unsaved \cup {c}
    /\ onNotification(Notification("didOpen", c, None))
    /\ UNCHANGED <<disk, project, deployers>> /\ ServerIdles

EditContract(c, text) ==
    /\ Acts /\ buffer[c] \notin {None, text}
    /\ buffer' = [buffer EXCEPT ![c] = text]
    /\ unsaved' = unsaved \ {c}
    /\ onNotification(Notification("didChange", c, text))
    /\ UNCHANGED <<disk, project, deployers>> /\ ServerIdles

SaveContract(c) ==
    /\ Acts /\ buffer[c] # None
    /\ disk' = [disk EXCEPT ![c] = buffer[c]]
    /\ onNotification(Notification("didSave", c, None))
    /\ UNCHANGED <<buffer, project, unsaved, deployers>> /\ ServerIdles

CloseContract(c) ==
    /\ Acts /\ buffer[c] # None
    /\ buffer' = [buffer EXCEPT ![c] = None]
    /\ unsaved' = unsaved \ {c}
    /\ onNotification(Notification("didClose", c, None))
    /\ UNCHANGED <<disk, project, deployers>> /\ ServerIdles

OpenManifest(m) ==
    /\ Acts /\ onNotification(Notification("didOpen", m, None))
    /\ UNCHANGED <<disk, buffer, project, unsaved, deployers>> /\ ServerIdles

SaveManifest(m, p) ==
    /\ Acts /\ project' = [project EXCEPT ![m] = p]
    /\ deployers' = [deployers EXCEPT ![m] = @ \cup {p.deployer}]
    /\ onNotification(Notification("didSave", m, None))
    /\ UNCHANGED <<disk, buffer, unsaved>> /\ ServerIdles

-----------------------------------------------------------------------------
(* process_notification *)

InFlight(method, uris) ==
    queue # <<>> /\ Head(queue).method = method /\ Head(queue).uri \in uris
Starts(method, uris) == ~panicked /\ task.at = "idle" /\ InFlight(method, uris)

\* The entry is dequeued whether the handler succeeded or not.
Finish == queue' = Tail(queue) /\ task' = Idle
\* Mutant: a handler that fails leaves its notification at the front of the queue.
MutantFail == UNCHANGED <<queue, es, shown, panicked>> /\ task' = Idle
Fail == Finish /\ UNCHANGED <<es, shown, panicked>>
Quiet(state) == Finish /\ es' = state /\ UNCHANGED <<shown, panicked>>
BuildFor(m, saved) ==
    task' = [Idle EXCEPT !.at = "building", !.manifest = m, !.saved = saved]

ManifestOpened ==
    /\ Starts("didOpen", Manifests)
    /\ UNCHANGED <<client, es, shown, panicked>>
    /\ IF Head(queue).uri \in DOMAIN es.protocols THEN Finish
       ELSE BuildFor(Head(queue).uri, {}) /\ UNCHANGED queue

ManifestSaved ==
    /\ Starts("didSave", Manifests)
    /\ BuildFor(Head(queue).uri, {})
    /\ UNCHANGED <<client, queue, es, shown, panicked>>

ContractChanged ==
    /\ Starts("didChange", Contracts)
    /\ Quiet(update_active_contract(es, Head(queue).uri, Head(queue).text))
    /\ UNCHANGED client

ContractClosed ==
    /\ Starts("didClose", Contracts)
    /\ Quiet(remove_active_contract(es, Head(queue).uri))
    /\ UNCHANGED client

\* The manifest's location is resolved through the client.
ContractOpened ==
    /\ Starts("didOpen", Contracts)
    /\ UNCHANGED client
    /\ \/ Fail
       \/ /\ task' = [Idle EXCEPT !.at = "opening", !.manifest = Home[Head(queue).uri]]
          /\ UNCHANGED <<queue, es, shown, panicked>>

\* The text and, unless the lookup knows the contract, its version are read.
ReadOpened ==
    LET c == Head(queue).uri
        m == task.manifest
        known == c \in DOMAIN es.lookup
        version == IF known THEN es.lookup[c].version
                   ELSE IF c \in project[m].contracts THEN project[m].version ELSE BootVersion
        issuer == IF known THEN es.lookup[c].issuer ELSE None
        inserted == IF c \in DOMAIN es.active THEN es
                    ELSE insert_active_contract(es, c, version, issuer, disk[c])
    IN  /\ task.at = "opening"
        /\ UNCHANGED client
        /\ \/ c \notin DOMAIN es.active /\ Fail
           \/ /\ c \in DOMAIN es.active \/ known \/ c \in project[m].contracts \cup project[m].boots
              /\ es' = inserted
              /\ UNCHANGED <<shown, panicked>>
              /\ IF m \in DOMAIN es.protocols THEN Finish ELSE BuildFor(m, {}) /\ UNCHANGED queue

\* The project of a saved contract is forgotten before it is built again.
ContractSaved ==
    LET c == Head(queue).uri
        known == c \in DOMAIN es.lookup
    IN  /\ Starts("didSave", Contracts)
        /\ UNCHANGED <<client, shown, panicked>>
        /\ es' = clear_protocol_associated_with_contract(es, c)
        /\ \/ ~known /\ Finish
           \/ /\ BuildFor(IF known THEN es.lookup[c].manifest ELSE Home[c], {c})
              /\ UNCHANGED queue

-----------------------------------------------------------------------------
(* build_and_commit.  Nothing of the editor state changes between the reads of *)
(* a build, as the queue serves one notification at a time.                    *)

ReadManifest ==
    /\ task.at = "building"
    /\ UNCHANGED <<client, es, shown, panicked>>
    /\ \/ Finish
       \/ /\ task' = [task EXCEPT !.at = "passes", !.project = project[task.manifest], !.env = 1]
          /\ UNCHANGED queue

\* Each pass reads the files anew.
Pass(env) ==
    /\ task.at = "passes" /\ Environments[task.env] = env
    /\ UNCHANGED client
    /\ \/ Fail
       \/ LET p == task.project
              m == task.manifest
              entries == Extended(task.entries, GenerateDeployment(p, disk, env, es.asts))
              found == task.env = 2 \/ FoundEnvSimnet(p, disk, env)
              base == prepared_session(BaseGet(es.base, m), p)
              ran == task.ran \cup {env}
              built == consolidate(p, entries, env, base.session, ran)
              after == Commit(es, m, base.entry, built, entries, task.saved)
          IN  IF found /\ task.env < Len(Environments)
              THEN /\ task' = [task EXCEPT !.env = @ + 1, !.ran = ran, !.entries = entries]
                   /\ UNCHANGED <<queue, es, shown, panicked>>
              ELSE /\ es' = after
                   /\ panicked' = (NotInLookup(after) # {})
                   /\ shown' = IF panicked' THEN shown ELSE AggregatedDiagnostics(after, shown)
                   /\ Finish

-----------------------------------------------------------------------------
User ==
    \/ \E c \in Contracts : \/ SaveContract(c) \/ CloseContract(c)
                            \/ \E t \in Texts : OpenContract(c, t) \/ EditContract(c, t)
    \/ \E m \in Manifests : \/ OpenManifest(m)
                            \/ \E p \in Projects[m] : SaveManifest(m, p)
Server ==
    \/ ManifestOpened \/ ManifestSaved \/ ContractOpened \/ ContractSaved
    \/ ContractChanged \/ ContractClosed \/ ReadOpened \/ ReadManifest
    \/ \E env \in Range(Environments) : Pass(env)

Next == User \/ Server
Spec == Init /\ [][Next]_vars /\ WF_vars(Server)

-----------------------------------------------------------------------------
(* Properties.  "Settled": every notification sent so far has been handled. *)

Settled == queue = <<>>

\* No request is answered from a text the user has since changed: neither from an
\* older buffer nor from definitions computed before the last edit.  The exception
\* is a contract opened with an unsaved text: the server reads the file instead,
\* and answers from it, edits of a formatter included, until the next change.
AnswersAreCurrent ==
    \A c \in Contracts \ unsaved :
        /\ \A answer \in {get_completion_items(es, c), get_document_symbols(es, c),
                           get_hover_data(es, c), get_signature_help(es, c),
                           get_definition_location(es, c), Formatting(es, c)} :
              onRequest(queue, answer) \subseteq {buffer[c]}
        /\ onRequest(queue, get_code_lenses(es, c)) \subseteq
              IF buffer[c] \in Broken THEN {disk[c]} ELSE {buffer[c], disk[c]}

\* Once the queue is empty an open contract has the text of its buffer, although
\* it was opened from the file and changes in the queue were merged, unless it was
\* opened with an unsaved text; the analysed projects describe the files as they
\* are, whichever parses were reused, whichever reads failed and whatever was saved
\* while a build was reading; and each ran on boot contracts set up for its own
\* settings.  A parse is for a deployer that the manifest has named: for the one it
\* names now if it never named another.
ServerIsCurrent ==
    Settled =>
        /\ \A c \in DOMAIN es.active \ unsaved : es.active[c].text = buffer[c]
        /\ \A m \in DOMAIN es.protocols :
              LET p == es.protocols[m]
                  env == IF p.ran = {"OnChain"} THEN "OnChain" ELSE "Simnet"
              IN  /\ p.session = p.settings
                  /\ \A c \in DOMAIN p.contracts :
                        /\ \E d \in deployers[m] :
                              p.contracts[c].ast = Ast(SourceFor(disk[c], env), p.contracts[c].version, d)
                        /\ shown[c].ast = p.contracts[c].ast

\* The diagnostics of every analysed contract can be filed: "contract not in lookup"
\* is an assertion of get_aggregated_diagnostics.  It does not hold of projects that
\* share a contract, where saving one forgets what the other needs.
NeverPanics == ~panicked

\* Every notification is handled in the end, failed ones included.
QueueDrains == (queue # <<>>) ~> (queue = <<>>)
=============================================================================
