------------------------ MODULE LanguageServerProofs ------------------------
(***************************************************************************)
(* The language server keeps up with the editor, for any number of         *)
(* contracts, projects and notifications: once the queue is empty it holds *)
(* the texts of the buffers and its analyses are those of the files.       *)
(***************************************************************************)
EXTENDS LanguageServer, SequenceTheorems, TLAPS

Notes == [method : Kinds, uri : Contracts \cup Manifests, text : Texts \cup {None}]

Is(n, method, c) == n.method = method /\ n.uri = c

\* Notifications about what the buffer of a contract holds.
OfBuffer(n, c) == n.uri = c /\ n.method # "didSave"
Newest(q, i, c) ==
    OfBuffer(q[i], c) /\ \A j \in DOMAIN q : j > i => ~OfBuffer(q[j], c)

\* What the server holds of an open contract is the buffer, or will be when the
\* last notification about it is handled; b is the buffer and f the file.  U has the
\* contracts that were opened with an unsaved text, of which the server knows nothing.
TextOK(q, b, f, act, c) ==
    /\ (\A i \in DOMAIN q : ~OfBuffer(q[i], c)) /\ c \in DOMAIN act => act[c].text = b
    /\ \A i \in DOMAIN q : Newest(q, i, c) =>
          /\ q[i].method = "didChange" => q[i].text = b
          /\ q[i].method = "didOpen" =>
                /\ b = f
                /\ i = 1 /\ c \in DOMAIN act => act[c].text = b

\* A contract is opened when it is not open: between two openings it is closed.
TurnOK(q, b, act, at, c) ==
    /\ \A i \in DOMAIN q : Is(q[i], "didOpen", c) /\ (i > 1 \/ at \in {"idle", "opening"}) =>
          c \notin DOMAIN act \/ \E j \in DOMAIN q : j < i /\ Is(q[j], "didClose", c)
    /\ \A i, k \in DOMAIN q : i < k /\ Is(q[i], "didOpen", c) /\ Is(q[k], "didOpen", c) =>
          \E j \in DOMAIN q : i < j /\ j < k /\ Is(q[j], "didClose", c)
    /\ b = None =>
          /\ c \notin DOMAIN act \/ \E j \in DOMAIN q : Is(q[j], "didClose", c)
          /\ \A i \in DOMAIN q : Is(q[i], "didOpen", c) =>
                \E j \in DOMAIN q : i < j /\ Is(q[j], "didClose", c)

BufferOK(q, b, f, act, at, c, U) == (c \notin U => TextOK(q, b, f, act, c)) /\ TurnOK(q, b, act, at, c)

\* What is parsed and defined of an open contract is about its text.
ActiveOK(a) ==
    /\ a = [version |-> a.version, issuer |-> a.issuer, text |-> a.text,
            expressions |-> a.expressions, definitions |-> a.definitions]
    /\ a.expressions = Parsed(a.text, a.version)
    /\ a.definitions # None => a.expressions # None /\ a.definitions.of = a.expressions

\* A parse is of the source and version it is kept under, for some deployer.
CacheOK(asts) ==
    \A key \in DOMAIN asts :
        /\ asts[key].ast = Ast(asts[key].hash, asts[key].version, asts[key].ast.deployer)
        /\ asts[key].ast.deployer \in Deployers

\* A session is kept under the settings that it was set up for.
Settings == {p.settings : p \in UNION {Projects[m] : m \in Manifests}}
Entries == {[key |-> s, session |-> s] : s \in Settings}
Slots == [manifest : Manifests, entry : Entries]

\* A save of the contract is still to be handled.
Pending(q, at, c) == \E i \in DOMAIN q : Is(q[i], "didSave", c) /\ (i > 1 \/ at = "idle")

LastEnvironment(ran) == IF ran = {"OnChain"} THEN "OnChain" ELSE "Simnet"
Current(p, c, files) ==
    p.contracts[c].ast = Ast(SourceFor(files[c], LastEnvironment(p.ran)), p.contracts[c].version,
                             p.contracts[c].ast.deployer)

\* The manifest whose project has the contract: there is one at most.
Owner(c) == CHOOSE m \in Manifests : \E p \in Projects[m] : c \in p.contracts

\* An analysed project is found from its contracts, shown as it is, and current up
\* to the saves that are pending.
ProjectOK(m, p, lookup, disp, q, files, at) ==
    /\ m \in Manifests /\ p.session = p.settings
    /\ \A c \in DOMAIN p.contracts :
          /\ c \in Contracts /\ Owner(c) = m /\ c \in DOMAIN lookup
          /\ disp[c].ast = p.contracts[c].ast /\ p.contracts[c].ast # None
          /\ Current(p, c, files) \/ Pending(q, at, c)
ProjectsOK(protocols, lookup, disp, q, files, at) ==
    /\ \A c \in DOMAIN lookup : c \in Contracts /\ lookup[c].manifest = Owner(c) /\ Owner(c) \in Manifests
    /\ \A m \in DOMAIN protocols : ProjectOK(m, protocols[m], lookup, disp, q, files, at)

\* The record of a handler.
IsTask(t) ==
    t = [at |-> t.at, manifest |-> t.manifest, project |-> t.project, saved |-> t.saved,
         env |-> t.env, ran |-> t.ran, entries |-> t.entries]

\* What the handler in flight has read.
TaskOK(t, q) ==
    /\ IsTask(t)
    /\ t.at \in {"idle", "opening", "building", "passes"}
    /\ t.at # "idle" => q # <<>> /\ t.manifest \in Manifests
    /\ t.at = "opening" => q[1].method = "didOpen" /\ q[1].uri \in Contracts
    /\ t.at \in {"building", "passes"} => q[1].method \in {"didOpen", "didSave"}
    /\ t.at = "building" => t.ran = {}
    /\ t.at = "passes" =>
          /\ t.project \in Projects[t.manifest]
          /\ \/ t.env = 1 /\ t.ran = {}
             \/ t.env = 2 /\ t.ran = {"OnChain"}
    /\ CacheOK(t.entries)

ClientOK ==
    /\ disk \in [Contracts -> Texts]
    /\ project \in [Manifests -> UNION {Projects[m] : m \in Manifests}]
    /\ \A m \in Manifests : project[m] \in Projects[m]
    /\ buffer \in [Contracts -> Texts \cup {None}]
    /\ edits \in 0..MaxEdits
    /\ unsaved \subseteq Contracts
    /\ Disjoint
    /\ queue \in Seq(Notes) /\ Len(queue) <= MaxQueue
    /\ panicked = FALSE

\* The parts of an editor state are its fields.
IsState(e) ==
    e = [protocols |-> e.protocols, lookup |-> e.lookup, active |-> e.active,
         asts |-> e.asts, base |-> e.base]

IInv ==
    /\ ClientOK
    /\ IsState(es)
    /\ TaskOK(task, queue)
    /\ \A c \in DOMAIN es.active : c \in Contracts /\ ActiveOK(es.active[c])
    /\ CacheOK(es.asts) /\ es.base \in Seq(Slots)
    /\ \A c \in Contracts : BufferOK(queue, buffer[c], disk[c], es.active, task.at, c, unsaved)
    /\ ProjectsOK(es.protocols, es.lookup, shown, queue, disk, task.at)
-----------------------------------------------------------------------------
(* The operations on the editor state, field by field. *)

LEMMA Fields ==
    ASSUME NEW e, IsState(e)
    PROVE  e \in [protocols : {e.protocols}, lookup : {e.lookup}, active : {e.active},
                  asts : {e.asts}, base : {e.base}]
  BY Zenon DEF IsState

LEMMA Removed ==
    ASSUME NEW e, IsState(e), NEW c
    PROVE  remove_active_contract(e, c) =
              [protocols |-> e.protocols, lookup |-> e.lookup, active |-> Without(e.active, {c}),
               asts |-> e.asts, base |-> e.base]
  BY Fields, SMT DEF remove_active_contract

LEMMA Updated ==
    ASSUME NEW e, IsState(e), NEW c \in DOMAIN e.active, NEW text
    PROVE  update_active_contract(e, c, text) =
              [protocols |-> e.protocols, lookup |-> e.lookup,
               active |-> [e.active EXCEPT ![c] = update_sources(@, text)],
               asts |-> e.asts, base |-> e.base]
<1> DEFINE act == [e.active EXCEPT ![c] = update_sources(@, text)]
<1>1. update_active_contract(e, c, text) = [e EXCEPT !.active = act]
  BY Zenon DEF update_active_contract
<1> HIDE DEF act
<1>2. [e EXCEPT !.active = act] =
          [protocols |-> e.protocols, lookup |-> e.lookup, active |-> act,
           asts |-> e.asts, base |-> e.base]
  BY Fields, SMT
<1> QED  BY <1>1, <1>2 DEF act

LEMMA Inserted ==
    ASSUME NEW e, IsState(e), NEW c, NEW version, NEW issuer, NEW text
    PROVE  insert_active_contract(e, c, version, issuer, text) =
              [protocols |-> e.protocols, lookup |-> e.lookup,
               active |-> With(e.active, c, ActiveContractNew(version, issuer, text)),
               asts |-> e.asts, base |-> e.base]
<1> DEFINE act == With(e.active, c, ActiveContractNew(version, issuer, text))
<1>1. insert_active_contract(e, c, version, issuer, text) = [e EXCEPT !.active = act]
  BY Zenon DEF insert_active_contract
<1> HIDE DEF act
<1>2. [e EXCEPT !.active = act] =
          [protocols |-> e.protocols, lookup |-> e.lookup, active |-> act,
           asts |-> e.asts, base |-> e.base]
  BY Fields, SMT
<1> QED  BY <1>1, <1>2 DEF act

LEMMA Cleared ==
    ASSUME NEW e, IsState(e), NEW m \in DOMAIN e.protocols
    PROVE  clear_protocol(e, m) =
              [protocols |-> Without(e.protocols, {m}),
               lookup |-> Without(e.lookup, DOMAIN e.protocols[m].contracts),
               active |-> e.active, asts |-> e.asts, base |-> e.base]
<1> DEFINE ps == Without(e.protocols, {m})
           ls == Without(e.lookup, DOMAIN e.protocols[m].contracts)
<1>1. clear_protocol(e, m) = [e EXCEPT !.protocols = ps, !.lookup = ls]
  BY Zenon DEF clear_protocol
<1> HIDE DEF ps, ls
<1>2. [e EXCEPT !.protocols = ps] =
          [protocols |-> ps, lookup |-> e.lookup, active |-> e.active, asts |-> e.asts, base |-> e.base]
  BY Fields, SMT
<1>3. [[protocols |-> ps, lookup |-> e.lookup, active |-> e.active, asts |-> e.asts, base |-> e.base]
           EXCEPT !.lookup = ls] =
          [protocols |-> ps, lookup |-> ls, active |-> e.active, asts |-> e.asts, base |-> e.base]
  BY SMT
<1>4. [e EXCEPT !.protocols = ps, !.lookup = ls] = [[e EXCEPT !.protocols = ps] EXCEPT !.lookup = ls]
  BY Fields, Zenon
<1> QED  BY <1>1, <1>2, <1>3, <1>4, Zenon DEF ps, ls

-----------------------------------------------------------------------------
(* The open contracts. *)

LEMMA ActiveFields ==
    ASSUME NEW a, ActiveOK(a)
    PROVE  a \in [version : {a.version}, issuer : {a.issuer}, text : {a.text},
                  expressions : {a.expressions}, definitions : {a.definitions}]
  BY Zenon DEF ActiveOK

\* A record of an open contract whose fields need not fit yet.
IsActive(a) ==
    a = [version |-> a.version, issuer |-> a.issuer, text |-> a.text,
         expressions |-> a.expressions, definitions |-> a.definitions]

LEMMA Defined ==
    ASSUME NEW a, ActiveOK(a)
    PROVE  ActiveOK(update_definitions(a)) /\ update_definitions(a).text = a.text
<1>1. CASE a.expressions = None
  BY <1>1 DEF update_definitions
<1>2. CASE a.expressions # None
  <2> DEFINE d == Definitions(a.version, a.expressions, a.issuer)
  <2>1. d.of = a.expressions  BY DEF Definitions
  <2>2. update_definitions(a) = [a EXCEPT !.definitions = d]
    BY <1>2, Zenon DEF update_definitions
  <2> HIDE DEF d
  <2>3. [a EXCEPT !.definitions = d] =
            [version |-> a.version, issuer |-> a.issuer, text |-> a.text,
             expressions |-> a.expressions, definitions |-> d]
    BY ActiveFields, SMT
  <2> QED  BY <1>2, <2>1, <2>2, <2>3 DEF ActiveOK
<1> QED  BY <1>1, <1>2

LEMMA Reparsed ==
    ASSUME NEW a, IsActive(a), NEW b \in BOOLEAN
    PROVE  /\ ActiveOK(update_expressions(a, b))
           /\ update_expressions(a, b).text = a.text
<1> DEFINE e == Parsed(a.text, a.version)
           parsed == [a EXCEPT !.definitions = None, !.expressions = e]
<1>1. a \in [version : {a.version}, issuer : {a.issuer}, text : {a.text},
             expressions : {a.expressions}, definitions : {a.definitions}]
  BY Zenon DEF IsActive
<1>2. parsed = [version |-> a.version, issuer |-> a.issuer, text |-> a.text,
                expressions |-> e, definitions |-> None]
  <2> HIDE DEF e
  <2>1. [a EXCEPT !.definitions = None] =
            [version |-> a.version, issuer |-> a.issuer, text |-> a.text,
             expressions |-> a.expressions, definitions |-> None]
    BY <1>1, SMT
  <2>2. [[version |-> a.version, issuer |-> a.issuer, text |-> a.text,
            expressions |-> a.expressions, definitions |-> None] EXCEPT !.expressions = e] =
            [version |-> a.version, issuer |-> a.issuer, text |-> a.text,
             expressions |-> e, definitions |-> None]
    BY SMT
  <2>3. parsed = [[a EXCEPT !.definitions = None] EXCEPT !.expressions = e]
    BY <1>1, Zenon
  <2> QED  BY <2>1, <2>2, <2>3, Zenon
<1>3. ActiveOK(parsed) /\ parsed.text = a.text
  BY <1>2 DEF ActiveOK
<1>4. update_expressions(a, b) = IF b THEN update_definitions(parsed) ELSE parsed
  BY Zenon DEF update_expressions
<1> HIDE DEF parsed
<1> QED  BY <1>3, <1>4, Defined

LEMMA Sourced ==
    ASSUME NEW a, ActiveOK(a), NEW text
    PROVE  ActiveOK(update_sources(a, text)) /\ update_sources(a, text).text = text
<1> DEFINE b == [a EXCEPT !.text = text]
<1>1. b = [version |-> a.version, issuer |-> a.issuer, text |-> text,
           expressions |-> a.expressions, definitions |-> a.definitions]
  BY ActiveFields, SMT
<1>2. IsActive(b) /\ b.text = text
  BY <1>1 DEF IsActive
<1>3. update_sources(a, text) = update_expressions(b, FALSE)
  BY Zenon DEF update_sources
<1> HIDE DEF b
<1> QED  BY <1>2, <1>3, Reparsed

LEMMA Versioned ==
    ASSUME NEW a, ActiveOK(a), NEW version
    PROVE  /\ ActiveOK(update_clarity_version(a, version))
           /\ update_clarity_version(a, version).text = a.text
<1> DEFINE b == [a EXCEPT !.version = version]
<1>1. b = [version |-> version, issuer |-> a.issuer, text |-> a.text,
           expressions |-> a.expressions, definitions |-> a.definitions]
  BY ActiveFields, SMT
<1>2. IsActive(b) /\ b.text = a.text
  BY <1>1 DEF IsActive
<1>3. update_clarity_version(a, version) = update_expressions(b, TRUE)
  BY Zenon DEF update_clarity_version
<1> HIDE DEF b
<1> QED  BY <1>2, <1>3, Reparsed

LEMMA Issued ==
    ASSUME NEW a, ActiveOK(a), NEW issuer
    PROVE  ActiveOK(update_issuer(a, issuer)) /\ update_issuer(a, issuer).text = a.text
<1> DEFINE b == [a EXCEPT !.issuer = issuer]
<1>1. b = [version |-> a.version, issuer |-> issuer, text |-> a.text,
           expressions |-> a.expressions, definitions |-> a.definitions]
  BY ActiveFields, SMT
<1>2. ActiveOK(b) /\ b.text = a.text
  BY <1>1 DEF ActiveOK
<1>3. update_issuer(a, issuer) = update_definitions(b)
  BY Zenon DEF update_issuer
<1> HIDE DEF b
<1> QED  BY <1>2, <1>3, Defined

LEMMA Opened ==
    ASSUME NEW version, NEW issuer, NEW text
    PROVE  /\ ActiveOK(ActiveContractNew(version, issuer, text))
           /\ ActiveContractNew(version, issuer, text).text = text
<1> DEFINE a == [version |-> version, issuer |-> issuer, text |-> text,
                 expressions |-> None, definitions |-> None]
<1>1. IsActive(a) /\ a.text = text
  BY DEF IsActive
<1>2. ActiveContractNew(version, issuer, text) = update_expressions(a, TRUE)
  BY Zenon DEF ActiveContractNew
<1> HIDE DEF a
<1> QED  BY <1>1, <1>2, Reparsed

LEMMA Indexed ==
    ASSUME NEW a, ActiveOK(a), NEW state
    PROVE  ActiveOK(IndexedContract(a, state)) /\ IndexedContract(a, state).text = a.text
<1> DEFINE v == IF a.version # state.version
                THEN update_clarity_version(a, state.version) ELSE a
<1>1. ActiveOK(v) /\ v.text = a.text
  BY Versioned
<1>2. IndexedContract(a, state) =
         IF v.issuer = None \/ v.issuer # Issuer(state) THEN update_issuer(v, Issuer(state)) ELSE v
  BY Zenon DEF IndexedContract
<1> HIDE DEF v
<1> QED  BY <1>1, <1>2, Issued

-----------------------------------------------------------------------------
(* The write at the end of a build. *)

State(p, l, a, t, b) == [protocols |-> p, lookup |-> l, active |-> a, asts |-> t, base |-> b]

LEMMA Indexing ==
    ASSUME NEW p, NEW l, NEW a, NEW t, NEW b, NEW m, NEW protocol
    PROVE  index_protocol(State(p, l, a, t, b), m, protocol) =
              State(With(p, m, protocol),
                    Extended(l, [c \in DOMAIN protocol.contracts |-> Metadata(m, protocol.contracts[c])]),
                    [c \in DOMAIN a |-> IF c \in DOMAIN protocol.contracts
                                        THEN IndexedContract(a[c], protocol.contracts[c]) ELSE a[c]],
                    t, b)
<1> DEFINE e == State(p, l, a, t, b)
           p2 == With(p, m, protocol)
           l2 == Extended(l, [c \in DOMAIN protocol.contracts |-> Metadata(m, protocol.contracts[c])])
           a2 == [c \in DOMAIN a |-> IF c \in DOMAIN protocol.contracts
                                     THEN IndexedContract(a[c], protocol.contracts[c]) ELSE a[c]]
<1>1. e.active = a /\ e.lookup = l /\ e.protocols = p
  BY DEF State
<1>2. index_protocol(e, m, protocol) = [e EXCEPT !.active = a2, !.lookup = l2, !.protocols = p2]
  <2> HIDE DEF e
  <2> QED  BY <1>1, Zenon DEF index_protocol
<1> HIDE DEF p2, l2, a2
<1>3. e \in [protocols : {p}, lookup : {l}, active : {a}, asts : {t}, base : {b}]
  BY DEF State
<1>4. [e EXCEPT !.active = a2, !.lookup = l2, !.protocols = p2] =
          [[[e EXCEPT !.active = a2] EXCEPT !.lookup = l2] EXCEPT !.protocols = p2]
  <2> HIDE DEF e
  <2> QED  BY <1>3, Zenon
<1>5. [[[e EXCEPT !.active = a2] EXCEPT !.lookup = l2] EXCEPT !.protocols = p2] = State(p2, l2, a2, t, b)
  <2>1. [e EXCEPT !.active = a2] = State(p, l, a2, t, b)
    BY SMT DEF State
  <2>2. [State(p, l, a2, t, b) EXCEPT !.lookup = l2] = State(p, l2, a2, t, b)
    BY SMT DEF State
  <2>3. [State(p, l2, a2, t, b) EXCEPT !.protocols = p2] = State(p2, l2, a2, t, b)
    BY SMT DEF State
  <2> HIDE DEF e
  <2> QED  BY <2>1, <2>2, <2>3, Zenon
<1> HIDE DEF e
<1> QED  BY <1>2, <1>4, <1>5, Zenon DEF e, p2, l2, a2

LEMMA Committed ==
    ASSUME NEW e, IsState(e), \A c \in DOMAIN e.active : ActiveOK(e.active[c]),
           NEW m, NEW entry, NEW protocol, NEW entries, NEW saved
    PROVE  \E act :
              /\ Commit(e, m, entry, protocol, entries, saved) =
                   State(With(e.protocols, m, protocol),
                         Extended(e.lookup, [c \in DOMAIN protocol.contracts |-> Metadata(m, protocol.contracts[c])]),
                         act, Extended(e.asts, entries),
                         IF entry = None THEN BaseForget(e.base, m) ELSE BaseCommit(e.base, m, entry))
              /\ DOMAIN act = DOMAIN e.active
              /\ \A c \in DOMAIN act : ActiveOK(act[c]) /\ act[c].text = e.active[c].text
<1> DEFINE slots == IF entry = None THEN BaseForget(e.base, m) ELSE BaseCommit(e.base, m, entry)
           p2 == With(e.protocols, m, protocol)
           l2 == Extended(e.lookup, [c \in DOMAIN protocol.contracts |-> Metadata(m, protocol.contracts[c])])
           a2 == [c \in DOMAIN e.active |->
                     IF c \in DOMAIN protocol.contracts
                     THEN IndexedContract(e.active[c], protocol.contracts[c]) ELSE e.active[c]]
           a3 == [c \in DOMAIN a2 |-> IF c \in saved THEN update_definitions(a2[c]) ELSE a2[c]]
           s0 == State(e.protocols, e.lookup, e.active, e.asts, slots)
           s1 == State(p2, l2, a2, e.asts, slots)
           t2 == Extended(e.asts, entries)
<1>1. [e EXCEPT !.base = slots] = s0
  <2> HIDE DEF slots
  <2> QED  BY Fields, SMT DEF State
<1>2. index_protocol(s0, m, protocol) = s1
  <2> HIDE DEF slots
  <2> QED  BY Indexing
<1>3. Commit(e, m, entry, protocol, entries, saved) =
          [index_protocol([e EXCEPT !.base = slots], m, protocol) EXCEPT
             !.asts = Extended(@, entries),
             !.active = [c \in DOMAIN @ |-> IF c \in saved THEN update_definitions(@[c]) ELSE @[c]]]
  BY Zenon DEF Commit
<1>4. Commit(e, m, entry, protocol, entries, saved) =
          [s1 EXCEPT
             !.asts = Extended(s1.asts, entries),
             !.active = [c \in DOMAIN s1.active |->
                            IF c \in saved THEN update_definitions(s1.active[c]) ELSE s1.active[c]]]
  <2> HIDE DEF s0, s1, slots
  <2> QED  BY <1>1, <1>2, <1>3, Zenon
<1>5. s1.asts = e.asts /\ s1.active = a2
  <2> HIDE DEF p2, l2, a2, slots
  <2> QED  BY DEF State
<1>6. Commit(e, m, entry, protocol, entries, saved) = [s1 EXCEPT !.asts = t2, !.active = a3]
  <2> HIDE DEF s1, a2
  <2> QED  BY <1>4, <1>5, Zenon
<1> HIDE DEF t2, a3
<1>7. [s1 EXCEPT !.asts = t2, !.active = a3] = [[s1 EXCEPT !.asts = t2] EXCEPT !.active = a3]
  <2>1. s1 \in [protocols : {p2}, lookup : {l2}, active : {a2}, asts : {e.asts}, base : {slots}]
    <3> HIDE DEF p2, l2, a2, slots
    <3> QED  BY DEF State
  <2> HIDE DEF s1
  <2> QED  BY <2>1, Zenon
<1>8. [[s1 EXCEPT !.asts = t2] EXCEPT !.active = a3] = State(p2, l2, a3, t2, slots)
  <2> HIDE DEF p2, l2, a2, slots
  <2>1. [s1 EXCEPT !.asts = t2] = State(p2, l2, a2, t2, slots)
    BY SMT DEF State
  <2>2. [State(p2, l2, a2, t2, slots) EXCEPT !.active = a3] = State(p2, l2, a3, t2, slots)
    BY SMT DEF State
  <2> HIDE DEF s1
  <2> QED  BY <2>1, <2>2, Zenon
<1>9. DOMAIN a3 = DOMAIN e.active /\ \A c \in DOMAIN a3 : ActiveOK(a3[c]) /\ a3[c].text = e.active[c].text
  <2>1. DOMAIN a2 = DOMAIN e.active /\ \A c \in DOMAIN a2 : ActiveOK(a2[c]) /\ a2[c].text = e.active[c].text
    BY Indexed, Zenon
  <2> HIDE DEF a2
  <2>2. DOMAIN a3 = DOMAIN a2 /\ \A c \in DOMAIN a3 : ActiveOK(a3[c]) /\ a3[c].text = a2[c].text
    BY <2>1, Defined, Zenon DEF a3
  <2> QED  BY <2>1, <2>2
<1> HIDE DEF s1, p2, l2, a2, slots
<1>10. Commit(e, m, entry, protocol, entries, saved) = State(p2, l2, a3, t2, slots)
  BY <1>6, <1>7, <1>8, Zenon
<1> QED  BY <1>9, <1>10 DEF p2, l2, t2, slots

-----------------------------------------------------------------------------
(* The caches. *)

LEMMA BaseFound ==
    ASSUME NEW base \in Seq(Slots), NEW m \in Manifests
    PROVE  BaseGet(base, m) \in Entries \cup {None}
<1>1. ASSUME BaseIndex(base, m) # {} PROVE (CHOOSE i \in BaseIndex(base, m) : TRUE) \in 1..Len(base)
  BY <1>1 DEF BaseIndex
<1>2. ASSUME NEW i \in 1..Len(base) PROVE base[i].entry \in Entries
  <2>1. base[i] \in Slots
    <3> HIDE DEF Slots
    <3> QED  OBVIOUS
  <2> QED  BY <2>1 DEF Slots
<1> QED  BY <1>1, <1>2 DEF BaseGet

LEMMA Prepared ==
    ASSUME NEW entry \in Entries \cup {None}, NEW m \in Manifests, NEW p \in Projects[m]
    PROVE  /\ prepared_session(entry, p).session = p.settings
           /\ prepared_session(entry, p).entry \in Entries \cup {None}
<1>1. p.settings \in Settings
  BY DEF Settings
<1>2. \A s \in Settings : [key |-> s, session |-> s] \in Entries
  BY DEF Entries
<1>3. ASSUME entry # None PROVE entry.key = entry.session
  BY <1>3 DEF Entries
<1> QED  BY <1>1, <1>2, <1>3 DEF prepared_session

LEMMA Forgotten ==
    ASSUME NEW base \in Seq(Slots), NEW m \in Manifests
    PROVE  BaseForget(base, m) \in Seq(Slots)
<1>1. CASE BaseIndex(base, m) = {}
  BY <1>1 DEF BaseForget
<1>2. CASE BaseIndex(base, m) # {}
  <2>1. PICK i \in 1..Len(base) : i = (CHOOSE k \in BaseIndex(base, m) : TRUE)
    BY <1>2 DEF BaseIndex
  <2>2. BaseForget(base, m) = SubSeq(base, 1, i - 1) \o SubSeq(base, i + 1, Len(base))
    BY <1>2, <2>1 DEF BaseForget, RemoveAt
  <2> HIDE DEF Slots
  <2>3. SubSeq(base, 1, i - 1) \in Seq(Slots) /\ SubSeq(base, i + 1, Len(base)) \in Seq(Slots)
    OBVIOUS
  <2> QED  BY <2>2, <2>3
<1> QED  BY <1>1, <1>2

LEMMA Stored ==
    ASSUME NEW base \in Seq(Slots), NEW m \in Manifests, NEW entry \in Entries
    PROVE  BaseCommit(base, m, entry) \in Seq(Slots)
<1> DEFINE room == IF BaseIndex(base, m) # {} THEN BaseForget(base, m)
                   ELSE IF Len(base) >= CAPACITY THEN Tail(base)
                   ELSE base
           slot == [manifest |-> m, entry |-> entry]
<1>1. room \in Seq(Slots)
  <2>1. Len(base) >= CAPACITY => base # <<>>
    BY EditorStateAssumption
  <2> HIDE DEF Slots
  <2> QED  BY <2>1, Forgotten
<1>2. slot \in Slots
  BY DEF Slots
<1>3. BaseCommit(base, m, entry) = Append(room, slot)
  BY DEF BaseCommit
<1> HIDE DEF room, slot, Slots
<1> QED  BY <1>1, <1>2, <1>3

\* A pass yields the parse of what it reads, whether it was cached or not.
IsAst(ast, source, version) ==
    ast = Ast(source, version, ast.deployer) /\ ast.deployer \in Deployers
LEMMA Reused ==
    ASSUME NEW asts, CacheOK(asts), NEW key, NEW source, NEW version,
           NEW deployer \in Deployers
    PROVE  LET entry == try_reuse(asts, key, source, version, deployer)
           IN  IsAst(entry.ast, source, version) /\ IsAst(entry.ast, entry.hash, entry.version)
<1>1. LET entry == CachedAst(source, version, deployer)
      IN  IsAst(entry.ast, source, version) /\ IsAst(entry.ast, entry.hash, entry.version)
  BY DEF CachedAst, IsAst, Ast
<1> QED  BY <1>1, Zenon DEF try_reuse, matches, CacheOK, IsAst

LEMMA Generated ==
    ASSUME NEW p, p.deployer \in Deployers, NEW files, NEW env, NEW asts, CacheOK(asts), NEW entries, CacheOK(entries)
    PROVE  LET all == Extended(entries, GenerateDeployment(p, files, env, asts))
           IN  /\ CacheOK(all)
               /\ \A c \in p.contracts :
                     IsAst(all[<<c, env>>].ast, SourceFor(files[c], env), p.version)
<1> DEFINE g == GenerateDeployment(p, files, env, asts)
           all == Extended(entries, g)
<1>1. DOMAIN g = p.contracts \X {env}
  BY DEF GenerateDeployment
<1>2. \A key \in DOMAIN g : 
         g[key] = try_reuse(asts, key, SourceFor(files[key[1]], env), p.version, p.deployer)
  BY DEF GenerateDeployment
<1> HIDE DEF g
<1>3. ASSUME NEW key \in DOMAIN g
      PROVE  /\ IsAst(g[key].ast, SourceFor(files[key[1]], env), p.version)
             /\ IsAst(g[key].ast, g[key].hash, g[key].version)
  <2> DEFINE source == SourceFor(files[key[1]], env)
  <2>1. g[key] = try_reuse(asts, key, source, p.version, p.deployer)
    BY <1>2
  <2> HIDE DEF source
  <2>2. LET entry == try_reuse(asts, key, source, p.version, p.deployer)
        IN  IsAst(entry.ast, source, p.version) /\ IsAst(entry.ast, entry.hash, entry.version)
    BY Reused
  <2> QED  BY <2>1, <2>2 DEF source
<1>4. DOMAIN all = DOMAIN g \cup DOMAIN entries
  BY DEF Extended
<1>5. \A key \in DOMAIN all : all[key] = IF key \in DOMAIN g THEN g[key] ELSE entries[key]
  BY DEF Extended
<1> HIDE DEF all
<1>6. CacheOK(all)
  BY <1>3, <1>4, <1>5, Zenon DEF CacheOK, IsAst
<1>7. ASSUME NEW c \in p.contracts
      PROVE  IsAst(all[<<c, env>>].ast, SourceFor(files[c], env), p.version)
  <2>1. <<c, env>> \in DOMAIN g /\ <<c, env>>[1] = c
    BY <1>1
  <2> QED  BY <1>3, <1>4, <1>5, <2>1
<1> QED  BY <1>6, <1>7 DEF all, g

-----------------------------------------------------------------------------
(* A buffer and the notifications about it.  Longer(q, q2, n) and Shorter(q,   *)
(* q2): the queue q2 is q with n at its end, or without its head.              *)

Longer(q, q2, n) ==
    \E N \in Nat : /\ DOMAIN q = 1..N /\ DOMAIN q2 = 1..(N + 1)
                   /\ \A i \in 1..N : q2[i] = q[i]
                   /\ q2[N + 1] = n
Shorter(q, q2) ==
    \E N \in Nat : /\ DOMAIN q = 1..(N + 1) /\ DOMAIN q2 = 1..N
                   /\ \A i \in 1..N : q2[i] = q[i + 1]

LEMMA AppendIsLonger ==
    ASSUME NEW q \in Seq(Notes), NEW n \in Notes
    PROVE  Longer(q, Append(q, n), n) /\ Append(q, n) \in Seq(Notes)
  BY DEF Longer

LEMMA TailIsShorter ==
    ASSUME NEW q \in Seq(Notes), q # <<>>
    PROVE  /\ Shorter(q, Tail(q)) /\ Tail(q) \in Seq(Notes)
           /\ Head(q) = q[1] /\ 1 \in DOMAIN q /\ q[1] \in Notes
<1>1. Tail(q) \in Seq(Notes) /\ Head(q) = q[1] /\ 1 \in DOMAIN q /\ q[1] \in Notes
  OBVIOUS
<1>2. PICK N \in Nat : Len(q) = N + 1
  <2>1. Len(q) \in Nat /\ Len(q) # 0
    OBVIOUS
  <2> QED  BY <2>1
<1>3. DOMAIN q = 1..(N + 1) /\ DOMAIN Tail(q) = 1..N /\ \A i \in 1..N : Tail(q)[i] = q[i + 1]
  BY <1>2
<1> QED  BY <1>1, <1>3 DEF Shorter

\* A notification about something else: another document, or a save.
LEMMA OthersAppend ==
    ASSUME NEW U, NEW U2, NEW q, NEW q2, NEW n, Longer(q, q2, n), NEW b, NEW f, NEW f2, f2 \in {f, b},
           NEW act, NEW at, NEW c, ~OfBuffer(n, c), c \in U => c \in U2,
           BufferOK(q, b, f, act, at, c, U)
    PROVE  BufferOK(q2, b, f2, act, at, c, U2)
<1>1. PICK N \in Nat : /\ DOMAIN q = 1..N /\ DOMAIN q2 = 1..(N + 1)
                       /\ \A i \in 1..N : q2[i] = q[i]
                       /\ q2[N + 1] = n
  BY DEF Longer
<1>2. ASSUME c \notin U2 PROVE TextOK(q2, b, f2, act, c)
  <2>0. TextOK(q, b, f, act, c)
    BY <1>2 DEF BufferOK
  <2>1. ASSUME \A i \in DOMAIN q2 : ~OfBuffer(q2[i], c), c \in DOMAIN act PROVE act[c].text = b
    BY <1>1, <2>0, <2>1 DEF TextOK
  <2>2. ASSUME NEW i \in DOMAIN q2, Newest(q2, i, c) PROVE i \in DOMAIN q /\ q2[i] = q[i] /\ Newest(q, i, c)
    BY <1>1, <2>2 DEF Newest
  <2> QED  BY <2>0, <2>1, <2>2 DEF TextOK
<1>3. TurnOK(q2, b, act, at, c)
  <2>1. \A i \in DOMAIN q2 : Is(q2[i], "didOpen", c) \/ Is(q2[i], "didClose", c) =>
            i \in DOMAIN q /\ q2[i] = q[i]
    BY <1>1 DEF Is, OfBuffer
  <2>2. DOMAIN q \subseteq DOMAIN q2 /\ \A i \in DOMAIN q : q2[i] = q[i]
    BY <1>1
  <2> QED  BY <2>1, <2>2 DEF BufferOK, TurnOK
<1> QED  BY <1>2, <1>3 DEF BufferOK

\* The contract is opened from the file, closed, or edited.
LEMMA OwnAppend ==
    ASSUME NEW U, NEW U2, NEW q, NEW q2, NEW n, Longer(q, q2, n), NEW b, NEW f, NEW b2, NEW act, NEW at, NEW c,
           n.uri = c,
           \/ n.method = "didOpen" /\ b = None /\ b2 # None /\ (b2 = f \/ c \in U2)
           \/ n.method = "didChange" /\ n.text = b2 /\ b2 # None
           \/ n.method = "didClose" /\ b2 = None,
           BufferOK(q, b, f, act, at, c, U)
    PROVE  BufferOK(q2, b2, f, act, at, c, U2)
<1>1. PICK N \in Nat : /\ DOMAIN q = 1..N /\ DOMAIN q2 = 1..(N + 1)
                       /\ \A i \in 1..N : q2[i] = q[i]
                       /\ q2[N + 1] = n
  BY DEF Longer
<1>2. OfBuffer(n, c)
  BY DEF OfBuffer
<1>3. ASSUME NEW i \in DOMAIN q2, Newest(q2, i, c) PROVE i = N + 1
  BY <1>1, <1>2, <1>3 DEF Newest
<1>4. ASSUME n.method = "didOpen", c \in DOMAIN act, N = 0 PROVE FALSE
  BY <1>1, <1>4 DEF BufferOK, TurnOK
<1>5. ASSUME c \notin U2 PROVE TextOK(q2, b2, f, act, c)
  BY <1>1, <1>2, <1>3, <1>4, <1>5 DEF TextOK
<1>6. TurnOK(q2, b2, act, at, c)
  <2>1. ASSUME NEW i \in DOMAIN q2, Is(q2[i], "didOpen", c), i > 1 \/ at \in {"idle", "opening"},
               c \in DOMAIN act
        PROVE  \E j \in DOMAIN q2 : j < i /\ Is(q2[j], "didClose", c)
    <3>1. CASE i = N + 1
      BY <1>1, <2>1, <3>1 DEF BufferOK, TurnOK, Is
    <3>2. CASE i \in DOMAIN q
      BY <1>1, <2>1, <3>2 DEF BufferOK, TurnOK
    <3> QED  BY <1>1, <3>1, <3>2
  <2>2. ASSUME NEW i \in DOMAIN q2, NEW k \in DOMAIN q2, i < k,
               Is(q2[i], "didOpen", c), Is(q2[k], "didOpen", c)
        PROVE  \E j \in DOMAIN q2 : i < j /\ j < k /\ Is(q2[j], "didClose", c)
    <3>1. CASE k = N + 1
      BY <1>1, <2>2, <3>1 DEF BufferOK, TurnOK, Is
    <3>2. CASE k \in DOMAIN q
      BY <1>1, <2>2, <3>2 DEF BufferOK, TurnOK
    <3> QED  BY <1>1, <3>1, <3>2
  <2>3. ASSUME b2 = None
        PROVE  /\ \E j \in DOMAIN q2 : Is(q2[j], "didClose", c)
               /\ \A i \in DOMAIN q2 : Is(q2[i], "didOpen", c) =>
                     \E j \in DOMAIN q2 : i < j /\ Is(q2[j], "didClose", c)
    BY <1>1, <2>3 DEF Is
  <2> QED  BY <2>1, <2>2, <2>3 DEF TurnOK
<1> QED  BY <1>5, <1>6 DEF BufferOK

\* A change that waits takes the newer text.
LEMMA Replaced ==
    ASSUME NEW U, NEW U2, NEW q \in Seq(Notes), NEW n \in Notes, n.method = "didChange", Superseded(q, n) # {},
           NEW q2, q2 = [i \in DOMAIN q |-> IF i \in Superseded(q, n) THEN n ELSE q[i]],
           NEW b, NEW f, NEW b2, NEW act, NEW at, NEW c,
           IF n.uri = c THEN n.text = b2 /\ b2 # None ELSE b2 = b /\ (c \in U => c \in U2),
           BufferOK(q, b, f, act, at, c, U)
    PROVE  BufferOK(q2, b2, f, act, at, c, U2)
<1>1. PICK k \in DOMAIN q : /\ k \in Superseded(q, n) /\ k > 1
                            /\ q[k].method = "didChange" /\ q[k].uri = n.uri
                            /\ \A j \in DOMAIN q : j > k => q[j].uri # n.uri
  <2>1. q \in Seq(Notes) /\ Superseded(q, n) # {}
    OBVIOUS
  <2>2. PICK k : k \in Superseded(q, n)
    BY <2>1
  <2>3. DOMAIN q = 1..Len(q) /\ Len(q) \in Nat
    BY <2>1
  <2>4. /\ k \in 2..Len(q) /\ q[k].method = "didChange" /\ q[k].uri = n.uri
        /\ \A j \in (k + 1)..Len(q) : q[j].uri # n.uri
    BY ONLY <2>2 DEF Superseded
  <2>5. k \in DOMAIN q /\ k > 1 /\ \A j \in DOMAIN q : j > k => j \in (k + 1)..Len(q)
    BY ONLY <2>3, <2>4
  <2> QED  BY ONLY <2>2, <2>4, <2>5
<1>2. \A i \in Superseded(q, n) :
         i \in DOMAIN q /\ q[i].uri = n.uri /\ \A j \in DOMAIN q : j > i => q[j].uri # n.uri
  <2>1. DOMAIN q = 1..Len(q) /\ Len(q) \in Nat
    <3>1. q \in Seq(Notes)
      OBVIOUS
    <3> QED  BY ONLY <3>1
  <2> TAKE i \in Superseded(q, n)
  <2>2. i \in Superseded(q, n)
    OBVIOUS
  <2>3. i \in 2..Len(q) /\ q[i].uri = n.uri /\ \A j \in (i + 1)..Len(q) : q[j].uri # n.uri
    BY ONLY <2>2 DEF Superseded
  <2>4. i \in DOMAIN q /\ \A j \in DOMAIN q : j > i => j \in (i + 1)..Len(q)
    BY ONLY <2>1, <2>3
  <2> QED  BY ONLY <2>3, <2>4
<1>3. Superseded(q, n) = {k}
  <2>1. DOMAIN q \subseteq Nat
    OBVIOUS
  <2>2. \A i \in Superseded(q, n) : ~(i < k) /\ ~(k < i)
    BY <1>1, <1>2, <2>1
  <2> QED  BY <1>1, <1>2, <2>1, <2>2
<1>4. DOMAIN q2 = DOMAIN q /\ q2[k] = n /\ \A i \in DOMAIN q : i # k => q2[i] = q[i]
  BY <1>3
<1>5. \A i \in DOMAIN q : OfBuffer(q2[i], c) <=> OfBuffer(q[i], c)
  BY <1>1, <1>4 DEF OfBuffer
<1>6. \A i \in DOMAIN q : /\ Is(q2[i], "didOpen", c) <=> Is(q[i], "didOpen", c)
                          /\ Is(q2[i], "didClose", c) <=> Is(q[i], "didClose", c)
  BY <1>1, <1>4 DEF Is
<1>7. \A i \in DOMAIN q : Newest(q2, i, c) <=> Newest(q, i, c)
  BY <1>4, <1>5 DEF Newest
<1>8. ASSUME c \notin U2 PROVE TextOK(q2, b2, f, act, c)
  <2>1. CASE n.uri = c
    <3>1. OfBuffer(q[k], c)
      BY <1>1, <2>1 DEF OfBuffer
    <3>2. \A i \in DOMAIN q : Newest(q, i, c) => i = k
      <4>1. DOMAIN q \subseteq Nat
        OBVIOUS
      <4>2. \A i \in DOMAIN q : Newest(q, i, c) => ~(k > i) /\ ~(i > k)
        BY <1>1, <2>1, <3>1 DEF Newest, OfBuffer
      <4> QED  BY <4>1, <4>2
    <3> QED  BY <1>4, <1>5, <1>7, <2>1, <3>1, <3>2 DEF TextOK
  <2>2. CASE n.uri # c
    <3>1. ~OfBuffer(q[k], c)
      BY <1>1, <2>2 DEF OfBuffer
    <3>2. \A i \in DOMAIN q : Newest(q, i, c) => q2[i] = q[i]
      BY <1>4, <3>1 DEF Newest
    <3> QED  BY <1>4, <1>5, <1>7, <1>8, <2>2, <3>2 DEF BufferOK, TextOK
  <2> QED  BY <2>1, <2>2
<1>9. TurnOK(q2, b2, act, at, c)
  BY <1>4, <1>6 DEF BufferOK, TurnOK
<1> QED  BY <1>8, <1>9 DEF BufferOK

\* The handler goes on and the open contracts keep their texts.
SameTexts(act, act2) ==
    DOMAIN act2 = DOMAIN act /\ \A c \in DOMAIN act : act2[c].text = act[c].text

LEMMA Ongoing ==
    ASSUME NEW U, NEW q, NEW b, NEW f, NEW act, NEW at, NEW at2, NEW c,
           at \in {"idle", "opening"} \/ at2 \notin {"idle", "opening"},
           BufferOK(q, b, f, act, at, c, U)
    PROVE  BufferOK(q, b, f, act, at2, c, U)
  BY DEF BufferOK, TurnOK

LEMMA HeadFacts ==
    ASSUME NEW q, NEW q2, Shorter(q, q2), NEW c
    PROVE  /\ \A i \in DOMAIN q2 : i + 1 \in DOMAIN q /\ q2[i] = q[i + 1] /\ i \in Nat \ {0}
           /\ \A i \in DOMAIN q : i = 1 \/ (i - 1 \in DOMAIN q2 /\ q2[i - 1] = q[i])
           /\ \A i \in DOMAIN q : i \in Nat \ {0}
           /\ \A i \in DOMAIN q2 : Newest(q2, i, c) <=> Newest(q, i + 1, c)
           /\ (\A i \in DOMAIN q2 : ~OfBuffer(q2[i], c)) /\ OfBuffer(q[1], c) => Newest(q, 1, c)
<1>1. PICK N \in Nat : /\ DOMAIN q = 1..(N + 1) /\ DOMAIN q2 = 1..N
                       /\ \A i \in 1..N : q2[i] = q[i + 1]
  BY DEF Shorter
<1>2. /\ \A i \in DOMAIN q2 : i + 1 \in DOMAIN q /\ q2[i] = q[i + 1] /\ i \in Nat \ {0}
      /\ \A i \in DOMAIN q : i = 1 \/ (i - 1 \in DOMAIN q2 /\ q2[i - 1] = q[i])
      /\ \A i \in DOMAIN q : i \in Nat \ {0}
  BY <1>1
<1>3. ASSUME NEW i \in DOMAIN q2 PROVE Newest(q2, i, c) <=> Newest(q, i + 1, c)
  BY <1>2 DEF Newest
<1>4. (\A i \in DOMAIN q2 : ~OfBuffer(q2[i], c)) /\ OfBuffer(q[1], c) => Newest(q, 1, c)
  BY <1>2 DEF Newest
<1> QED  BY <1>2, <1>3, <1>4

\* What a shorter queue keeps of the turns, when its head did not close.
LEMMA TurnsShift ==
    ASSUME NEW q, NEW q2, Shorter(q, q2), NEW b, NEW act, NEW act2, NEW at, NEW c,
           ~Is(q[1], "didClose", c), c \in DOMAIN act2 => c \in DOMAIN act,
           TurnOK(q, b, act, at, c)
    PROVE  TurnOK(q2, b, act2, "idle", c)
<1>1. /\ \A i \in DOMAIN q2 : i + 1 \in DOMAIN q /\ q2[i] = q[i + 1] /\ i \in Nat \ {0}
      /\ \A i \in DOMAIN q : i = 1 \/ (i - 1 \in DOMAIN q2 /\ q2[i - 1] = q[i])
      /\ \A i \in DOMAIN q : i \in Nat \ {0}
  BY HeadFacts
<1>2. \A j \in DOMAIN q : Is(q[j], "didClose", c) => j - 1 \in DOMAIN q2 /\ Is(q2[j - 1], "didClose", c)
  BY <1>1
<1>3. ASSUME NEW i \in DOMAIN q2, Is(q2[i], "didOpen", c), c \in DOMAIN act2
      PROVE  \E j \in DOMAIN q2 : j < i /\ Is(q2[j], "didClose", c)
  <2>1. i + 1 \in DOMAIN q /\ i + 1 > 1 /\ Is(q[i + 1], "didOpen", c)
    BY <1>1, <1>3
  <2>2. PICK j \in DOMAIN q : j < i + 1 /\ Is(q[j], "didClose", c)
    BY <1>3, <2>1 DEF TurnOK
  <2> QED  BY <1>1, <1>2, <2>2
<1>4. ASSUME NEW i \in DOMAIN q2, NEW k \in DOMAIN q2, i < k,
             Is(q2[i], "didOpen", c), Is(q2[k], "didOpen", c)
      PROVE  \E j \in DOMAIN q2 : i < j /\ j < k /\ Is(q2[j], "didClose", c)
  <2>1. i + 1 \in DOMAIN q /\ k + 1 \in DOMAIN q /\ i + 1 < k + 1
    BY <1>1, <1>4
  <2>2. PICK j \in DOMAIN q : i + 1 < j /\ j < k + 1 /\ Is(q[j], "didClose", c)
    BY <1>1, <1>4, <2>1 DEF TurnOK
  <2> QED  BY <1>1, <1>2, <2>2
<1>5. ASSUME b = None
      PROVE  /\ c \notin DOMAIN act2 \/ \E j \in DOMAIN q2 : Is(q2[j], "didClose", c)
             /\ \A i \in DOMAIN q2 : Is(q2[i], "didOpen", c) =>
                   \E j \in DOMAIN q2 : i < j /\ Is(q2[j], "didClose", c)
  <2>1. c \notin DOMAIN act2 \/ \E j \in DOMAIN q2 : Is(q2[j], "didClose", c)
    BY <1>2, <1>5 DEF TurnOK
  <2>2. ASSUME NEW i \in DOMAIN q2, Is(q2[i], "didOpen", c)
        PROVE  \E j \in DOMAIN q2 : i < j /\ Is(q2[j], "didClose", c)
    <3>1. PICK j \in DOMAIN q : i + 1 < j /\ Is(q[j], "didClose", c)
      BY <1>1, <1>5, <2>2 DEF TurnOK
    <3> QED  BY <1>1, <1>2, <3>1
  <2> QED  BY <2>1, <2>2
<1> QED  BY <1>3, <1>4, <1>5 DEF TurnOK

\* The notification that was handled is not about the buffer.
LEMMA OthersHandled ==
    ASSUME NEW U, NEW q, NEW q2, Shorter(q, q2), NEW b, NEW f, NEW act, NEW act2, NEW at, NEW c,
           ~OfBuffer(q[1], c),
           c \in DOMAIN act2 => c \in DOMAIN act /\ act2[c].text = act[c].text,
           BufferOK(q, b, f, act, at, c, U)
    PROVE  BufferOK(q2, b, f, act2, "idle", c, U)
<1>0. /\ \A i \in DOMAIN q2 : i \in Nat
      /\ \A i \in DOMAIN q2 : /\ i + 1 \in DOMAIN q /\ q2[i] = q[i + 1]
                              /\ Newest(q2, i, c) => Newest(q, i + 1, c)
  BY HeadFacts
<1>1. TurnOK(q2, b, act2, "idle", c)
  BY TurnsShift DEF BufferOK, Is, OfBuffer
<1>2. ASSUME c \notin U, \A i \in DOMAIN q2 : ~OfBuffer(q2[i], c), c \in DOMAIN act2 PROVE act2[c].text = b
  <2>1. \A i \in DOMAIN q : ~OfBuffer(q[i], c)
    BY <1>2, HeadFacts
  <2> QED  BY <1>2, <2>1 DEF BufferOK, TextOK
<1>3. ASSUME c \notin U, NEW i \in DOMAIN q2, Newest(q2, i, c)
      PROVE  /\ q2[i].method = "didChange" => q2[i].text = b
             /\ q2[i].method = "didOpen" =>
                   b = f /\ (i = 1 /\ c \in DOMAIN act2 => act2[c].text = b)
  <2>0. i \in Nat
    BY <1>0
  <2>1. i + 1 \in DOMAIN q /\ q2[i] = q[i + 1] /\ Newest(q, i + 1, c) /\ i \in Nat
    BY <1>0, <1>3, <2>0
  <2>2. ASSUME q2[i].method = "didOpen", i = 1, c \in DOMAIN act2 PROVE FALSE
    <3>1. Is(q2[1], "didOpen", c)
      BY <1>3, <2>2 DEF Newest, OfBuffer, Is
    <3>2. PICK j \in DOMAIN q2 : j < 1 /\ Is(q2[j], "didClose", c)
      BY <1>1, <1>3, <2>2, <3>1 DEF TurnOK
    <3> QED  BY <3>2, HeadFacts
  <2> QED  BY <1>3, <2>1, <2>2 DEF BufferOK, TextOK
<1> QED  BY <1>1, <1>2, <1>3 DEF BufferOK, TextOK

\* A contract was opened: it has the text of its file.
LEMMA OpenRead ==
    ASSUME NEW U, NEW q, NEW N \in Nat, DOMAIN q = 1..N, NEW b, NEW f, NEW act, NEW act2, NEW c,
           1 \in DOMAIN q, Is(q[1], "didOpen", c),
           c \in DOMAIN act2, act2[c].text = f,
           BufferOK(q, b, f, act, "opening", c, U)
    PROVE  BufferOK(q, b, f, act2, "building", c, U)
<1>1. ASSUME c \notin U PROVE TextOK(q, b, f, act2, c)
  <2>1. OfBuffer(q[1], c)
    BY DEF Is, OfBuffer
  <2> QED  BY <1>1, <2>1 DEF BufferOK, TextOK
<1>2. TurnOK(q, b, act2, "building", c)
  <2>1. ASSUME NEW i \in DOMAIN q, Is(q[i], "didOpen", c), i > 1
        PROVE  \E j \in DOMAIN q : j < i /\ Is(q[j], "didClose", c)
    BY <2>1 DEF BufferOK, TurnOK
  <2> QED  BY <2>1 DEF BufferOK, TurnOK
<1> QED  BY <1>1, <1>2 DEF BufferOK

\* The build after an opening has ended.
LEMMA OpenDone ==
    ASSUME NEW U, NEW q, NEW q2, Shorter(q, q2), NEW b, NEW f, NEW act, NEW act2, NEW at, NEW c,
           1 \in DOMAIN q, Is(q[1], "didOpen", c), SameTexts(act, act2),
           BufferOK(q, b, f, act, at, c, U)
    PROVE  BufferOK(q2, b, f, act2, "idle", c, U)
<1>0. OfBuffer(q[1], c) /\ ~Is(q[1], "didClose", c) /\ q[1].method = "didOpen"
  BY DEF OfBuffer, Is
<1>1. TurnOK(q2, b, act2, "idle", c)
  BY <1>0, TurnsShift DEF BufferOK, SameTexts
<1>2. ASSUME c \notin U, \A i \in DOMAIN q2 : ~OfBuffer(q2[i], c), c \in DOMAIN act2 PROVE act2[c].text = b
  <2>1. Newest(q, 1, c)
    BY <1>0, <1>2, HeadFacts
  <2> QED  BY <1>0, <1>2, <2>1 DEF BufferOK, TextOK, SameTexts
<1>3. ASSUME c \notin U, NEW i \in DOMAIN q2, Newest(q2, i, c)
      PROVE  /\ q2[i].method = "didChange" => q2[i].text = b
             /\ q2[i].method = "didOpen" =>
                   b = f /\ (i = 1 /\ c \in DOMAIN act2 => act2[c].text = b)
  <2>1. i + 1 \in DOMAIN q /\ q2[i] = q[i + 1] /\ Newest(q, i + 1, c) /\ i \in Nat
    BY <1>3, HeadFacts
  <2>2. ASSUME q2[i].method = "didOpen", i = 1, c \in DOMAIN act2 PROVE FALSE
    <3>1. Is(q2[1], "didOpen", c)
      BY <1>3, <2>2 DEF Newest, OfBuffer, Is
    <3>2. PICK j \in DOMAIN q2 : j < 1 /\ Is(q2[j], "didClose", c)
      BY <1>1, <1>3, <2>2, <3>1 DEF TurnOK
    <3> QED  BY <3>2, HeadFacts
  <2> QED  BY <1>3, <2>1, <2>2 DEF BufferOK, TextOK
<1> QED  BY <1>1, <1>2, <1>3 DEF BufferOK, TextOK

LEMMA ChangeHandled ==
    ASSUME NEW U, NEW q, NEW q2, Shorter(q, q2), NEW b, NEW f, NEW act, NEW act2, NEW at, NEW c,
           1 \in DOMAIN q, Is(q[1], "didChange", c),
           c \in DOMAIN act2 => c \in DOMAIN act /\ act2[c].text = q[1].text,
           BufferOK(q, b, f, act, at, c, U)
    PROVE  BufferOK(q2, b, f, act2, "idle", c, U)
<1>4. \A i \in DOMAIN q2 : /\ i \in Nat /\ i + 1 \in DOMAIN q /\ q2[i] = q[i + 1]
                           /\ Newest(q2, i, c) => Newest(q, i + 1, c)
  <2>1. /\ \A i \in DOMAIN q2 : i + 1 \in DOMAIN q /\ q2[i] = q[i + 1] /\ i \in Nat \ {0}
        /\ \A i \in DOMAIN q2 : Newest(q2, i, c) <=> Newest(q, i + 1, c)
    BY HeadFacts
  <2> QED  BY ONLY <2>1
<1>0. OfBuffer(q[1], c) /\ ~Is(q[1], "didClose", c) /\ q[1].method = "didChange"
  BY DEF OfBuffer, Is
<1>1. TurnOK(q2, b, act2, "idle", c)
  BY <1>0, TurnsShift DEF BufferOK
<1>2. ASSUME c \notin U, \A i \in DOMAIN q2 : ~OfBuffer(q2[i], c), c \in DOMAIN act2 PROVE act2[c].text = b
  <2>1. Newest(q, 1, c)
    BY <1>0, <1>2, HeadFacts
  <2> QED  BY <1>0, <1>2, <2>1 DEF BufferOK, TextOK
<1>3. ASSUME c \notin U, NEW i \in DOMAIN q2, Newest(q2, i, c)
      PROVE  /\ q2[i].method = "didChange" => q2[i].text = b
             /\ q2[i].method = "didOpen" =>
                   b = f /\ (i = 1 /\ c \in DOMAIN act2 => act2[c].text = b)
  <2>1. i + 1 \in DOMAIN q /\ q2[i] = q[i + 1] /\ Newest(q, i + 1, c) /\ i \in Nat
    BY <1>4, <1>3, Zenon
  <2>2. ASSUME q2[i].method = "didOpen", i = 1, c \in DOMAIN act2 PROVE FALSE
    <3>1. Is(q2[1], "didOpen", c)
      BY <1>3, <2>2 DEF Newest, OfBuffer, Is
    <3>2. PICK j \in DOMAIN q2 : j < 1 /\ Is(q2[j], "didClose", c)
      BY <1>1, <1>3, <2>2, <3>1 DEF TurnOK
    <3> QED  BY <3>2, HeadFacts
  <2> QED  BY <1>3, <2>1, <2>2 DEF BufferOK, TextOK
<1> QED  BY <1>1, <1>2, <1>3 DEF BufferOK, TextOK

LEMMA CloseHandled ==
    ASSUME NEW U, NEW q, NEW q2, Shorter(q, q2), NEW b, NEW f, NEW act, NEW act2, NEW at, NEW c,
           1 \in DOMAIN q, Is(q[1], "didClose", c), c \notin DOMAIN act2,
           BufferOK(q, b, f, act, at, c, U)
    PROVE  BufferOK(q2, b, f, act2, "idle", c, U)
<1>1. /\ \A i \in DOMAIN q2 : i + 1 \in DOMAIN q /\ q2[i] = q[i + 1] /\ i \in Nat \ {0}
      /\ \A i \in DOMAIN q : i = 1 \/ (i - 1 \in DOMAIN q2 /\ q2[i - 1] = q[i])
      /\ \A i \in DOMAIN q : i \in Nat \ {0}
  BY HeadFacts
<1>2. ASSUME c \notin U PROVE TextOK(q2, b, f, act2, c)
  BY <1>2, HeadFacts DEF BufferOK, TextOK
<1>3. ASSUME NEW i \in DOMAIN q2, NEW k \in DOMAIN q2, i < k,
             Is(q2[i], "didOpen", c), Is(q2[k], "didOpen", c)
      PROVE  \E j \in DOMAIN q2 : i < j /\ j < k /\ Is(q2[j], "didClose", c)
  <2>1. i + 1 \in DOMAIN q /\ k + 1 \in DOMAIN q /\ i + 1 < k + 1
    BY <1>1, <1>3
  <2>2. PICK j \in DOMAIN q : i + 1 < j /\ j < k + 1 /\ Is(q[j], "didClose", c)
    BY <1>1, <1>3, <2>1 DEF BufferOK, TurnOK
  <2>3. j - 1 \in DOMAIN q2 /\ q2[j - 1] = q[j] /\ i < j - 1 /\ j - 1 < k
    BY <1>1, <2>2
  <2> QED  BY <2>2, <2>3
<1>4. ASSUME b = None, NEW i \in DOMAIN q2, Is(q2[i], "didOpen", c)
      PROVE  \E j \in DOMAIN q2 : i < j /\ Is(q2[j], "didClose", c)
  <2>1. PICK j \in DOMAIN q : i + 1 < j /\ Is(q[j], "didClose", c)
    BY <1>1, <1>4 DEF BufferOK, TurnOK
  <2>2. j - 1 \in DOMAIN q2 /\ q2[j - 1] = q[j] /\ i < j - 1
    BY <1>1, <2>1
  <2> QED  BY <2>1, <2>2
<1>5. TurnOK(q2, b, act2, "idle", c)
  BY <1>3, <1>4 DEF TurnOK
<1> QED  BY <1>2, <1>5 DEF BufferOK

-----------------------------------------------------------------------------
(* The analysed projects. *)

\* Nothing was analysed, and every save is current, was pending or is now.
LEMMA ProjectsKept ==
    ASSUME NEW P, NEW L, NEW D, NEW q, NEW q2, NEW F, NEW F2, NEW at, NEW at2,
           ProjectsOK(P, L, D, q, F, at),
           \A c \in DOMAIN L : \/ Pending(q2, at2, c)
                               \/ F2[c] = F[c] /\ (Pending(q, at, c) => Pending(q2, at2, c))
    PROVE  ProjectsOK(P, L, D, q2, F2, at2)
<1>1. ASSUME NEW m \in DOMAIN P PROVE ProjectOK(m, P[m], L, D, q2, F2, at2)
  <2>1. ProjectOK(m, P[m], L, D, q, F, at)
    BY DEF ProjectsOK
  <2>2. ASSUME NEW c \in DOMAIN P[m].contracts
        PROVE  Current(P[m], c, F2) \/ Pending(q2, at2, c)
    <3>1. c \in DOMAIN L /\ (Current(P[m], c, F) \/ Pending(q, at, c))
      BY <2>1 DEF ProjectOK
    <3>2. F2[c] = F[c] => (Current(P[m], c, F) => Current(P[m], c, F2))
      BY Zenon DEF Current
    <3> QED  BY <3>1, <3>2
  <2> QED  BY <2>1, <2>2 DEF ProjectOK
<1> QED  BY <1>1 DEF ProjectsOK

\* Some entries of a map are gone.
Part(f2, f) == DOMAIN f2 \subseteq DOMAIN f /\ \A x \in DOMAIN f2 : f2[x] = f[x]
\* The saves of other contracts are pending as before.
StillPending(q, at, q2, at2, c) ==
    \A d : d # c => (Pending(q, at, d) => Pending(q2, at2, d))
\* No project has the contract, and all of theirs are found.
Forgets(P, L, c) ==
    \A m \in DOMAIN P : c \notin DOMAIN P[m].contracts /\ DOMAIN P[m].contracts \subseteq DOMAIN L

\* A saved contract: the project it belongs to is forgotten.
LEMMA ProjectCleared ==
    ASSUME NEW P, NEW L, NEW D, NEW P2, NEW L2, NEW q, NEW q2, NEW F, NEW at, NEW at2, NEW c,
           ProjectsOK(P, L, D, q, F, at),
           Part(P2, P), Part(L2, L), Forgets(P2, L2, c), StillPending(q, at, q2, at2, c)
    PROVE  ProjectsOK(P2, L2, D, q2, F, at2)
<1>1. ASSUME NEW m \in DOMAIN P2 PROVE ProjectOK(m, P2[m], L2, D, q2, F, at2)
  <2>1. ProjectOK(m, P2[m], L, D, q, F, at) /\ m \in DOMAIN P
    BY DEF ProjectsOK, Part
  <2>2. ASSUME NEW d \in DOMAIN P2[m].contracts
        PROVE  d \in DOMAIN L2 /\ (Current(P2[m], d, F) \/ Pending(q2, at2, d))
    <3>1. d # c /\ d \in DOMAIN L2
      BY <1>1 DEF Forgets
    <3> QED  BY <2>1, <3>1 DEF ProjectOK, StillPending
  <2> QED  BY <2>1, <2>2 DEF ProjectOK
<1> QED  BY <1>1 DEF ProjectsOK, Part

\* What was built describes the files and is of one project.
Describes(p, m, F) ==
    /\ p.session = p.settings
    /\ \A c \in DOMAIN p.contracts :
          c \in Contracts /\ Owner(c) = m /\ p.contracts[c].ast # None /\ Current(p, c, F)
\* Its contracts are found under their manifest.
Listed(L, L2, m, p) ==
    /\ DOMAIN L2 = DOMAIN L \cup DOMAIN p.contracts
    /\ \A c \in DOMAIN p.contracts : L2[c].manifest = m
    /\ \A c \in DOMAIN L \ DOMAIN p.contracts : L2[c] = L[c]
PendingKept(q, at, q2) == \A c : Pending(q, at, c) => Pending(q2, "idle", c)

\* A build is committed and shown.
LEMMA ProjectBuilt ==
    ASSUME NEW P, NEW L, NEW D, NEW q, NEW q2, NEW F, NEW at, NEW m \in Manifests, NEW p,
           ProjectsOK(P, L, D, q, F, at), Describes(p, m, F), PendingKept(q, at, q2),
           NEW after, after.protocols = With(P, m, p), Listed(L, after.lookup, m, p)
    PROVE  /\ NotInLookup(after) = {}
           /\ ProjectsOK(after.protocols, after.lookup, AggregatedDiagnostics(after, D), q2, F, "idle")
<1> DEFINE P2 == after.protocols
           L2 == after.lookup
           D2 == AggregatedDiagnostics(after, D)
<1>1. DOMAIN P2 = DOMAIN P \cup {m} /\ P2[m] = p /\ \A x \in DOMAIN P \ {m} : P2[x] = P[x]
  BY DEF With, Extended
<1>2. /\ DOMAIN L2 = DOMAIN L \cup DOMAIN p.contracts
      /\ \A c \in DOMAIN p.contracts : L2[c].manifest = m
      /\ \A c \in DOMAIN L \ DOMAIN p.contracts : L2[c] = L[c]
  BY DEF Listed
<1>3. after.protocols = P2 /\ after.lookup = L2
  OBVIOUS
<1> HIDE DEF P2, L2
<1>4. ASSUME NEW x \in DOMAIN P2, NEW c \in DOMAIN P2[x].contracts
      PROVE  /\ c \in Contracts /\ Owner(c) = x /\ c \in DOMAIN L2
             /\ P2[x].contracts[c].ast # None
             /\ Current(P2[x], c, F) \/ Pending(q2, "idle", c)
  <2>1. CASE x = m
    BY <1>1, <1>2, <1>4, <2>1 DEF Describes
  <2>2. CASE x # m
    <3>1. x \in DOMAIN P /\ P2[x] = P[x] /\ ProjectOK(x, P[x], L, D, q, F, at)
      BY <1>1, <2>2 DEF ProjectsOK
    <3> QED  BY <1>2, <1>4, <3>1 DEF ProjectOK, PendingKept
  <2> QED  BY <2>1, <2>2
<1>5. ASSUME NEW x \in DOMAIN P2, NEW c \in DOMAIN P2[x].contracts
      PROVE  D2[c].ast = P2[x].contracts[c].ast
  <2> DEFINE of == {y \in DOMAIN P2 : c \in DOMAIN P2[y].contracts}
             r == Reported(after, c)
  <2>1. of = {x}
    BY <1>4, <1>5
  <2>2. (CHOOSE y \in of : TRUE) = x /\ of # {}
    BY <2>1
  <2>3. r.ast = IF of = {} THEN None ELSE P2[CHOOSE y \in of : TRUE].contracts[c].ast
    BY <1>3 DEF Reported
  <2>4. r.ast = P2[x].contracts[c].ast /\ r.ast # None
    <3>1. P2[x].contracts[c].ast # None
      BY <1>4, <1>5
    <3> HIDE DEF of, r
    <3> QED  BY <2>2, <2>3, <3>1
  <2>5. r # [ast |-> None, hint |-> FALSE]
    <3> HIDE DEF r
    <3> QED  BY <2>4
  <2>6. c \in Contracts
    BY <1>4, <1>5
  <2>7. D2[c] = IF r = [ast |-> None, hint |-> FALSE] THEN D[c] ELSE r
    BY <2>6, Zenon DEF AggregatedDiagnostics
  <2> HIDE DEF r, D2
  <2> QED  BY <2>4, <2>5, <2>7
<1> HIDE DEF D2
<1>6. NotInLookup(after) = {}
  BY <1>3, <1>4 DEF NotInLookup
<1>7. ASSUME NEW x \in DOMAIN P2 PROVE ProjectOK(x, P2[x], L2, D2, q2, F, "idle")
  <2>1. P2[x].session = P2[x].settings /\ x \in Manifests
    <3>1. CASE x = m
      BY <1>1, <3>1 DEF Describes
    <3>2. CASE x # m
      BY <1>1, <1>7, <3>2 DEF ProjectsOK, ProjectOK
    <3> QED  BY <3>1, <3>2
  <2> QED  BY <1>4, <1>5, <2>1 DEF ProjectOK
<1>8. \A c \in DOMAIN L2 : c \in Contracts /\ L2[c].manifest = Owner(c) /\ Owner(c) \in Manifests
  BY <1>2 DEF ProjectsOK, Describes
<1>9. ProjectsOK(P2, L2, D2, q2, F, "idle")
  BY <1>7, <1>8 DEF ProjectsOK
<1> QED  BY <1>6, <1>9 DEF P2, L2, D2

-----------------------------------------------------------------------------
(* The queue. *)

\* What onNotification does to a queue.
Noted(q, q2, n) ==
    \/ /\ Superseded(q, n) # {}
       /\ q2 = [i \in DOMAIN q |-> IF i \in Superseded(q, n) THEN n ELSE q[i]]
    \/ Superseded(q, n) = {} /\ q2 = Append(q, n)

LEMMA NotedIsQueue ==
    ASSUME NEW q \in Seq(Notes), NEW n \in Notes, NEW q2, Noted(q, q2, n)
    PROVE  q2 \in Seq(Notes)
<1>1. CASE Superseded(q, n) = {} /\ q2 = Append(q, n)
  BY <1>1
<1>2. CASE q2 = [i \in DOMAIN q |-> IF i \in Superseded(q, n) THEN n ELSE q[i]]
  <2>1. PICK N \in Nat : DOMAIN q = 1..N
    <3>1. Len(q) \in Nat /\ DOMAIN q = 1..Len(q)
      OBVIOUS
    <3> QED  BY <3>1
  <2>2. \A i \in DOMAIN q : q[i] \in Notes
    OBVIOUS
  <2>3. q2 \in [1..N -> Notes]
    BY <1>2, <2>1, <2>2
  <2> QED  BY <2>3, SeqDef
<1> QED  BY <1>1, <1>2 DEF Noted

\* The head of the queue and the pending saves stay, and a save is pending.
LEMMA NotedKeeps ==
    ASSUME NEW q \in Seq(Notes), NEW n \in Notes, NEW q2, Noted(q, q2, n), NEW t, TaskOK(t, q)
    PROVE  /\ TaskOK(t, q2)
           /\ \A c : Pending(q, t.at, c) => Pending(q2, t.at, c)
           /\ n.method = "didSave" => Pending(q2, t.at, n.uri)
<1>1. CASE Superseded(q, n) = {} /\ q2 = Append(q, n)
  <2>1. PICK N \in Nat : /\ DOMAIN q = 1..N /\ DOMAIN q2 = 1..(N + 1)
                         /\ \A i \in 1..N : q2[i] = q[i]
                         /\ q2[N + 1] = n
    BY <1>1, AppendIsLonger DEF Longer
  <2>2. q # <<>> => N > 0
    BY <2>1
  <2>3. q2 # <<>>
    BY <1>1
  <2>4. TaskOK(t, q2)
    BY <2>1, <2>2, <2>3 DEF TaskOK
  <2>5. \A c : Pending(q, t.at, c) => Pending(q2, t.at, c)
    BY <2>1 DEF Pending
  <2>6. n.method = "didSave" => Pending(q2, t.at, n.uri)
    <3>1. N + 1 > 1 \/ t.at = "idle"
      <4>1. N = 0 => q = <<>>
        BY <2>1
      <4> QED  BY <2>1, <4>1 DEF TaskOK
    <3> QED  BY <2>1, <3>1 DEF Pending, Is
  <2> QED  BY <2>4, <2>5, <2>6
<1>2. CASE Superseded(q, n) # {} /\ q2 = [i \in DOMAIN q |-> IF i \in Superseded(q, n) THEN n ELSE q[i]]
  <2>1. n.method = "didChange" /\ \A i \in Superseded(q, n) : i > 1 /\ q[i].method = "didChange" /\ i \in DOMAIN q
    BY <1>2 DEF Superseded
  <2>2. DOMAIN q2 = DOMAIN q /\ \A i \in DOMAIN q : i \notin Superseded(q, n) => q2[i] = q[i]
    BY <1>2
  <2>3. q2[1] = q[1] /\ q2 # <<>>
    <3>1. 1 \in DOMAIN q /\ 1 \notin Superseded(q, n)
      BY <1>2, <2>1
    <3> QED  BY <2>2, <3>1
  <2>4. TaskOK(t, q2)
    BY <2>3 DEF TaskOK
  <2>5. \A c : Pending(q, t.at, c) => Pending(q2, t.at, c)
    BY <2>1, <2>2 DEF Pending, Is
  <2> QED  BY <2>1, <2>4, <2>5
<1> QED  BY <1>1, <1>2 DEF Noted

\* The buffer of c after a notification about another document or a save.
LEMMA NotedElsewhere ==
    ASSUME NEW U, NEW U2, NEW q \in Seq(Notes), NEW n \in Notes, NEW q2, Noted(q, q2, n),
           NEW b, NEW f, NEW f2, f2 \in {f, b}, f2 = f \/ n.method # "didChange",
           NEW act, NEW at, NEW c,
           ~OfBuffer(n, c), c \in U => c \in U2, BufferOK(q, b, f, act, at, c, U)
    PROVE  BufferOK(q2, b, f2, act, at, c, U2)
<1>1. CASE Superseded(q, n) = {} /\ q2 = Append(q, n)
  <2>1. Longer(q, q2, n)
    BY <1>1, AppendIsLonger
  <2> QED  BY <2>1, OthersAppend
<1>2. CASE Superseded(q, n) # {} /\ q2 = [i \in DOMAIN q |-> IF i \in Superseded(q, n) THEN n ELSE q[i]]
  <2>1. n.method = "didChange"
    BY <1>2 DEF Superseded
  <2>2. n.uri # c
    BY <2>1 DEF OfBuffer
  <2> QED  BY <1>2, <2>1, <2>2, Replaced
<1> QED  BY <1>1, <1>2 DEF Noted

\* The buffer of c after a notification about itself.
LEMMA NotedHere ==
    ASSUME NEW U, NEW U2, NEW q \in Seq(Notes), NEW n \in Notes, NEW q2, Noted(q, q2, n),
           NEW b, NEW b2, NEW f, NEW act, NEW at, NEW c, n.uri = c,
           \/ n.method = "didOpen" /\ b = None /\ b2 # None /\ (b2 = f \/ c \in U2)
           \/ n.method = "didChange" /\ n.text = b2 /\ b2 # None
           \/ n.method = "didClose" /\ b2 = None,
           BufferOK(q, b, f, act, at, c, U)
    PROVE  BufferOK(q2, b2, f, act, at, c, U2)
<1>1. CASE Superseded(q, n) = {} /\ q2 = Append(q, n)
  <2>1. Longer(q, q2, n)
    BY <1>1, AppendIsLonger
  <2> QED  BY <2>1, OwnAppend
<1>2. CASE Superseded(q, n) # {} /\ q2 = [i \in DOMAIN q |-> IF i \in Superseded(q, n) THEN n ELSE q[i]]
  <2>1. n.method = "didChange"
    BY <1>2 DEF Superseded
  <2>2. n.text = b2 /\ b2 # None
    BY <2>1
  <2> QED  BY <1>2, <2>1, <2>2, Replaced
<1> QED  BY <1>1, <1>2 DEF Noted

-----------------------------------------------------------------------------
(* The steps of the user. *)

LEMMA UserKeeps ==
    ASSUME IInv, NEW n \in Notes, onNotification(n), UNCHANGED <<task, es, shown, panicked>>,
           Acts,
           disk' \in [Contracts -> Texts],
           project' \in [Manifests -> UNION {Projects[m] : m \in Manifests}],
           \A m \in Manifests : project'[m] \in Projects[m],
           buffer' \in [Contracts -> Texts \cup {None}], unsaved' \subseteq Contracts,
           \A c \in Contracts :
              /\ disk'[c] = disk[c] \/ (Is(n, "didSave", c) /\ disk'[c] \in {disk[c], buffer[c]})
              /\ IF OfBuffer(n, c)
                 THEN \/ n.method = "didOpen" /\ buffer[c] = None /\ buffer'[c] # None
                         /\ (buffer'[c] = disk[c] \/ c \in unsaved')
                      \/ n.method = "didChange" /\ n.text = buffer'[c] /\ buffer'[c] # None
                      \/ n.method = "didClose" /\ buffer'[c] = None
                 ELSE buffer'[c] = buffer[c] /\ (c \in unsaved => c \in unsaved')
    PROVE  IInv'
<1> DEFINE old == Superseded(queue, n)
<1>1. PICK q, q2, t : q = queue /\ q2 = queue' /\ t = task
  OBVIOUS
<1>2. q \in Seq(Notes) /\ TaskOK(t, q) /\ Noted(q, q2, n)
  BY <1>1 DEF IInv, ClientOK, onNotification, Noted
<1>3. q2 \in Seq(Notes)
  BY <1>2, NotedIsQueue
<1>4. Len(q2) <= MaxQueue
  <2>1. Len(q) <= MaxQueue /\ MaxQueue \in Nat
    BY <1>1, ServerAssumption DEF IInv, ClientOK
  <2>2. CASE old # {}
    <3>1. q2 = [i \in DOMAIN q |-> IF i \in Superseded(q, n) THEN n ELSE q[i]]
      BY <1>1, <2>2 DEF onNotification
    <3>2. DOMAIN q2 = DOMAIN q
      BY <3>1
    <3>3. Len(q2) = Len(q)
      BY <1>2, <1>3, <3>2, LenProperties
    <3> QED  BY <2>1, <3>3
  <2>3. CASE old = {}
    <3>1. q2 = Append(q, n) /\ Len(q) < MaxQueue
      BY <1>1, <2>3 DEF onNotification
    <3>2. Len(q2) = Len(q) + 1 /\ Len(q) \in Nat
      BY <1>2, <3>1
    <3> QED  BY <2>1, <3>1, <3>2
  <2> QED  BY <2>2, <2>3
<1>5. ClientOK'
  <2>1. edits' \in 0..MaxEdits
    BY ServerAssumption DEF Acts, IInv, ClientOK
  <2> QED  BY <1>1, <1>3, <1>4, <2>1 DEF IInv, ClientOK
<1>6. /\ TaskOK(t, q2)
      /\ \A c : Pending(q, t.at, c) => Pending(q2, t.at, c)
      /\ n.method = "didSave" => Pending(q2, t.at, n.uri)
  BY <1>2, NotedKeeps
<1>7. ASSUME NEW c \in Contracts
      PROVE  BufferOK(queue', buffer'[c], disk'[c], es'.active, task'.at, c, unsaved')
  <2>1. PICK b, b2, f, f2, act, at, U, U2 :
          /\ U = unsaved /\ U2 = unsaved'
          /\ b = buffer[c] /\ b2 = buffer'[c] /\ f = disk[c] /\ f2 = disk'[c]
          /\ act = es.active /\ at = task.at
    OBVIOUS
  <2>2. BufferOK(q, b, f, act, at, c, U)
    <3>1. BufferOK(queue, buffer[c], disk[c], es.active, task.at, c, unsaved)
      BY DEF IInv
    <3> QED  BY <1>1, <2>1, <3>1
  <2>3. CASE OfBuffer(n, c)
    <3>1. n.uri = c /\ f2 = f
      BY <2>1, <2>3 DEF OfBuffer, Is
    <3>2. \/ n.method = "didOpen" /\ b = None /\ b2 # None /\ (b2 = f \/ c \in U2)
          \/ n.method = "didChange" /\ n.text = b2 /\ b2 # None
          \/ n.method = "didClose" /\ b2 = None
      BY <2>1, <2>3
    <3>3. BufferOK(q2, b2, f, act, at, c, U2)
      BY <1>2, <2>2, <3>1, <3>2, NotedHere
    <3> QED  BY <1>1, <2>1, <3>1, <3>3
  <2>4. CASE ~OfBuffer(n, c)
    <3>1. b2 = b /\ (c \in U => c \in U2) /\ f2 \in {f, b} /\ (f2 = f \/ n.method # "didChange")
      BY <2>1, <2>4 DEF Is
    <3>2. BufferOK(q2, b, f2, act, at, c, U2)
      BY <1>2, <2>2, <2>4, <3>1, NotedElsewhere
    <3> QED  BY <1>1, <2>1, <3>1, <3>2
  <2> QED  BY <2>3, <2>4
<1>8. ProjectsOK(es'.protocols, es'.lookup, shown', queue', disk', task'.at)
  <2>1. PICK P, L, D, F, F2 : /\ P = es.protocols /\ L = es.lookup /\ D = shown
                              /\ F = disk /\ F2 = disk'
    OBVIOUS
  <2>2. ProjectsOK(P, L, D, q, F, t.at)
    BY <1>1, <2>1 DEF IInv
  <2>3. ASSUME NEW c \in DOMAIN L
        PROVE  \/ Pending(q2, t.at, c)
               \/ F2[c] = F[c] /\ (Pending(q, t.at, c) => Pending(q2, t.at, c))
    <3>1. c \in Contracts
      BY <2>2 DEF ProjectsOK
    <3>2. F2[c] = F[c] \/ Is(n, "didSave", c)
      BY <2>1, <3>1
    <3> QED  BY <1>6, <3>2 DEF Is
  <2>4. ProjectsOK(P, L, D, q2, F2, t.at)
    BY <2>2, <2>3, ProjectsKept
  <2> QED  BY <1>1, <2>1, <2>4
<1>9. TaskOK(task', queue')
  BY <1>1, <1>6
<1>10. /\ IsState(es') /\ CacheOK(es'.asts) /\ es'.base \in Seq(Slots)
       /\ \A c \in DOMAIN es'.active : c \in Contracts /\ ActiveOK(es'.active[c])
  BY DEF IInv
<1> QED  BY <1>5, <1>7, <1>8, <1>9, <1>10 DEF IInv

LEMMA UserStep ==
    ASSUME IInv, User
    PROVE  IInv'
<1> DEFINE Types ==
              /\ disk' \in [Contracts -> Texts]
              /\ project' \in [Manifests -> UNION {Projects[m] : m \in Manifests}]
              /\ \A m \in Manifests : project'[m] \in Projects[m]
              /\ buffer' \in [Contracts -> Texts \cup {None}]
              /\ unsaved' \subseteq Contracts
<1>0. /\ disk \in [Contracts -> Texts]
      /\ project \in [Manifests -> UNION {Projects[m] : m \in Manifests}]
      /\ \A m \in Manifests : project[m] \in Projects[m]
      /\ buffer \in [Contracts -> Texts \cup {None}]
      /\ unsaved \subseteq Contracts
      /\ Contracts \cap Manifests = {} /\ None \notin Texts
  BY ServerAssumption DEF IInv, ClientOK
<1>1. ASSUME NEW c \in Contracts, NEW text \in Texts, OpenContract(c, text) PROVE IInv'
  <2>1. PICK n : n = Notification("didOpen", c, None)
    OBVIOUS
  <2>2. n \in Notes /\ n.method = "didOpen" /\ n.uri = c
    BY <2>1 DEF Notification, Notes, Kinds
  <2>3. onNotification(n) /\ UNCHANGED <<task, es, shown, panicked>> /\ Acts
    BY <1>1, <2>1 DEF OpenContract, ServerIdles
  <2>4. Types
    BY <1>0, <1>1 DEF OpenContract
  <2>5. ASSUME NEW d \in Contracts
        PROVE  /\ disk'[d] = disk[d]
               /\ IF OfBuffer(n, d) THEN /\ buffer[d] = None /\ buffer'[d] # None
                                         /\ buffer'[d] = disk[d] \/ d \in unsaved'
                  ELSE buffer'[d] = buffer[d] /\ (d \in unsaved => d \in unsaved')
    <3>1. d # c => buffer'[d] = buffer[d] /\ (d \in unsaved => d \in unsaved')
      BY <1>0, <1>1 DEF OpenContract
    <3>2. d = c => /\ buffer[d] = None /\ buffer'[d] # None
                   /\ buffer'[d] = disk[d] \/ d \in unsaved'
      BY <1>0, <1>1 DEF OpenContract
    <3>3. OfBuffer(n, d) <=> d = c
      BY <2>2 DEF OfBuffer
    <3>4. disk'[d] = disk[d]
      BY <1>1 DEF OpenContract
    <3> QED  BY <3>1, <3>2, <3>3, <3>4
  <2>6. \A d \in Contracts :
           /\ disk'[d] = disk[d] \/ (Is(n, "didSave", d) /\ disk'[d] \in {disk[d], buffer[d]})
           /\ IF OfBuffer(n, d)
              THEN \/ n.method = "didOpen" /\ buffer[d] = None /\ buffer'[d] # None
                      /\ (buffer'[d] = disk[d] \/ d \in unsaved')
                   \/ n.method = "didChange" /\ n.text = buffer'[d] /\ buffer'[d] # None
                   \/ n.method = "didClose" /\ buffer'[d] = None
              ELSE buffer'[d] = buffer[d] /\ (d \in unsaved => d \in unsaved')
    <3>1. \A d \in Contracts :
             /\ disk'[d] = disk[d]
             /\ IF OfBuffer(n, d) THEN /\ buffer[d] = None /\ buffer'[d] # None
                                       /\ buffer'[d] = disk[d] \/ d \in unsaved'
                ELSE buffer'[d] = buffer[d] /\ (d \in unsaved => d \in unsaved')
      BY <2>5
    <3>2. n.method = "didOpen"
      BY <2>2
    <3> QED  BY <3>1, <3>2, Zenon
  <2> QED  BY <2>2, <2>3, <2>4, <2>6, UserKeeps
<1>2. ASSUME NEW c \in Contracts, NEW text \in Texts, EditContract(c, text) PROVE IInv'
  <2>1. PICK n : n = Notification("didChange", c, text)
    OBVIOUS
  <2>2. n \in Notes /\ n.method = "didChange" /\ n.uri = c /\ n.text = text
    BY <2>1 DEF Notification, Notes, Kinds
  <2>3. onNotification(n) /\ UNCHANGED <<task, es, shown, panicked>> /\ Acts
    BY <1>2, <2>1 DEF EditContract, ServerIdles
  <2>4. Types
    BY <1>0, <1>2 DEF EditContract
  <2>5. ASSUME NEW d \in Contracts
        PROVE  /\ disk'[d] = disk[d]
               /\ IF OfBuffer(n, d) THEN n.text = buffer'[d] /\ buffer'[d] # None
                  ELSE buffer'[d] = buffer[d] /\ (d \in unsaved => d \in unsaved')
    BY <1>0, <1>2, <2>2 DEF EditContract, OfBuffer
  <2> QED  BY <2>2, <2>3, <2>4, <2>5, UserKeeps
<1>3. ASSUME NEW c \in Contracts, SaveContract(c) PROVE IInv'
  <2>1. PICK n : n = Notification("didSave", c, None)
    OBVIOUS
  <2>2. n \in Notes /\ n.method = "didSave" /\ n.uri = c
    BY <2>1 DEF Notification, Notes, Kinds
  <2>3. onNotification(n) /\ UNCHANGED <<task, es, shown, panicked>> /\ Acts
    BY <1>3, <2>1 DEF SaveContract, ServerIdles
  <2>4. Types
    BY <1>0, <1>3 DEF SaveContract
  <2>5. ASSUME NEW d \in Contracts
        PROVE  /\ disk'[d] = disk[d] \/ (Is(n, "didSave", d) /\ disk'[d] \in {disk[d], buffer[d]})
               /\ ~OfBuffer(n, d) /\ buffer'[d] = buffer[d] /\ unsaved' = unsaved
    BY <1>0, <1>3, <2>2 DEF SaveContract, OfBuffer, Is
  <2> QED  BY <2>2, <2>3, <2>4, <2>5, UserKeeps
<1>4. ASSUME NEW c \in Contracts, CloseContract(c) PROVE IInv'
  <2>1. PICK n : n = Notification("didClose", c, None)
    OBVIOUS
  <2>2. n \in Notes /\ n.method = "didClose" /\ n.uri = c
    BY <2>1 DEF Notification, Notes, Kinds
  <2>3. onNotification(n) /\ UNCHANGED <<task, es, shown, panicked>> /\ Acts
    BY <1>4, <2>1 DEF CloseContract, ServerIdles
  <2>4. Types
    BY <1>0, <1>4 DEF CloseContract
  <2>5. ASSUME NEW d \in Contracts
        PROVE  /\ disk'[d] = disk[d]
               /\ IF OfBuffer(n, d) THEN buffer'[d] = None
                  ELSE buffer'[d] = buffer[d] /\ (d \in unsaved => d \in unsaved')
    BY <1>0, <1>4, <2>2 DEF CloseContract, OfBuffer
  <2> QED  BY <2>2, <2>3, <2>4, <2>5, UserKeeps
<1>5. ASSUME NEW m \in Manifests, OpenManifest(m) PROVE IInv'
  <2>1. PICK n : n = Notification("didOpen", m, None)
    OBVIOUS
  <2>2. n \in Notes /\ n.uri = m
    BY <2>1 DEF Notification, Notes, Kinds
  <2>3. onNotification(n) /\ UNCHANGED <<task, es, shown, panicked>> /\ Acts
    BY <1>5, <2>1 DEF OpenManifest, ServerIdles
  <2>4. Types
    BY <1>0, <1>5 DEF OpenManifest
  <2>5. ASSUME NEW d \in Contracts
        PROVE  disk'[d] = disk[d] /\ ~OfBuffer(n, d) /\ buffer'[d] = buffer[d] /\ unsaved' = unsaved
    BY <1>0, <1>5, <2>2 DEF OpenManifest, OfBuffer
  <2> QED  BY <2>2, <2>3, <2>4, <2>5, UserKeeps
<1>6. ASSUME NEW m \in Manifests, NEW p \in Projects[m], SaveManifest(m, p) PROVE IInv'
  <2>1. PICK n : n = Notification("didSave", m, None)
    OBVIOUS
  <2>2. n \in Notes /\ n.uri = m
    BY <2>1 DEF Notification, Notes, Kinds
  <2>3. onNotification(n) /\ UNCHANGED <<task, es, shown, panicked>> /\ Acts
    BY <1>6, <2>1 DEF SaveManifest, ServerIdles
  <2>4. Types
    BY <1>0, <1>6 DEF SaveManifest
  <2>5. ASSUME NEW d \in Contracts
        PROVE  disk'[d] = disk[d] /\ ~OfBuffer(n, d) /\ buffer'[d] = buffer[d] /\ unsaved' = unsaved
    BY <1>0, <1>6, <2>2 DEF SaveManifest, OfBuffer
  <2> QED  BY <2>2, <2>3, <2>4, <2>5, UserKeeps
<1> QED  BY <1>1, <1>2, <1>3, <1>4, <1>5, <1>6 DEF User

-----------------------------------------------------------------------------
(* The steps of the server. *)

Task(at, m, p, saved, env, ran, entries) ==
    [at |-> at, manifest |-> m, project |-> p, saved |-> saved,
     env |-> env, ran |-> ran, entries |-> entries]

LEMMA BuildTask ==
    ASSUME NEW m, NEW saved
    PROVE  [Idle EXCEPT !.at = "building", !.manifest = m, !.saved = saved] =
              Task("building", m, NoProject, saved, 0, {}, Empty)
<1>1. Idle = Task("idle", None, NoProject, {}, 0, {}, Empty)
  BY DEF Idle, Task
<1>2. [Idle EXCEPT !.at = "building"] = Task("building", None, NoProject, {}, 0, {}, Empty)
  BY DEF Idle, Task
<1>3. [Task("building", None, NoProject, {}, 0, {}, Empty) EXCEPT !.manifest = m] =
         Task("building", m, NoProject, {}, 0, {}, Empty)
  BY DEF Task
<1>4. [Task("building", m, NoProject, {}, 0, {}, Empty) EXCEPT !.saved = saved] =
         Task("building", m, NoProject, saved, 0, {}, Empty)
  BY DEF Task
<1>5. [Idle EXCEPT !.at = "building", !.manifest = m, !.saved = saved] =
         [[[Idle EXCEPT !.at = "building"] EXCEPT !.manifest = m] EXCEPT !.saved = saved]
  <2>1. DOMAIN Idle = {"at", "manifest", "project", "saved", "env", "ran", "entries"}
    BY DEF Idle
  <2> QED  BY <2>1, Zenon
<1> QED  BY <1>2, <1>3, <1>4, <1>5, Zenon

LEMMA OpenTask ==
    ASSUME NEW m
    PROVE  [Idle EXCEPT !.at = "opening", !.manifest = m] =
              Task("opening", m, NoProject, {}, 0, {}, Empty)
<1>1. [Idle EXCEPT !.at = "opening"] = Task("opening", None, NoProject, {}, 0, {}, Empty)
  BY DEF Idle, Task
<1>2. [Task("opening", None, NoProject, {}, 0, {}, Empty) EXCEPT !.manifest = m] =
         Task("opening", m, NoProject, {}, 0, {}, Empty)
  BY DEF Task
<1>3. [Idle EXCEPT !.at = "opening", !.manifest = m] = [[Idle EXCEPT !.at = "opening"] EXCEPT !.manifest = m]
  <2>1. DOMAIN Idle = {"at", "manifest", "project", "saved", "env", "ran", "entries"}
    BY DEF Idle
  <2> QED  BY <2>1, Zenon
<1> QED  BY <1>1, <1>2, <1>3, Zenon

LEMMA PassTask ==
    ASSUME NEW t, IsTask(t), NEW p
    PROVE  [t EXCEPT !.at = "passes", !.project = p, !.env = 1] =
              Task("passes", t.manifest, p, t.saved, 1, t.ran, t.entries)
<1>0. t \in [at : {t.at}, manifest : {t.manifest}, project : {t.project}, saved : {t.saved},
             env : {t.env}, ran : {t.ran}, entries : {t.entries}]
  BY Zenon DEF IsTask
<1>1. [t EXCEPT !.at = "passes"] =
         Task("passes", t.manifest, t.project, t.saved, t.env, t.ran, t.entries)
  BY <1>0 DEF Task
<1>2. [Task("passes", t.manifest, t.project, t.saved, t.env, t.ran, t.entries) EXCEPT !.project = p] =
         Task("passes", t.manifest, p, t.saved, t.env, t.ran, t.entries)
  BY DEF Task
<1>3. [Task("passes", t.manifest, p, t.saved, t.env, t.ran, t.entries) EXCEPT !.env = 1] =
         Task("passes", t.manifest, p, t.saved, 1, t.ran, t.entries)
  BY DEF Task
<1>4. [t EXCEPT !.at = "passes", !.project = p, !.env = 1] =
         [[[t EXCEPT !.at = "passes"] EXCEPT !.project = p] EXCEPT !.env = 1]
  <2>1. DOMAIN t = {"at", "manifest", "project", "saved", "env", "ran", "entries"}
    BY <1>0
  <2> QED  BY <2>1, Zenon
<1> QED  BY <1>1, <1>2, <1>3, <1>4, Zenon

LEMMA NextPassTask ==
    ASSUME NEW t, IsTask(t), NEW ran, NEW entries
    PROVE  [t EXCEPT !.env = @ + 1, !.ran = ran, !.entries = entries] =
              Task(t.at, t.manifest, t.project, t.saved, t.env + 1, ran, entries)
<1>0. t \in [at : {t.at}, manifest : {t.manifest}, project : {t.project}, saved : {t.saved},
             env : {t.env}, ran : {t.ran}, entries : {t.entries}]
  BY Zenon DEF IsTask
<1> DEFINE k == t.env + 1
<1>1. [t EXCEPT !.env = k] = Task(t.at, t.manifest, t.project, t.saved, k, t.ran, t.entries)
  <2> HIDE DEF k
  <2> QED  BY <1>0 DEF Task
<1>2. [Task(t.at, t.manifest, t.project, t.saved, k, t.ran, t.entries) EXCEPT !.ran = ran] =
         Task(t.at, t.manifest, t.project, t.saved, k, ran, t.entries)
  <2> HIDE DEF k
  <2> QED  BY DEF Task
<1>3. [Task(t.at, t.manifest, t.project, t.saved, k, ran, t.entries) EXCEPT !.entries = entries] =
         Task(t.at, t.manifest, t.project, t.saved, k, ran, entries)
  <2> HIDE DEF k
  <2> QED  BY DEF Task
<1>4. [t EXCEPT !.env = k, !.ran = ran, !.entries = entries] =
         [[[t EXCEPT !.env = k] EXCEPT !.ran = ran] EXCEPT !.entries = entries]
  <2>1. DOMAIN t = {"at", "manifest", "project", "saved", "env", "ran", "entries"}
    BY <1>0
  <2> HIDE DEF k
  <2> QED  BY <2>1, Zenon
<1>5. [t EXCEPT !.env = @ + 1, !.ran = ran, !.entries = entries] =
         [t EXCEPT !.env = k, !.ran = ran, !.entries = entries]
  BY Zenon
<1> QED  BY <1>1, <1>2, <1>3, <1>4, <1>5, Zenon

LEMMA IdleIsOK ==
    ASSUME NEW q
    PROVE  TaskOK(Idle, q) /\ Idle.at = "idle"
<1>1. CacheOK(Empty)
  BY DEF CacheOK, Empty
<1> QED  BY <1>1 DEF Idle, TaskOK, IsTask

LEMMA NewTaskIsOK ==
    ASSUME NEW q, q # <<>>, NEW m \in Manifests, NEW saved, NEW at,
           \/ at = "opening" /\ q[1].method = "didOpen" /\ q[1].uri \in Contracts
           \/ at = "building" /\ q[1].method \in {"didOpen", "didSave"}
    PROVE  LET t == Task(at, m, NoProject, saved, 0, {}, Empty)
           IN  TaskOK(t, q) /\ t.at = at
<1>1. CacheOK(Empty)
  BY DEF CacheOK, Empty
<1> HIDE DEF Empty, NoProject
<1> QED  BY <1>1 DEF Task, TaskOK, IsTask

LEMMA PendingShift ==
    ASSUME NEW q, NEW q2, Shorter(q, q2), NEW at, NEW c, at # "idle" \/ ~Is(q[1], "didSave", c)
    PROVE  Pending(q, at, c) => Pending(q2, "idle", c)
<1>1. SUFFICES ASSUME Pending(q, at, c) PROVE Pending(q2, "idle", c)
  OBVIOUS
<1>2. PICK i \in DOMAIN q : Is(q[i], "didSave", c) /\ i # 1
  BY <1>1 DEF Pending
<1>3. i - 1 \in DOMAIN q2 /\ q2[i - 1] = q[i]
  BY <1>2, HeadFacts
<1> QED  BY <1>2, <1>3 DEF Pending

LEMMA PendingStays ==
    ASSUME NEW q, NEW at, NEW at2, NEW c, at # "idle" \/ ~Is(q[1], "didSave", c),
           DOMAIN q \subseteq Nat \ {0}
    PROVE  Pending(q, at, c) => Pending(q, at2, c)
  BY DEF Pending

\* The build of a project has ended, well or not.
LEMMA BuildEnded ==
    ASSUME NEW U, NEW q, NEW q2, Shorter(q, q2), 1 \in DOMAIN q, q[1].method \in {"didOpen", "didSave"},
           NEW b, NEW f, NEW act, NEW act2, SameTexts(act, act2), NEW at, NEW c,
           BufferOK(q, b, f, act, at, c, U)
    PROVE  BufferOK(q2, b, f, act2, "idle", c, U)
<1>1. CASE Is(q[1], "didOpen", c)
  BY <1>1, OpenDone
<1>2. CASE ~Is(q[1], "didOpen", c)
  <2>1. ~OfBuffer(q[1], c)
    BY <1>2 DEF Is, OfBuffer
  <2>2. c \in DOMAIN act2 => c \in DOMAIN act /\ act2[c].text = act[c].text
    BY DEF SameTexts
  <2> QED  BY <2>1, <2>2, OthersHandled
<1> QED  BY <1>1, <1>2

\* The open contracts agree on c, and the handler goes on.
LEMMA Agreed ==
    ASSUME NEW U, NEW q, NEW b, NEW f, NEW act, NEW act2, NEW at, NEW at2, NEW c,
           at \in {"idle", "opening"} \/ at2 \notin {"idle", "opening"},
           c \in DOMAIN act2 <=> c \in DOMAIN act,
           c \in DOMAIN act => act2[c].text = act[c].text,
           BufferOK(q, b, f, act, at, c, U)
    PROVE  BufferOK(q, b, f, act2, at2, c, U)
  BY DEF BufferOK, TurnOK, TextOK

LEMMA FinishKeeps ==
    ASSUME IInv, queue # <<>>, Finish, UNCHANGED client, panicked' = FALSE,
           IsState(es'), CacheOK(es'.asts), es'.base \in Seq(Slots),
           \A c \in DOMAIN es'.active : c \in Contracts /\ ActiveOK(es'.active[c]),
           \A c \in Contracts : BufferOK(queue', buffer[c], disk[c], es'.active, "idle", c, unsaved),
           ProjectsOK(es'.protocols, es'.lookup, shown', queue', disk, "idle")
    PROVE  IInv'
<1>1. queue' \in Seq(Notes) /\ Len(queue') <= MaxQueue
  <2>1. PICK q : q = queue
    OBVIOUS
  <2>2. q \in Seq(Notes) /\ q # <<>> /\ Len(q) <= MaxQueue /\ MaxQueue \in Nat
    BY <2>1, ServerAssumption DEF IInv, ClientOK
  <2>3. Tail(q) \in Seq(Notes) /\ Len(Tail(q)) = Len(q) - 1 /\ Len(q) \in Nat
    BY <2>2
  <2> QED  BY <2>1, <2>2, <2>3 DEF Finish
<1>2. ClientOK'
  BY <1>1 DEF IInv, ClientOK, client
<1>3. TaskOK(task', queue') /\ task'.at = "idle"
  <2>1. PICK q2 : q2 = queue'
    OBVIOUS
  <2>2. TaskOK(Idle, q2) /\ Idle.at = "idle"
    BY IdleIsOK
  <2> QED  BY <2>1, <2>2 DEF Finish
<1>4. buffer' = buffer /\ disk' = disk /\ unsaved' = unsaved
  BY DEF client
<1> QED  BY <1>2, <1>3, <1>4 DEF IInv

LEMMA GoOnKeeps ==
    ASSUME IInv, UNCHANGED <<client, queue, panicked>>, TaskOK(task', queue),
           IsState(es'), CacheOK(es'.asts), es'.base \in Seq(Slots),
           \A c \in DOMAIN es'.active : c \in Contracts /\ ActiveOK(es'.active[c]),
           \A c \in Contracts : BufferOK(queue, buffer[c], disk[c], es'.active, task'.at, c, unsaved),
           ProjectsOK(es'.protocols, es'.lookup, shown', queue, disk, task'.at)
    PROVE  IInv'
<1>1. ClientOK'
  BY DEF IInv, ClientOK, client
<1>2. buffer' = buffer /\ disk' = disk /\ unsaved' = unsaved /\ queue' = queue
  BY DEF client
<1> QED  BY <1>1, <1>2 DEF IInv

\* What is known of the notification in flight.
LEMMA HeadIsKnown ==
    ASSUME IInv, queue # <<>>
    PROVE  /\ queue[1] = Head(queue) /\ queue[1] \in Notes /\ 1 \in DOMAIN queue
           /\ DOMAIN queue \subseteq Nat \ {0}
           /\ Shorter(queue, Tail(queue))
<1>1. PICK q : q = queue
  OBVIOUS
<1>2. q \in Seq(Notes) /\ q # <<>>
  BY <1>1 DEF IInv, ClientOK
<1>3. /\ Shorter(q, Tail(q)) /\ Head(q) = q[1] /\ 1 \in DOMAIN q /\ q[1] \in Notes
  BY <1>2, TailIsShorter
<1>4. DOMAIN q \subseteq Nat \ {0}
  BY <1>2
<1> QED  BY <1>1, <1>3, <1>4

\* An opening that ends or fails, or a build that fails.
LEMMA FailKeeps ==
    ASSUME IInv, queue # <<>>, Finish, UNCHANGED <<client, es, shown, panicked>>,
           \/ queue[1].method = "didOpen"
           \/ queue[1].method = "didSave" /\ task.at # "idle"
    PROVE  IInv'
<1>1. PICK q, q2, act, at : q = queue /\ q2 = queue' /\ act = es.active /\ at = task.at
  OBVIOUS
<1>2. Shorter(q, q2) /\ 1 \in DOMAIN q /\ q[1].method \in {"didOpen", "didSave"}
  BY <1>1, HeadIsKnown DEF Finish
<1>3. SameTexts(act, act)
  BY DEF SameTexts
<1>4. ASSUME NEW c \in Contracts
      PROVE  BufferOK(queue', buffer[c], disk[c], es'.active, "idle", c, unsaved)
  <2>1. PICK b, f : b = buffer[c] /\ f = disk[c]
    OBVIOUS
  <2>2. BufferOK(q, b, f, act, at, c, unsaved)
    BY <1>1, <2>1 DEF IInv
  <2>3. BufferOK(q2, b, f, act, "idle", c, unsaved)
    BY <1>2, <1>3, <2>2, BuildEnded
  <2> QED  BY <1>1, <2>1, <2>3
<1>5. ProjectsOK(es'.protocols, es'.lookup, shown', queue', disk, "idle")
  <2>1. PICK P, L, D, F : P = es.protocols /\ L = es.lookup /\ D = shown /\ F = disk
    OBVIOUS
  <2>2. ProjectsOK(P, L, D, q, F, at)
    BY <1>1, <2>1 DEF IInv
  <2>3. ASSUME NEW c PROVE Pending(q, at, c) => Pending(q2, "idle", c)
    <3>1. at # "idle" \/ ~Is(q[1], "didSave", c)
      BY <1>1 DEF Is
    <3> QED  BY <1>2, <3>1, PendingShift
  <2>4. ProjectsOK(P, L, D, q2, F, "idle")
    BY <2>2, <2>3, ProjectsKept
  <2> QED  BY <1>1, <2>1, <2>4
<1>6. panicked' = FALSE
  BY DEF IInv, ClientOK
<1>7. /\ IsState(es') /\ CacheOK(es'.asts) /\ es'.base \in Seq(Slots)
      /\ \A c \in DOMAIN es'.active : c \in Contracts /\ ActiveOK(es'.active[c])
  BY DEF IInv
<1> QED  BY <1>4, <1>5, <1>6, <1>7, FinishKeeps

\* The handler goes on to its next await.
LEMMA AwaitKeeps ==
    ASSUME IInv, queue # <<>>, UNCHANGED <<client, queue, es, shown, panicked>>,
           TaskOK(task', queue),
           task.at \in {"idle", "opening"} \/ task'.at \notin {"idle", "opening"},
           task.at # "idle" \/ queue[1].method # "didSave" \/ queue[1].uri \in Manifests
    PROVE  IInv'
<1>1. PICK q, act, at, at2 : q = queue /\ act = es.active /\ at = task.at /\ at2 = task'.at
  OBVIOUS
<1>2. DOMAIN q \subseteq Nat \ {0}
  BY <1>1, HeadIsKnown
<1>4. ASSUME NEW c \in Contracts
      PROVE  BufferOK(queue, buffer[c], disk[c], es'.active, task'.at, c, unsaved)
  <2>1. PICK b, f : b = buffer[c] /\ f = disk[c]
    OBVIOUS
  <2>2. BufferOK(q, b, f, act, at, c, unsaved)
    BY <1>1, <2>1 DEF IInv
  <2>3. BufferOK(q, b, f, act, at2, c, unsaved)
    BY <1>1, <2>2, Ongoing
  <2> QED  BY <1>1, <2>1, <2>3
<1>5. ProjectsOK(es'.protocols, es'.lookup, shown', queue, disk, task'.at)
  <2>1. PICK P, L, D, F : P = es.protocols /\ L = es.lookup /\ D = shown /\ F = disk
    OBVIOUS
  <2>2. ProjectsOK(P, L, D, q, F, at)
    BY <1>1, <2>1 DEF IInv
  <2>3. ASSUME NEW c \in DOMAIN L PROVE Pending(q, at, c) => Pending(q, at2, c)
    <3>1. c \in Contracts
      BY <2>2 DEF ProjectsOK
    <3>2. at # "idle" \/ ~Is(q[1], "didSave", c)
      BY <1>1, <3>1, ServerAssumption DEF Is
    <3> QED  BY <1>2, <3>2, PendingStays
  <2>4. ProjectsOK(P, L, D, q, F, at2)
    BY <2>2, <2>3, ProjectsKept
  <2> QED  BY <1>1, <2>1, <2>4
<1>7. /\ IsState(es') /\ CacheOK(es'.asts) /\ es'.base \in Seq(Slots)
      /\ \A c \in DOMAIN es'.active : c \in Contracts /\ ActiveOK(es'.active[c])
  BY DEF IInv
<1> QED  BY <1>4, <1>5, <1>7, GoOnKeeps

LEMMA ManifestStep ==
    ASSUME IInv, ManifestOpened \/ ManifestSaved
    PROVE  IInv'
<1>1. queue # <<>> /\ queue[1].uri \in Manifests /\ task.at = "idle"
  <2>1. queue # <<>> /\ Head(queue).uri \in Manifests /\ task.at = "idle"
    BY DEF ManifestOpened, ManifestSaved, Starts, InFlight
  <2> QED  BY <2>1, HeadIsKnown
<1>2. queue[1].method \in {"didOpen", "didSave"} /\ Head(queue) = queue[1]
  <2>1. Head(queue).method \in {"didOpen", "didSave"}
    BY DEF ManifestOpened, ManifestSaved, Starts, InFlight
  <2> QED  BY <1>1, <2>1, HeadIsKnown
<1>3. CASE ManifestOpened /\ Finish
  <2>1. Head(queue).method = "didOpen" /\ UNCHANGED <<client, es, shown, panicked>>
    BY <1>3 DEF ManifestOpened, Starts, InFlight
  <2> QED  BY <1>1, <1>2, <1>3, <2>1, FailKeeps
<1>4. CASE BuildFor(Head(queue).uri, {}) /\ UNCHANGED <<client, queue, es, shown, panicked>>
  <2>1. PICK q, t, m : q = queue /\ t = task' /\ m = queue[1].uri
    OBVIOUS
  <2>2. t = Task("building", m, NoProject, {}, 0, {}, Empty)
    BY <1>2, <1>4, <2>1, BuildTask DEF BuildFor
  <2>3. q # <<>> /\ q[1].method \in {"didOpen", "didSave"} /\ m \in Manifests
    BY <1>1, <1>2, <2>1
  <2>4. LET u == Task("building", m, NoProject, {}, 0, {}, Empty)
        IN  TaskOK(u, q) /\ u.at = "building"
    BY <2>3, NewTaskIsOK
  <2>5. TaskOK(task', queue) /\ task'.at \notin {"idle", "opening"}
    BY <2>1, <2>2, <2>4
  <2> QED  BY <1>1, <1>4, <2>5, AwaitKeeps
<1> QED  BY <1>3, <1>4 DEF ManifestOpened, ManifestSaved

LEMMA ContractOpenedStep ==
    ASSUME IInv, ContractOpened
    PROVE  IInv'
<1>1. queue # <<>> /\ queue[1].uri \in Contracts /\ task.at = "idle" /\ queue[1].method = "didOpen"
      /\ Head(queue) = queue[1]
  <2>1. queue # <<>> /\ Head(queue).uri \in Contracts /\ task.at = "idle" /\ Head(queue).method = "didOpen"
    BY DEF ContractOpened, Starts, InFlight
  <2> QED  BY <2>1, HeadIsKnown
<1>2. CASE Fail
  BY <1>1, <1>2, FailKeeps DEF ContractOpened, Fail
<1>3. CASE /\ task' = [Idle EXCEPT !.at = "opening", !.manifest = Home[Head(queue).uri]]
           /\ UNCHANGED <<queue, es, shown, panicked>>
  <2>1. PICK q, t, m : q = queue /\ t = task' /\ m = Home[queue[1].uri]
    OBVIOUS
  <2>2. t = Task("opening", m, NoProject, {}, 0, {}, Empty)
    BY <1>1, <1>3, <2>1, OpenTask
  <2>3. q # <<>> /\ q[1].method = "didOpen" /\ q[1].uri \in Contracts /\ m \in Manifests
    BY <1>1, <2>1, ServerAssumption
  <2>4. LET u == Task("opening", m, NoProject, {}, 0, {}, Empty)
        IN  TaskOK(u, q) /\ u.at = "opening"
    BY <2>3, NewTaskIsOK
  <2>5. TaskOK(task', queue) /\ UNCHANGED client
    BY <2>1, <2>2, <2>4 DEF ContractOpened
  <2> QED  BY <1>1, <1>3, <2>5, AwaitKeeps
<1> QED  BY <1>2, <1>3 DEF ContractOpened

LEMMA ReadManifestStep ==
    ASSUME IInv, ReadManifest
    PROVE  IInv'
<1>1. /\ queue # <<>> /\ queue[1].method \in {"didOpen", "didSave"} /\ task.at = "building"
      /\ UNCHANGED <<client, es, shown, panicked>>
  BY DEF IInv, TaskOK, ReadManifest
<1>2. CASE Finish
  BY <1>1, <1>2, FailKeeps
<1>3. CASE /\ task' = [task EXCEPT !.at = "passes", !.project = project[task.manifest], !.env = 1]
           /\ UNCHANGED queue
  <2>1. PICK q, t, t2, p : q = queue /\ t = task /\ t2 = task' /\ p = project[task.manifest]
    OBVIOUS
  <2>2. TaskOK(t, q) /\ t.at = "building"
    BY <1>1, <2>1 DEF IInv
  <2>3. p \in Projects[t.manifest] /\ t.manifest \in Manifests
    BY <2>1, <2>2 DEF IInv, ClientOK, TaskOK
  <2>4. t2 = Task("passes", t.manifest, p, t.saved, 1, t.ran, t.entries)
    BY <1>3, <2>1, <2>2, PassTask DEF TaskOK
  <2>5. t2.at = "passes" /\ TaskOK(t2, q)
    BY <2>2, <2>3, <2>4 DEF TaskOK, IsTask, Task
  <2>6. TaskOK(task', queue) /\ task'.at = "passes"
    BY <2>1, <2>5
  <2> QED  BY <1>1, <1>3, <2>6, AwaitKeeps
<1> QED  BY <1>2, <1>3 DEF ReadManifest

LEMMA ContractChangedStep ==
    ASSUME IInv, ContractChanged
    PROVE  IInv'
<1>1. /\ queue # <<>> /\ queue[1].uri \in Contracts /\ queue[1].method = "didChange"
      /\ Head(queue) = queue[1]
  <2>1. queue # <<>> /\ Head(queue).uri \in Contracts /\ Head(queue).method = "didChange"
    BY DEF ContractChanged, Starts, InFlight
  <2> QED  BY <2>1, HeadIsKnown
<1>2. PICK q, q2, e, e2, at, d, text :
         /\ q = queue /\ q2 = queue' /\ e = es /\ e2 = es' /\ at = task.at
         /\ d = queue[1].uri /\ text = queue[1].text
  OBVIOUS
<1>3. /\ Shorter(q, q2) /\ 1 \in DOMAIN q /\ q[1].method = "didChange" /\ q[1].uri = d /\ q[1].text = text
      /\ d \in Contracts
  BY <1>1, <1>2, HeadIsKnown DEF ContractChanged, Quiet, Finish
<1>4. e2 = update_active_contract(e, d, text)
  BY <1>1, <1>2 DEF ContractChanged, Quiet
<1>5. IsState(e) /\ \A c \in DOMAIN e.active : c \in Contracts /\ ActiveOK(e.active[c])
  BY <1>2 DEF IInv
<1>6. /\ IsState(e2) /\ e2.protocols = e.protocols /\ e2.lookup = e.lookup
      /\ e2.asts = e.asts /\ e2.base = e.base
      /\ DOMAIN e2.active = DOMAIN e.active
      /\ \A c \in DOMAIN e.active :
            /\ ActiveOK(e2.active[c])
            /\ e2.active[c].text = IF c = d THEN text ELSE e.active[c].text
  <2>1. CASE d \in DOMAIN e.active
    <3>1. e2 = [protocols |-> e.protocols, lookup |-> e.lookup,
                active |-> [e.active EXCEPT ![d] = update_sources(@, text)],
                asts |-> e.asts, base |-> e.base]
      BY <1>4, <1>5, <2>1, Updated
    <3>2. PICK act : act = [e.active EXCEPT ![d] = update_sources(e.active[d], text)]
      OBVIOUS
    <3>3. e2 = [protocols |-> e.protocols, lookup |-> e.lookup, active |-> act,
                asts |-> e.asts, base |-> e.base]
      BY <3>1, <3>2
    <3>4. IsState(e2) /\ e2.protocols = e.protocols /\ e2.lookup = e.lookup
          /\ e2.asts = e.asts /\ e2.base = e.base /\ e2.active = act
      BY <3>3 DEF IsState
    <3>5. ActiveOK(update_sources(e.active[d], text)) /\ update_sources(e.active[d], text).text = text
      BY <1>5, <2>1, Sourced
    <3>6. DOMAIN act = DOMAIN e.active /\ act[d] = update_sources(e.active[d], text)
          /\ \A c \in DOMAIN e.active : c # d => act[c] = e.active[c]
      BY <2>1, <3>2
    <3> QED  BY <1>5, <3>4, <3>5, <3>6
  <2>2. CASE d \notin DOMAIN e.active
    BY <1>4, <1>5, <2>2 DEF update_active_contract
  <2> QED  BY <2>1, <2>2
<1>7. ASSUME NEW c \in Contracts
      PROVE  BufferOK(queue', buffer[c], disk[c], es'.active, "idle", c, unsaved)
  <2>1. PICK b, f : b = buffer[c] /\ f = disk[c]
    OBVIOUS
  <2>2. BufferOK(q, b, f, e.active, at, c, unsaved)
    BY <1>2, <2>1 DEF IInv
  <2>3. CASE c = d
    <3>1. Is(q[1], "didChange", c)
      BY <1>3, <2>3 DEF Is
    <3>2. BufferOK(q2, b, f, e2.active, "idle", c, unsaved)
      BY <1>3, <1>6, <2>2, <2>3, <3>1, ChangeHandled
    <3> QED  BY <1>2, <2>1, <3>2
  <2>4. CASE c # d
    <3>1. ~OfBuffer(q[1], c)
      BY <1>3, <2>4 DEF OfBuffer
    <3>2. BufferOK(q2, b, f, e2.active, "idle", c, unsaved)
      BY <1>3, <1>6, <2>2, <2>4, <3>1, OthersHandled
    <3> QED  BY <1>2, <2>1, <3>2
  <2> QED  BY <2>3, <2>4
<1>8. ProjectsOK(es'.protocols, es'.lookup, shown', queue', disk, "idle")
  <2>1. PICK D, F : D = shown /\ F = disk
    OBVIOUS
  <2>2. ProjectsOK(e.protocols, e.lookup, D, q, F, at)
    BY <1>2, <2>1 DEF IInv
  <2>3. ASSUME NEW c PROVE Pending(q, at, c) => Pending(q2, "idle", c)
    <3>1. ~Is(q[1], "didSave", c)
      BY <1>3 DEF Is
    <3> QED  BY <1>3, <3>1, PendingShift
  <2>4. ProjectsOK(e.protocols, e.lookup, D, q2, F, "idle")
    BY <2>2, <2>3, ProjectsKept
  <2>5. shown' = shown
    BY DEF ContractChanged, Quiet
  <2> QED  BY <1>2, <1>6, <2>1, <2>4, <2>5
<1>9. Finish /\ UNCHANGED client /\ panicked' = FALSE
  BY DEF ContractChanged, Quiet, IInv, ClientOK
<1>10. IsState(es') /\ CacheOK(es'.asts) /\ es'.base \in Seq(Slots)
  BY <1>2, <1>6 DEF IInv
<1>11. \A c \in DOMAIN es'.active : c \in Contracts /\ ActiveOK(es'.active[c])
  BY <1>2, <1>5, <1>6
<1> QED  BY <1>1, <1>7, <1>8, <1>9, <1>10, <1>11, FinishKeeps

LEMMA ContractClosedStep ==
    ASSUME IInv, ContractClosed
    PROVE  IInv'
<1>1. /\ queue # <<>> /\ queue[1].uri \in Contracts /\ queue[1].method = "didClose"
      /\ Head(queue) = queue[1]
  <2>1. queue # <<>> /\ Head(queue).uri \in Contracts /\ Head(queue).method = "didClose"
    BY DEF ContractClosed, Starts, InFlight
  <2> QED  BY <2>1, HeadIsKnown
<1>2. PICK q, q2, e, e2, at, d :
         /\ q = queue /\ q2 = queue' /\ e = es /\ e2 = es' /\ at = task.at /\ d = queue[1].uri
  OBVIOUS
<1>3. Shorter(q, q2) /\ 1 \in DOMAIN q /\ q[1].method = "didClose" /\ q[1].uri = d
  BY <1>1, <1>2, HeadIsKnown DEF ContractClosed, Quiet, Finish
<1>4. IsState(e) /\ \A c \in DOMAIN e.active : c \in Contracts /\ ActiveOK(e.active[c])
  BY <1>2 DEF IInv
<1>5. /\ IsState(e2) /\ e2.protocols = e.protocols /\ e2.lookup = e.lookup
      /\ e2.asts = e.asts /\ e2.base = e.base
      /\ DOMAIN e2.active = DOMAIN e.active \ {d}
      /\ \A c \in DOMAIN e2.active : e2.active[c] = e.active[c]
  <2>1. PICK act : act = Without(e.active, {d})
    OBVIOUS
  <2>2. e2 = remove_active_contract(e, d)
    BY <1>1, <1>2 DEF ContractClosed, Quiet
  <2>3. e2 = [protocols |-> e.protocols, lookup |-> e.lookup, active |-> act,
              asts |-> e.asts, base |-> e.base]
    BY <1>4, <2>1, <2>2, Removed
  <2>4. DOMAIN act = DOMAIN e.active \ {d} /\ \A c \in DOMAIN act : act[c] = e.active[c]
    BY <2>1 DEF Without, Restrict
  <2> QED  BY <2>3, <2>4 DEF IsState
<1>6. ASSUME NEW c \in Contracts
      PROVE  BufferOK(queue', buffer[c], disk[c], es'.active, "idle", c, unsaved)
  <2>1. PICK b, f : b = buffer[c] /\ f = disk[c]
    OBVIOUS
  <2>2. BufferOK(q, b, f, e.active, at, c, unsaved)
    BY <1>2, <2>1 DEF IInv
  <2>3. CASE c = d
    <3>1. Is(q[1], "didClose", c)
      BY <1>3, <2>3 DEF Is
    <3>2. BufferOK(q2, b, f, e2.active, "idle", c, unsaved)
      BY <1>3, <1>5, <2>2, <2>3, <3>1, CloseHandled
    <3> QED  BY <1>2, <2>1, <3>2
  <2>4. CASE c # d
    <3>1. ~OfBuffer(q[1], c)
      BY <1>3, <2>4 DEF OfBuffer
    <3>2. BufferOK(q2, b, f, e2.active, "idle", c, unsaved)
      BY <1>3, <1>5, <2>2, <2>4, <3>1, OthersHandled
    <3> QED  BY <1>2, <2>1, <3>2
  <2> QED  BY <2>3, <2>4
<1>7. ProjectsOK(es'.protocols, es'.lookup, shown', queue', disk, "idle")
  <2>1. PICK D, F : D = shown /\ F = disk
    OBVIOUS
  <2>2. ProjectsOK(e.protocols, e.lookup, D, q, F, at)
    BY <1>2, <2>1 DEF IInv
  <2>3. ASSUME NEW c PROVE Pending(q, at, c) => Pending(q2, "idle", c)
    <3>1. ~Is(q[1], "didSave", c)
      BY <1>3 DEF Is
    <3> QED  BY <1>3, <3>1, PendingShift
  <2>4. ProjectsOK(e.protocols, e.lookup, D, q2, F, "idle")
    BY <2>2, <2>3, ProjectsKept
  <2>5. shown' = shown
    BY DEF ContractClosed, Quiet
  <2> QED  BY <1>2, <1>5, <2>1, <2>4, <2>5
<1>8. Finish /\ UNCHANGED client /\ panicked' = FALSE
  BY DEF ContractClosed, Quiet, IInv, ClientOK
<1>9. IsState(es') /\ CacheOK(es'.asts) /\ es'.base \in Seq(Slots)
  BY <1>2, <1>5 DEF IInv
<1>10. \A c \in DOMAIN es'.active : c \in Contracts /\ ActiveOK(es'.active[c])
  BY <1>2, <1>4, <1>5
<1> QED  BY <1>1, <1>6, <1>7, <1>8, <1>9, <1>10, FinishKeeps

LEMMA ReadOpenedStep ==
    ASSUME IInv, ReadOpened
    PROVE  IInv'
<1>1. /\ queue # <<>> /\ queue[1].uri \in Contracts /\ queue[1].method = "didOpen"
      /\ Head(queue) = queue[1] /\ task.at = "opening" /\ task.manifest \in Manifests
      /\ UNCHANGED client
  <2>1. task.at = "opening" /\ UNCHANGED client
    BY DEF ReadOpened
  <2>2. /\ queue # <<>> /\ queue[1].uri \in Contracts /\ queue[1].method = "didOpen"
        /\ task.manifest \in Manifests
    BY <2>1 DEF IInv, TaskOK
  <2> QED  BY <2>1, <2>2, HeadIsKnown
<1>2. CASE Fail
  BY <1>1, <1>2, FailKeeps DEF Fail
<1>3. CASE ~Fail
  <2>1. PICK q, e, e2, d, m, F :
           /\ q = queue /\ e = es /\ e2 = es' /\ d = queue[1].uri /\ m = task.manifest /\ F = disk
    OBVIOUS
  <2>2. /\ q[1].method = "didOpen" /\ q[1].uri = d /\ d \in Contracts /\ m \in Manifests
        /\ 1 \in DOMAIN q /\ q \in Seq(Notes) /\ q # <<>>
    BY <1>1, <2>1, HeadIsKnown DEF IInv, ClientOK
  <2>3. \A c \in Contracts : BufferOK(q, buffer[c], F[c], e.active, "opening", c, unsaved)
    BY <1>1, <2>1 DEF IInv
  <2>4. d \notin DOMAIN e.active
    <3>1. TurnOK(q, buffer[d], e.active, "opening", d)
      BY <2>2, <2>3 DEF BufferOK
    <3>2. DOMAIN q \subseteq Nat \ {0}
      BY <2>2
    <3> QED  BY <2>2, <3>1, <3>2 DEF TurnOK, Is
  <2>5. PICK version, issuer : e2 = insert_active_contract(e, d, version, issuer, F[d])
    BY <1>1, <1>3, <2>1, <2>4 DEF ReadOpened
  <2>6. /\ UNCHANGED <<shown, panicked>>
        /\ Finish \/ (BuildFor(m, {}) /\ UNCHANGED queue)
    BY <1>3, <2>1 DEF ReadOpened
  <2>7. IsState(e) /\ \A c \in DOMAIN e.active : c \in Contracts /\ ActiveOK(e.active[c])
    BY <2>1 DEF IInv
  <2>8. /\ IsState(e2) /\ e2.protocols = e.protocols /\ e2.lookup = e.lookup
        /\ e2.asts = e.asts /\ e2.base = e.base
        /\ DOMAIN e2.active = DOMAIN e.active \cup {d}
        /\ ActiveOK(e2.active[d]) /\ e2.active[d].text = F[d]
        /\ \A c \in DOMAIN e.active : e2.active[c] = e.active[c]
    <3>1. PICK new, act : new = ActiveContractNew(version, issuer, F[d]) /\ act = With(e.active, d, new)
      OBVIOUS
    <3>2. e2 = [protocols |-> e.protocols, lookup |-> e.lookup, active |-> act,
                asts |-> e.asts, base |-> e.base]
      BY <2>5, <2>7, <3>1, Inserted
    <3>3. /\ DOMAIN act = DOMAIN e.active \cup {d} /\ act[d] = new
          /\ \A c \in DOMAIN e.active : act[c] = e.active[c]
      BY <2>4, <3>1 DEF With, Extended
    <3>4. ActiveOK(new) /\ new.text = F[d]
      BY <3>1, Opened
    <3> QED  BY <3>2, <3>3, <3>4 DEF IsState
  <2>9. ASSUME NEW c \in Contracts
        PROVE  BufferOK(q, buffer[c], F[c], e2.active, "building", c, unsaved)
    <3>1. PICK b, f : b = buffer[c] /\ f = F[c]
      OBVIOUS
    <3>2. BufferOK(q, b, f, e.active, "opening", c, unsaved)
      BY <2>3, <3>1
    <3>3. CASE c = d
      <4>1. PICK N \in Nat : DOMAIN q = 1..N
        BY <2>2
      <4>2. Is(q[1], "didOpen", c) /\ c \in DOMAIN e2.active /\ e2.active[c].text = f
        BY <2>2, <2>8, <3>1, <3>3 DEF Is
      <4>3. BufferOK(q, b, f, e2.active, "building", c, unsaved)
        BY <2>2, <3>2, <4>1, <4>2, OpenRead
      <4> QED  BY <3>1, <4>3
    <3>4. CASE c # d
      <4>1. BufferOK(q, b, f, e2.active, "building", c, unsaved)
        BY <2>8, <3>2, <3>4, Agreed
      <4> QED  BY <3>1, <4>1
    <3> QED  BY <3>3, <3>4
  <2>10. IsState(es') /\ CacheOK(es'.asts) /\ es'.base \in Seq(Slots) /\ panicked' = FALSE
    BY <2>1, <2>6, <2>8 DEF IInv, ClientOK
  <2>11. \A c \in DOMAIN es'.active : c \in Contracts /\ ActiveOK(es'.active[c])
    BY <2>1, <2>2, <2>7, <2>8
  <2>12. ProjectsOK(e.protocols, e.lookup, shown, q, F, "opening")
    BY <1>1, <2>1 DEF IInv
  <2>13. CASE Finish
    <3>1. PICK q2 : q2 = queue'
      OBVIOUS
    <3>2. Shorter(q, q2)
      BY <1>1, <2>1, <2>13, <3>1, HeadIsKnown DEF Finish
    <3>3. ASSUME NEW c \in Contracts
          PROVE  BufferOK(queue', buffer[c], disk[c], es'.active, "idle", c, unsaved)
      <4>1. PICK b, f : b = buffer[c] /\ f = F[c]
        OBVIOUS
      <4>2. BufferOK(q, b, f, e2.active, "building", c, unsaved)
        BY <2>9, <4>1
      <4>3. SameTexts(e2.active, e2.active)
        BY DEF SameTexts
      <4>4. BufferOK(q2, b, f, e2.active, "idle", c, unsaved)
        BY <2>2, <3>2, <4>2, <4>3, BuildEnded
      <4> QED  BY <2>1, <3>1, <4>1, <4>4
    <3>4. ProjectsOK(es'.protocols, es'.lookup, shown', queue', disk, "idle")
      <4>1. PICK D : D = shown
        OBVIOUS
      <4>2. ASSUME NEW c PROVE Pending(q, "opening", c) => Pending(q2, "idle", c)
        BY <3>2, PendingShift
      <4>3. ProjectsOK(e.protocols, e.lookup, D, q2, F, "idle")
        BY <2>12, <4>1, <4>2, ProjectsKept
      <4> QED  BY <2>1, <2>6, <2>8, <3>1, <4>1, <4>3
    <3> QED  BY <1>1, <2>10, <2>11, <2>13, <3>3, <3>4, FinishKeeps
  <2>14. CASE BuildFor(m, {}) /\ UNCHANGED queue
    <3>1. PICK t : t = task'
      OBVIOUS
    <3>2. t = Task("building", m, NoProject, {}, 0, {}, Empty)
      BY <2>14, <3>1, BuildTask DEF BuildFor
    <3>3. LET u == Task("building", m, NoProject, {}, 0, {}, Empty)
          IN  TaskOK(u, q) /\ u.at = "building"
      BY <2>2, NewTaskIsOK
    <3>4. TaskOK(task', queue) /\ task'.at = "building"
      BY <2>1, <3>1, <3>2, <3>3
    <3>5. ProjectsOK(es'.protocols, es'.lookup, shown', queue, disk, task'.at)
      <4>1. PICK D : D = shown
        OBVIOUS
      <4>2. ASSUME NEW c PROVE Pending(q, "opening", c) => Pending(q, "building", c)
        <5>1. DOMAIN q \subseteq Nat \ {0}
          BY <2>2
        <5> QED  BY <5>1, PendingStays
      <4>3. ProjectsOK(e.protocols, e.lookup, D, q, F, "building")
        BY <2>12, <4>1, <4>2, ProjectsKept
      <4> QED  BY <2>1, <2>6, <2>8, <3>4, <4>1, <4>3
    <3>6. ASSUME NEW c \in Contracts
          PROVE  BufferOK(queue, buffer[c], disk[c], es'.active, task'.at, c, unsaved)
      BY <2>1, <2>9, <3>4
    <3> QED  BY <1>1, <2>6, <2>10, <2>11, <2>14, <3>4, <3>5, <3>6, GoOnKeeps
  <2> QED  BY <2>6, <2>13, <2>14
<1> QED  BY <1>2, <1>3

\* The project of a saved contract is forgotten, and no other.
OnlyCleared(e, e2, D, q2, F, at2) ==
    /\ IsState(e2) /\ e2.active = e.active /\ e2.asts = e.asts /\ e2.base = e.base
    /\ ProjectsOK(e2.protocols, e2.lookup, D, q2, F, at2)

LEMMA SavedCleared ==
    ASSUME NEW e, IsState(e), NEW d, NEW D, NEW q, NEW F, NEW at,
           ProjectsOK(e.protocols, e.lookup, D, q, F, at),
           NEW e2, e2 = clear_protocol_associated_with_contract(e, d),
           NEW q2, NEW at2, StillPending(q, at, q2, at2, d)
    PROVE  OnlyCleared(e, e2, D, q2, F, at2)
<1>1. /\ \A c \in DOMAIN e.lookup : e.lookup[c].manifest = Owner(c)
      /\ \A x \in DOMAIN e.protocols : \A c \in DOMAIN e.protocols[x].contracts :
            Owner(c) = x /\ c \in DOMAIN e.lookup
  BY DEF ProjectsOK, ProjectOK
<1>2. CASE d \in DOMAIN e.lookup /\ Owner(d) \in DOMAIN e.protocols
  <2>1. PICK m, P, L : /\ m = Owner(d) /\ P = Without(e.protocols, {m})
                       /\ L = Without(e.lookup, DOMAIN e.protocols[m].contracts)
    OBVIOUS
  <2>2. e2 = clear_protocol(e, m)
    BY <1>1, <1>2, <2>1 DEF clear_protocol_associated_with_contract
  <2>3. e2 = [protocols |-> P, lookup |-> L, active |-> e.active, asts |-> e.asts, base |-> e.base]
    BY <1>2, <2>1, <2>2, Cleared
  <2>4. /\ IsState(e2) /\ e2.active = e.active /\ e2.asts = e.asts /\ e2.base = e.base
        /\ e2.protocols = P /\ e2.lookup = L
    BY <2>3 DEF IsState
  <2>5. /\ DOMAIN P = DOMAIN e.protocols \ {m} /\ \A x \in DOMAIN P : P[x] = e.protocols[x]
        /\ DOMAIN L = DOMAIN e.lookup \ DOMAIN e.protocols[m].contracts
        /\ \A c \in DOMAIN L : L[c] = e.lookup[c]
    BY <2>1 DEF Without, Restrict
  <2>6. \A x \in DOMAIN P : d \notin DOMAIN P[x].contracts
    BY <1>1, <2>1, <2>5
  <2>7. ASSUME NEW x \in DOMAIN P PROVE DOMAIN P[x].contracts \subseteq DOMAIN L
    <3>1. x \in DOMAIN e.protocols /\ x # m /\ P[x] = e.protocols[x]
      BY <2>5
    <3>2. ASSUME NEW c \in DOMAIN e.protocols[x].contracts PROVE c \in DOMAIN L
      <4>1. Owner(c) = x /\ c \in DOMAIN e.lookup
        BY <1>1, <3>1
      <4>2. c \notin DOMAIN e.protocols[m].contracts
        BY <1>1, <1>2, <2>1, <3>1, <4>1
      <4> QED  BY <2>5, <4>1, <4>2
    <3> QED  BY <3>1, <3>2
  <2>8. ProjectsOK(P, L, D, q2, F, at2)
    <3>1. Part(P, e.protocols) /\ Part(L, e.lookup) /\ Forgets(P, L, d)
      BY <2>5, <2>6, <2>7 DEF Part, Forgets
    <3> QED  BY <3>1, ProjectCleared
  <2> QED  BY <2>4, <2>8 DEF OnlyCleared
<1>3. CASE ~(d \in DOMAIN e.lookup /\ Owner(d) \in DOMAIN e.protocols)
  <2>1. e2 = e
    BY <1>1, <1>3 DEF clear_protocol_associated_with_contract, clear_protocol
  <2>2. \A x \in DOMAIN e.protocols : d \notin DOMAIN e.protocols[x].contracts
    BY <1>1, <1>3
  <2>3. \A x \in DOMAIN e.protocols : DOMAIN e.protocols[x].contracts \subseteq DOMAIN e.lookup
    BY <1>1
  <2>4. Part(e.protocols, e.protocols) /\ Part(e.lookup, e.lookup) /\ Forgets(e.protocols, e.lookup, d)
    BY <2>2, <2>3 DEF Part, Forgets
  <2>5. ProjectsOK(e.protocols, e.lookup, D, q2, F, at2)
    BY <2>4, ProjectCleared
  <2> QED  BY <2>1, <2>5 DEF OnlyCleared
<1> QED  BY <1>2, <1>3

LEMMA ContractSavedStep ==
    ASSUME IInv, ContractSaved
    PROVE  IInv'
<1>1. /\ queue # <<>> /\ queue[1].uri \in Contracts /\ queue[1].method = "didSave"
      /\ Head(queue) = queue[1] /\ task.at = "idle"
  <2>1. queue # <<>> /\ Head(queue).uri \in Contracts /\ Head(queue).method = "didSave" /\ task.at = "idle"
    BY DEF ContractSaved, Starts, InFlight
  <2> QED  BY <2>1, HeadIsKnown
<1>2. PICK q, e, e2, d, D, F :
         /\ q = queue /\ e = es /\ e2 = es' /\ d = queue[1].uri /\ D = shown /\ F = disk
  OBVIOUS
<1>3. /\ q[1].method = "didSave" /\ q[1].uri = d /\ d \in Contracts
      /\ 1 \in DOMAIN q /\ DOMAIN q \subseteq Nat \ {0} /\ q # <<>>
  BY <1>1, <1>2, HeadIsKnown
<1>4. /\ e2 = clear_protocol_associated_with_contract(e, d)
      /\ UNCHANGED <<client, shown, panicked>>
  BY <1>1, <1>2 DEF ContractSaved
<1>5. IsState(e) /\ ProjectsOK(e.protocols, e.lookup, D, q, F, "idle")
  BY <1>1, <1>2 DEF IInv
<1>6. /\ CacheOK(e.asts) /\ e.base \in Seq(Slots) /\ panicked' = FALSE
      /\ \A c \in DOMAIN e.active : c \in Contracts /\ ActiveOK(e.active[c])
  BY <1>2, <1>4 DEF IInv, ClientOK
<1>7. ASSUME NEW c PROVE ~OfBuffer(q[1], c)
  BY <1>3 DEF OfBuffer
<1>8. CASE Finish
  <2>1. PICK q2 : q2 = queue'
    OBVIOUS
  <2>2. Shorter(q, q2)
    BY <1>1, <1>2, <1>8, <2>1, HeadIsKnown DEF Finish
  <2>3. ASSUME NEW c, c # d PROVE Pending(q, "idle", c) => Pending(q2, "idle", c)
    <3>1. ~Is(q[1], "didSave", c)
      BY <1>3, <2>3 DEF Is
    <3> QED  BY <2>2, <3>1, PendingShift
  <2>4. OnlyCleared(e, e2, D, q2, F, "idle")
    <3>1. StillPending(q, "idle", q2, "idle", d)
      BY <2>3 DEF StillPending
    <3> QED  BY <1>4, <1>5, <3>1, SavedCleared
  <2>5. ASSUME NEW c \in Contracts
        PROVE  BufferOK(queue', buffer[c], disk[c], es'.active, "idle", c, unsaved)
    <3>1. PICK b, f : b = buffer[c] /\ f = F[c]
      OBVIOUS
    <3>2. BufferOK(q, b, f, e.active, "idle", c, unsaved)
      BY <1>1, <1>2, <3>1 DEF IInv
    <3>3. BufferOK(q2, b, f, e.active, "idle", c, unsaved)
      BY <1>7, <2>2, <3>2, OthersHandled
    <3> QED  BY <1>2, <2>1, <2>4, <3>1, <3>3 DEF OnlyCleared
  <2>6. /\ IsState(es') /\ CacheOK(es'.asts) /\ es'.base \in Seq(Slots)
        /\ \A c \in DOMAIN es'.active : c \in Contracts /\ ActiveOK(es'.active[c])
    BY <1>2, <1>6, <2>4 DEF OnlyCleared
  <2>7. ProjectsOK(es'.protocols, es'.lookup, shown', queue', disk, "idle")
    BY <1>2, <1>4, <2>1, <2>4 DEF OnlyCleared
  <2> QED  BY <1>1, <1>4, <1>6, <1>8, <2>5, <2>6, <2>7, FinishKeeps
<1>9. CASE UNCHANGED queue /\ \E m \in Manifests : BuildFor(m, {d})
  <2>1. PICK m \in Manifests : BuildFor(m, {d})
    BY <1>9
  <2> DEFINE t == task'
  <2>2. t = Task("building", m, NoProject, {d}, 0, {}, Empty)
    BY <2>1, BuildTask DEF BuildFor
  <2>3. LET u == Task("building", m, NoProject, {d}, 0, {}, Empty)
        IN  TaskOK(u, q) /\ u.at = "building"
    BY <1>3, NewTaskIsOK
  <2>4. TaskOK(task', queue) /\ task'.at = "building"
    BY <1>2, <2>2, <2>3
  <2>5. ASSUME NEW c, c # d PROVE Pending(q, "idle", c) => Pending(q, "building", c)
    <3>1. ~Is(q[1], "didSave", c)
      BY <1>3, <2>5 DEF Is
    <3> QED  BY <1>3, <3>1, PendingStays
  <2>6. OnlyCleared(e, e2, D, q, F, "building")
    <3>1. StillPending(q, "idle", q, "building", d)
      BY <2>5 DEF StillPending
    <3> QED  BY <1>4, <1>5, <3>1, SavedCleared
  <2>7. ASSUME NEW c \in Contracts
        PROVE  BufferOK(queue, buffer[c], disk[c], es'.active, task'.at, c, unsaved)
    <3>1. PICK b, f : b = buffer[c] /\ f = F[c]
      OBVIOUS
    <3>2. BufferOK(q, b, f, e.active, "idle", c, unsaved)
      BY <1>1, <1>2, <3>1 DEF IInv
    <3>3. BufferOK(q, b, f, e.active, "building", c, unsaved)
      BY <3>2, Ongoing
    <3> QED  BY <1>2, <2>4, <2>6, <3>1, <3>3 DEF OnlyCleared
  <2>8. /\ IsState(es') /\ CacheOK(es'.asts) /\ es'.base \in Seq(Slots)
        /\ \A c \in DOMAIN es'.active : c \in Contracts /\ ActiveOK(es'.active[c])
    BY <1>2, <1>6, <2>6 DEF OnlyCleared
  <2>9. ProjectsOK(es'.protocols, es'.lookup, shown', queue, disk, task'.at)
    BY <1>2, <1>4, <2>4, <2>6 DEF OnlyCleared
  <2> QED  BY <1>4, <1>9, <2>4, <2>7, <2>8, <2>9, GoOnKeeps
<1>10. Finish \/ (UNCHANGED queue /\ \E m \in Manifests : BuildFor(m, {d}))
  <2>1. Home[d] \in Manifests /\ (d \in DOMAIN e.lookup => e.lookup[d].manifest \in Manifests)
    BY <1>3, <1>5, ServerAssumption DEF ProjectsOK
  <2> QED  BY <1>1, <1>2, <2>1 DEF ContractSaved
<1> QED  BY <1>8, <1>9, <1>10

\* The entries of a pass are of the files.
ReadFrom(entries, p, env, F) ==
    /\ CacheOK(entries)
    /\ \A c \in p.contracts : IsAst(entries[<<c, env>>].ast, SourceFor(F[c], env), p.version)

\* A project as it is built describes the files that were read.
LEMMA Consolidated ==
    ASSUME Disjoint, NEW m \in Manifests, NEW p \in Projects[m], NEW F \in [Contracts -> Texts],
           NEW env, NEW ran, env = LastEnvironment(ran), NEW entries, ReadFrom(entries, p, env, F),
           NEW built, built = consolidate(p, entries, env, p.settings, ran)
    PROVE  Describes(built, m, F)
<1>1. /\ built.session = p.settings /\ built.settings = p.settings /\ built.ran = ran
      /\ DOMAIN built.contracts = p.contracts
      /\ \A c \in p.contracts : built.contracts[c] = ContractState(entries[<<c, env>>], p)
  BY DEF consolidate
<1>2. ASSUME NEW c \in p.contracts
      PROVE  /\ c \in Contracts /\ Owner(c) = m
             /\ built.contracts[c].ast # None /\ Current(built, c, F)
  <2>1. c \in Contracts /\ Owner(c) = m /\ p.version \in Nat
    <3>1. c \in Contracts /\ p.version \in Nat
      BY ServerAssumption
    <3>2. \A n \in Manifests : (\E r \in Projects[n] : c \in r.contracts) <=> n = m
      BY DEF Disjoint
    <3> QED  BY <3>1, <3>2 DEF Owner
  <2>2. PICK src : src = SourceFor(F[c], env)
    OBVIOUS
  <2>3. src \in Texts \X BOOLEAN
    BY <2>1, <2>2 DEF SourceFor
  <2>4. IsAst(built.contracts[c].ast, src, p.version) /\ built.contracts[c].version = p.version
    <3>1. PICK entry : entry = entries[<<c, env>>]
      OBVIOUS
    <3>2. IsAst(entry.ast, src, p.version)
      BY <2>2, <3>1 DEF ReadFrom
    <3>3. built.contracts[c] = ContractState(entry, p)
      BY <1>1, <3>1
    <3> QED  BY <3>2, <3>3 DEF ContractState
  <2>5. built.contracts[c].ast \in [source : Texts \X BOOLEAN, version : Nat, deployer : Deployers]
    BY <2>1, <2>3, <2>4 DEF IsAst, Ast
  <2>6. built.contracts[c].ast # None
    BY <2>5, ServerAssumption
  <2>7. Current(built, c, F)
    BY <1>1, <2>2, <2>4 DEF Current, IsAst
  <2> QED  BY <2>1, <2>6, <2>7
<1> QED  BY <1>1, <1>2 DEF Describes

\* The editor state apart from its projects.
PartsOK(e) ==
    /\ IsState(e) /\ CacheOK(e.asts) /\ e.base \in Seq(Slots)
    /\ \A c \in DOMAIN e.active : c \in Contracts /\ ActiveOK(e.active[c])

\* After the write at the end of a build.
CommitOK(e, e2, D, q2, F) ==
    /\ PartsOK(e2) /\ SameTexts(e.active, e2.active) /\ NotInLookup(e2) = {}
    /\ ProjectsOK(e2.protocols, e2.lookup, AggregatedDiagnostics(e2, D), q2, F, "idle")

LEMMA BuildCommitted ==
    ASSUME Disjoint, NEW e, PartsOK(e), NEW m \in Manifests, NEW p \in Projects[m], NEW F \in [Contracts -> Texts],
           NEW env, NEW ran, env = LastEnvironment(ran), NEW entries, ReadFrom(entries, p, env, F),
           NEW base, base = prepared_session(BaseGet(e.base, m), p),
           NEW built, built = consolidate(p, entries, env, base.session, ran),
           NEW saved, NEW e2, e2 = Commit(e, m, base.entry, built, entries, saved),
           NEW D, NEW q, NEW q2, NEW at, ProjectsOK(e.protocols, e.lookup, D, q, F, at),
           PendingKept(q, at, q2)
    PROVE  CommitOK(e, e2, D, q2, F)
<1>1. base.session = p.settings /\ base.entry \in Entries \cup {None}
  <2>1. BaseGet(e.base, m) \in Entries \cup {None}
    BY BaseFound DEF PartsOK
  <2> QED  BY <2>1, Prepared
<1>2. Describes(built, m, F)
  <2>1. built = consolidate(p, entries, env, p.settings, ran)
    BY <1>1
  <2> QED  BY <2>1, Consolidated
<1>3. PICK P, L, asts, slots :
         /\ P = With(e.protocols, m, built)
         /\ L = Extended(e.lookup, [c \in DOMAIN built.contracts |-> Metadata(m, built.contracts[c])])
         /\ asts = Extended(e.asts, entries)
         /\ slots = IF base.entry = None THEN BaseForget(e.base, m) ELSE BaseCommit(e.base, m, base.entry)
  OBVIOUS
<1>4. PICK act : /\ e2 = State(P, L, act, asts, slots)
                 /\ DOMAIN act = DOMAIN e.active
                 /\ \A c \in DOMAIN act : ActiveOK(act[c]) /\ act[c].text = e.active[c].text
  <2>1. IsState(e) /\ \A c \in DOMAIN e.active : ActiveOK(e.active[c])
    BY DEF PartsOK
  <2>2. e2 = Commit(e, m, base.entry, built, entries, saved)
    OBVIOUS
  <2>3. PICK act :
           /\ Commit(e, m, base.entry, built, entries, saved) =
                State(With(e.protocols, m, built),
                      Extended(e.lookup, [c \in DOMAIN built.contracts |-> Metadata(m, built.contracts[c])]),
                      act, Extended(e.asts, entries),
                      IF base.entry = None THEN BaseForget(e.base, m) ELSE BaseCommit(e.base, m, base.entry))
           /\ DOMAIN act = DOMAIN e.active
           /\ \A c \in DOMAIN act : ActiveOK(act[c]) /\ act[c].text = e.active[c].text
    BY ONLY <2>1, Committed
  <2>4. e2 = State(P, L, act, asts, slots)
    BY ONLY <1>3, <2>2, <2>3
  <2> QED  BY ONLY <2>3, <2>4
<1>5. /\ IsState(e2) /\ e2.protocols = P /\ e2.lookup = L /\ e2.active = act
      /\ e2.asts = asts /\ e2.base = slots
  BY <1>4 DEF IsState, State
<1>6. slots \in Seq(Slots)
  <2>1. CASE base.entry = None
    BY <1>3, <2>1, Forgotten DEF PartsOK
  <2>2. CASE base.entry # None
    <3>1. base.entry \in Entries
      BY <1>1, <2>2
    <3> QED  BY <1>3, <2>2, <3>1, Stored DEF PartsOK
  <2> QED  BY <2>1, <2>2
<1>7. CacheOK(asts)
  BY <1>3 DEF CacheOK, Extended, ReadFrom, PartsOK
<1>8. SameTexts(e.active, act) /\ \A c \in DOMAIN act : c \in Contracts /\ ActiveOK(act[c])
  BY <1>4 DEF SameTexts, PartsOK
<1>9. Listed(e.lookup, L, m, built)
  BY <1>3 DEF Listed, Extended, Metadata
<1>10. /\ NotInLookup(e2) = {}
       /\ ProjectsOK(e2.protocols, e2.lookup, AggregatedDiagnostics(e2, D), q2, F, "idle")
  <2>1. e2.protocols = With(e.protocols, m, built) /\ Listed(e.lookup, e2.lookup, m, built)
    BY <1>3, <1>5, <1>9
  <2> QED  BY <1>2, <2>1, ProjectBuilt
<1> QED  BY <1>5, <1>6, <1>7, <1>8, <1>10 DEF CommitOK, PartsOK

LEMMA PassStep ==
    ASSUME IInv, NEW env, Pass(env)
    PROVE  IInv'
<1>1. /\ queue # <<>> /\ queue[1].method \in {"didOpen", "didSave"} /\ task.at = "passes"
      /\ UNCHANGED client
  BY DEF IInv, TaskOK, Pass
<1>2. CASE Fail
  BY <1>1, <1>2, FailKeeps DEF Fail
<1>3. CASE ~Fail
  <2>1. PICK q, t, e, F, D, p, m, entries, ran, base, built, after :
           /\ q = queue /\ t = task /\ e = es /\ F = disk /\ D = shown
           /\ p = t.project /\ m = t.manifest
           /\ entries = Extended(t.entries, GenerateDeployment(p, F, env, e.asts))
           /\ ran = t.ran \cup {env}
           /\ base = prepared_session(BaseGet(e.base, m), p)
           /\ built = consolidate(p, entries, env, base.session, ran)
           /\ after = Commit(e, m, base.entry, built, entries, t.saved)
    OBVIOUS
  <2>2. /\ TaskOK(t, q) /\ t.at = "passes" /\ PartsOK(e)
        /\ F \in [Contracts -> Texts] /\ panicked = FALSE /\ Disjoint
        /\ ProjectsOK(e.protocols, e.lookup, D, q, F, "passes")
    BY <1>1, <2>1 DEF IInv, ClientOK, PartsOK
  <2>3. /\ p \in Projects[m] /\ m \in Manifests /\ CacheOK(t.entries)
        /\ \/ t.env = 1 /\ t.ran = {}
           \/ t.env = 2 /\ t.ran = {"OnChain"}
    BY <2>1, <2>2 DEF TaskOK
  <2>4. Environments[t.env] = env
    BY <2>1 DEF Pass
  <2>5. Environments[1] = "OnChain" /\ Environments[2] = "Simnet" /\ Len(Environments) = 2
    BY DEF Environments
  <2>6. env = LastEnvironment(ran) /\ (t.env = 1 => ran = {"OnChain"})
    <3>1. CASE t.env = 1 /\ t.ran = {}
      BY <2>1, <2>4, <2>5, <3>1 DEF LastEnvironment
    <3>2. CASE t.env = 2 /\ t.ran = {"OnChain"}
      <4>1. env = "Simnet"
        BY <2>4, <2>5, <3>2
      <4>2. "Simnet" \in ran
        BY <2>1, <4>1
      <4>3. ran # {"OnChain"}
        BY <4>2
      <4> QED  BY <3>2, <4>1, <4>3 DEF LastEnvironment
    <3> QED  BY <2>3, <3>1, <3>2
  <2>7. ReadFrom(entries, p, env, F)
    <3>1. LET all == Extended(t.entries, GenerateDeployment(p, F, env, e.asts))
          IN  /\ CacheOK(all)
              /\ \A c \in p.contracts : IsAst(all[<<c, env>>].ast, SourceFor(F[c], env), p.version)
      <4>1. p.deployer \in Deployers
        BY <2>3 DEF Deployers
      <4> QED  BY <2>2, <2>3, <4>1, Generated DEF PartsOK
    <3> QED  BY <2>1, <3>1 DEF ReadFrom
  <2>8. \/ /\ task.env < Len(Environments)
           /\ task' = [task EXCEPT !.env = @ + 1, !.ran = ran, !.entries = entries]
           /\ UNCHANGED <<queue, es, shown, panicked>>
        \/ /\ es' = after
           /\ panicked' = (NotInLookup(after) # {})
           /\ shown' = IF panicked' THEN shown ELSE AggregatedDiagnostics(after, shown)
           /\ Finish
    BY <1>3, <2>1 DEF Pass
  <2>9. CASE /\ task.env < Len(Environments)
             /\ task' = [task EXCEPT !.env = @ + 1, !.ran = ran, !.entries = entries]
             /\ UNCHANGED <<queue, es, shown, panicked>>
    <3>1. PICK t2 : t2 = task'
      OBVIOUS
    <3>2. t2 = Task(t.at, t.manifest, t.project, t.saved, t.env + 1, ran, entries)
      <4>1. IsTask(t)
        BY <2>2 DEF TaskOK
      <4>2. t2 = [t EXCEPT !.env = @ + 1, !.ran = ran, !.entries = entries]
        BY <2>1, <2>9, <3>1
      <4>3. [t EXCEPT !.env = @ + 1, !.ran = ran, !.entries = entries] =
               Task(t.at, t.manifest, t.project, t.saved, t.env + 1, ran, entries)
        BY <4>1, NextPassTask
      <4> QED  BY <4>2, <4>3
    <3>3. t.env = 1 /\ t.env + 1 = 2 /\ ran = {"OnChain"}
      BY <2>1, <2>3, <2>5, <2>6, <2>9
    <3>4. t2 = Task("passes", m, p, t.saved, 2, {"OnChain"}, entries)
      BY <2>1, <2>2, <3>2, <3>3
    <3>5. t2.at = "passes" /\ TaskOK(t2, q)
      BY <2>2, <2>3, <2>7, <3>4 DEF TaskOK, IsTask, Task, ReadFrom
    <3>6. TaskOK(task', queue) /\ task'.at = "passes"
      BY <2>1, <3>1, <3>5
    <3> QED  BY <1>1, <2>9, <3>6, AwaitKeeps
  <2>10. CASE /\ es' = after
              /\ panicked' = (NotInLookup(after) # {})
              /\ shown' = IF panicked' THEN shown ELSE AggregatedDiagnostics(after, shown)
              /\ Finish
    <3>1. PICK q2 : q2 = queue'
      OBVIOUS
    <3>2. Shorter(q, q2) /\ 1 \in DOMAIN q /\ q[1].method \in {"didOpen", "didSave"}
      BY <1>1, <2>1, <2>10, <3>1, HeadIsKnown DEF Finish
    <3>3. PendingKept(q, "passes", q2)
      BY <3>2, PendingShift DEF PendingKept
    <3>4. CommitOK(e, after, D, q2, F)
      BY <2>1, <2>2, <2>3, <2>6, <2>7, <3>3, BuildCommitted
    <3>5. panicked' = FALSE /\ shown' = AggregatedDiagnostics(after, D)
      BY <2>1, <2>10, <3>4 DEF CommitOK
    <3>6. ASSUME NEW c \in Contracts
          PROVE  BufferOK(queue', buffer[c], disk[c], es'.active, "idle", c, unsaved)
      <4>1. PICK b, f : b = buffer[c] /\ f = F[c]
        OBVIOUS
      <4>2. BufferOK(q, b, f, e.active, "passes", c, unsaved)
        BY <1>1, <2>1, <4>1 DEF IInv
      <4>3. BufferOK(q2, b, f, after.active, "idle", c, unsaved)
        BY <3>2, <3>4, <4>2, BuildEnded DEF CommitOK
      <4> QED  BY <2>1, <2>10, <3>1, <4>1, <4>3
    <3>7. ProjectsOK(es'.protocols, es'.lookup, shown', queue', disk, "idle")
      BY <2>1, <2>10, <3>1, <3>4, <3>5 DEF CommitOK
    <3>8. /\ IsState(es') /\ CacheOK(es'.asts) /\ es'.base \in Seq(Slots)
          /\ \A c \in DOMAIN es'.active : c \in Contracts /\ ActiveOK(es'.active[c])
      BY <2>10, <3>4 DEF CommitOK, PartsOK
    <3> QED  BY <1>1, <2>10, <3>5, <3>6, <3>7, <3>8, FinishKeeps
  <2> QED  BY <2>8, <2>9, <2>10
<1> QED  BY <1>2, <1>3

-----------------------------------------------------------------------------
(* The invariant and what follows from it. *)

LEMMA InitIsOK ==
    ASSUME Disjoint, Init
    PROVE  IInv
<1>1. Empty = [x \in {} |-> None] /\ DOMAIN Empty = {}
  BY DEF Empty
<1>2. /\ es = [protocols |-> Empty, lookup |-> Empty, active |-> Empty, asts |-> Empty, base |-> <<>>]
      /\ queue = <<>> /\ task = Idle
  BY DEF Init, EditorStateNew
<1> HIDE DEF Empty
<1>3. /\ IsState(es) /\ es.protocols = Empty /\ es.lookup = Empty /\ es.active = Empty
      /\ es.asts = Empty /\ es.base = <<>>
  BY <1>2 DEF IsState
<1>4. ClientOK
  <2>1. disk \in [Contracts -> Texts] /\ buffer \in [Contracts -> Texts \cup {None}]
    BY ServerAssumption DEF Init
  <2>2. queue \in Seq(Notes) /\ Len(queue) <= MaxQueue /\ edits \in 0..MaxEdits
    BY <1>2, ServerAssumption DEF Init
  <2>3. /\ project \in [Manifests -> UNION {Projects[m] : m \in Manifests}]
        /\ \A m \in Manifests : project[m] \in Projects[m]
    BY ServerAssumption DEF Init
  <2> QED  BY <2>1, <2>2, <2>3 DEF ClientOK, Init
<1>5. TaskOK(task, queue)
  BY <1>2, IdleIsOK
<1>6. CacheOK(es.asts) /\ es.base \in Seq(Slots)
  BY <1>1, <1>3 DEF CacheOK
<1>7. DOMAIN queue = {}
  BY <1>2
<1>8. \A c \in Contracts : BufferOK(queue, buffer[c], disk[c], es.active, task.at, c, unsaved)
  <2>1. DOMAIN es.active = {}
    BY <1>1, <1>3
  <2> QED  BY <1>7, <2>1 DEF BufferOK, TextOK, TurnOK
<1>9. ProjectsOK(es.protocols, es.lookup, shown, queue, disk, task.at)
  BY <1>1, <1>3 DEF ProjectsOK
<1>10. DOMAIN es.active = {}
  BY <1>1, <1>3
<1> QED  BY <1>3, <1>4, <1>5, <1>6, <1>8, <1>9, <1>10 DEF IInv

LEMMA ServerStep ==
    ASSUME IInv, Server
    PROVE  IInv'
  BY ManifestStep, ContractOpenedStep, ContractSavedStep, ContractChangedStep,
     ContractClosedStep, ReadOpenedStep, ReadManifestStep, PassStep DEF Server

LEMMA StutterStep ==
    ASSUME IInv, UNCHANGED vars
    PROVE  IInv'
  BY DEF IInv, ClientOK, vars

\* What the server holds once the queue is empty.
LEMMA SettledState ==
    ASSUME IInv, queue = <<>>
    PROVE  /\ \A c \in DOMAIN es.active : /\ c \notin unsaved => es.active[c].text = buffer[c]
                                          /\ ActiveOK(es.active[c])
           /\ \A m \in DOMAIN es.protocols :
                 LET p == es.protocols[m]
                 IN  /\ p.session = p.settings
                     /\ \A c \in DOMAIN p.contracts :
                           /\ c \in Contracts /\ Current(p, c, disk)
                           /\ shown[c].ast = p.contracts[c].ast
<1>1. DOMAIN queue = {}
  OBVIOUS
<1>2. ASSUME NEW c \in DOMAIN es.active 
      PROVE  (c \notin unsaved => es.active[c].text = buffer[c]) /\ ActiveOK(es.active[c])
  <2>1. c \in Contracts /\ ActiveOK(es.active[c])
    BY DEF IInv
  <2>2. c \notin unsaved => TextOK(queue, buffer[c], disk[c], es.active, c)
    BY <2>1 DEF IInv, BufferOK
  <2> QED  BY <1>1, <2>1, <2>2 DEF TextOK
<1>3. ASSUME NEW c PROVE ~Pending(queue, task.at, c)
  BY <1>1 DEF Pending
<1>4. ASSUME NEW m \in DOMAIN es.protocols
      PROVE  ProjectOK(m, es.protocols[m], es.lookup, shown, queue, disk, task.at)
  BY DEF IInv, ProjectsOK
<1> QED  BY <1>2, <1>3, <1>4 DEF ProjectOK

-----------------------------------------------------------------------------
(* The deployers that contracts were parsed for. *)

\* Every parse is for a deployer that the manifest of its contract has named.
Named(ds, asts) ==
    \A key \in DOMAIN asts :
        Owner(key[1]) \in Manifests /\ asts[key].ast.deployer \in ds[Owner(key[1])]
NamedIn(ds, m, p) == \A c \in DOMAIN p.contracts : p.contracts[c].ast.deployer \in ds[m]

DInv ==
    /\ deployers \in [Manifests -> SUBSET Deployers]
    /\ \A m \in Manifests : project[m].deployer \in deployers[m]
    /\ Named(deployers, es.asts) /\ Named(deployers, task.entries)
    /\ task.at = "passes" => task.project.deployer \in deployers[task.manifest]
    /\ \A m \in DOMAIN es.protocols : NamedIn(deployers, m, es.protocols[m])

\* A pass adds parses for the deployer of its project.
LEMMA PassNamed ==
    ASSUME Disjoint, NEW m \in Manifests, NEW p \in Projects[m], NEW ds, p.deployer \in ds[m],
           NEW F, NEW env, NEW asts, Named(ds, asts), NEW entries, Named(ds, entries),
           NEW all, all = Extended(entries, GenerateDeployment(p, F, env, asts))
    PROVE  /\ Named(ds, all)
           /\ \A c \in p.contracts : all[<<c, env>>].ast.deployer \in ds[m]
<1>1. PICK g : g = GenerateDeployment(p, F, env, asts)
  OBVIOUS
<1>2. /\ DOMAIN g = p.contracts \X {env}
      /\ \A key \in DOMAIN g :
            g[key] = try_reuse(asts, key, SourceFor(F[key[1]], env), p.version, p.deployer)
  BY <1>1 DEF GenerateDeployment
<1>3. ASSUME NEW c \in p.contracts PROVE Owner(c) = m
  <2>1. \A n \in Manifests : (\E r \in Projects[n] : c \in r.contracts) <=> n = m
    BY DEF Disjoint
  <2> QED  BY <2>1 DEF Owner
<1>4. ASSUME NEW key \in DOMAIN g PROVE g[key].ast.deployer \in ds[m] /\ Owner(key[1]) = m
  <2>1. Owner(key[1]) = m
    BY <1>2, <1>3
  <2>2. PICK source : source = SourceFor(F[key[1]], env)
    OBVIOUS
  <2>3. g[key] = try_reuse(asts, key, source, p.version, p.deployer)
    BY <1>2, <2>2
  <2>4. CachedAst(source, p.version, p.deployer).ast.deployer = p.deployer
    BY DEF CachedAst, Ast
  <2>5. CASE key \in DOMAIN asts /\ g[key] = asts[key]
    BY <2>1, <2>5 DEF Named
  <2>6. CASE g[key] = CachedAst(source, p.version, p.deployer)
    BY <2>1, <2>4, <2>6
  <2> QED  BY <2>3, <2>5, <2>6 DEF try_reuse
<1>5. /\ DOMAIN all = DOMAIN g \cup DOMAIN entries
      /\ \A key \in DOMAIN all : all[key] = IF key \in DOMAIN g THEN g[key] ELSE entries[key]
  BY <1>1 DEF Extended
<1>6. Named(ds, all)
  BY <1>4, <1>5 DEF Named
<1>7. ASSUME NEW c \in p.contracts PROVE all[<<c, env>>].ast.deployer \in ds[m]
  <2>1. <<c, env>> \in DOMAIN g
    BY <1>2
  <2> QED  BY <1>4, <1>5, <2>1
<1> QED  BY <1>6, <1>7

\* The history of the deployers only grows.
LEMMA UserNames ==
    ASSUME IInv, DInv, User
    PROVE  DInv'
<1>1. task' = task /\ es' = es
  BY DEF User, OpenContract, EditContract, SaveContract, CloseContract, OpenManifest, SaveManifest,
         ServerIdles
<1>2. CASE deployers' = deployers /\ project' = project
  BY <1>1, <1>2 DEF DInv
<1>3. ASSUME NEW m \in Manifests, NEW p \in Projects[m], SaveManifest(m, p) PROVE DInv'
  <2>1. PICK ds, ds2 : ds = deployers /\ ds2 = deployers'
    OBVIOUS
  <2>2. ds \in [Manifests -> SUBSET Deployers] /\ p.deployer \in Deployers
    BY <2>1 DEF DInv, Deployers
  <2>3. ds2 = [ds EXCEPT ![m] = @ \cup {p.deployer}]
    BY <1>3, <2>1 DEF SaveManifest
  <2>4. /\ ds2 \in [Manifests -> SUBSET Deployers] /\ p.deployer \in ds2[m]
        /\ \A n \in Manifests : ds[n] \subseteq ds2[n]
    BY ONLY <2>2, <2>3
  <2>5. \A n \in Manifests : project'[n].deployer \in ds2[n]
    <3>1. \A n \in Manifests : project[n].deployer \in ds[n]
      BY <2>1 DEF DInv
    <3>2. project' = [project EXCEPT ![m] = p] /\ DOMAIN project = Manifests
      BY <1>3 DEF SaveManifest, IInv, ClientOK
    <3> QED  BY <2>4, <3>1, <3>2
  <2>6. ASSUME NEW asts, Named(ds, asts) PROVE Named(ds2, asts)
    BY <2>4, <2>6 DEF Named
  <2>7. \A n \in DOMAIN es.protocols : NamedIn(ds2, n, es.protocols[n])
    <3>1. ASSUME NEW n \in DOMAIN es.protocols PROVE n \in Manifests /\ NamedIn(ds, n, es.protocols[n])
      BY <2>1 DEF DInv, IInv, ProjectsOK, ProjectOK
    <3> QED  BY <2>4, <3>1 DEF NamedIn
  <2>8. task.at = "passes" => task.project.deployer \in ds2[task.manifest]
    BY <2>1, <2>4 DEF DInv, IInv, TaskOK
  <2>9. Named(ds2, es.asts) /\ Named(ds2, task.entries)
    BY <2>1, <2>6 DEF DInv
  <2> QED  BY <1>1, <2>1, <2>4, <2>5, <2>7, <2>8, <2>9 DEF DInv
<1> QED  BY <1>2, <1>3 DEF User, OpenContract, EditContract, SaveContract, CloseContract, OpenManifest

\* Steps that parse nothing.
NothingParsed(e, e2, t2) ==
    /\ e2.asts = e.asts
    /\ \A m \in DOMAIN e2.protocols : m \in DOMAIN e.protocols /\ e2.protocols[m] = e.protocols[m]
    /\ t2.entries = Empty /\ t2.at # "passes"

LEMMA NothingParsedNames ==
    ASSUME DInv, UNCHANGED <<project, deployers>>, NothingParsed(es, es', task')
    PROVE  DInv'
<1>1. Named(deployers, Empty)
  BY DEF Named, Empty
<1> QED  BY <1>1 DEF DInv, NothingParsed

LEMMA StartedParsesNothing ==
    ASSUME NEW m, NEW saved, NEW e
    PROVE  /\ NothingParsed(e, e, Idle)
           /\ NothingParsed(e, e, [Idle EXCEPT !.at = "building", !.manifest = m, !.saved = saved])
           /\ NothingParsed(e, e, [Idle EXCEPT !.at = "opening", !.manifest = m])
<1>1. Idle.entries = Empty /\ Idle.at = "idle"
  BY DEF Idle
<1>2. PICK t : t = Task("building", m, NoProject, saved, 0, {}, Empty)
  OBVIOUS
<1>3. t.entries = Empty /\ t.at = "building"
  BY <1>2 DEF Task
<1>4. PICK u : u = Task("opening", m, NoProject, {}, 0, {}, Empty)
  OBVIOUS
<1>5. u.entries = Empty /\ u.at = "opening"
  BY <1>4 DEF Task
<1>6. /\ [Idle EXCEPT !.at = "building", !.manifest = m, !.saved = saved] = t
      /\ [Idle EXCEPT !.at = "opening", !.manifest = m] = u
  BY <1>2, <1>4, BuildTask, OpenTask
<1> QED  BY <1>1, <1>3, <1>5, <1>6 DEF NothingParsed

LEMMA HandlersParseNothing ==
    ASSUME IInv,
           \/ ManifestOpened \/ ManifestSaved \/ ContractOpened \/ ContractSaved
           \/ ContractChanged \/ ContractClosed \/ ReadOpened
    PROVE  NothingParsed(es, es', task')
<1>1. PICK e, e2, t2 : e = es /\ e2 = es' /\ t2 = task'
  OBVIOUS
<1>2. IsState(e)
  BY <1>1 DEF IInv
<1>3. \/ t2 = Idle
      \/ \E m, saved : t2 = [Idle EXCEPT !.at = "building", !.manifest = m, !.saved = saved]
      \/ \E m : t2 = [Idle EXCEPT !.at = "opening", !.manifest = m]
  <2>1. Finish \/ (\E m, saved : BuildFor(m, saved)) \/ \E m : task' = [Idle EXCEPT !.at = "opening", !.manifest = m]
    <3>1. CASE ManifestOpened \/ ManifestSaved
      BY <3>1, Zenon DEF ManifestOpened, ManifestSaved
    <3>2. CASE ContractOpened
      BY <3>2, Zenon DEF ContractOpened, Fail
    <3>3. CASE ContractSaved
      BY <3>3, Zenon DEF ContractSaved
    <3>4. CASE ContractChanged \/ ContractClosed
      BY <3>4, Zenon DEF ContractChanged, ContractClosed, Quiet
    <3>5. CASE ReadOpened
      BY <3>5, Zenon DEF ReadOpened, Fail
    <3> QED  BY <3>1, <3>2, <3>3, <3>4, <3>5
  <2> QED  BY <1>1, <2>1, Zenon DEF Finish, BuildFor
<1>4. NothingParsed(e, e, t2)
  <2>1. CASE t2 = Idle
    BY <2>1, StartedParsesNothing, Zenon
  <2>2. ASSUME NEW m, NEW saved, t2 = [Idle EXCEPT !.at = "building", !.manifest = m, !.saved = saved]
        PROVE  NothingParsed(e, e, t2)
    BY <2>2, StartedParsesNothing, Zenon
  <2>3. ASSUME NEW m, t2 = [Idle EXCEPT !.at = "opening", !.manifest = m] PROVE NothingParsed(e, e, t2)
    BY <2>3, StartedParsesNothing, Zenon
  <2> QED  BY <1>3, <2>1, <2>2, <2>3, Zenon
<1>5. \/ e2 = e
      \/ \E m \in DOMAIN e.protocols : e2 = clear_protocol(e, m)
      \/ \E c : e2 = remove_active_contract(e, c)
      \/ \E c \in DOMAIN e.active : \E text : e2 = update_active_contract(e, c, text)
      \/ \E c, version, issuer, text : e2 = insert_active_contract(e, c, version, issuer, text)
  <2>1. CASE ManifestOpened \/ ManifestSaved \/ ContractOpened
    BY <1>1, <2>1 DEF ManifestOpened, ManifestSaved, ContractOpened, Fail
  <2>2. CASE ContractSaved
    <3>1. e2 = clear_protocol_associated_with_contract(e, Head(queue).uri)
      BY <1>1, <2>2 DEF ContractSaved
    <3>2. e2 = e \/ \E m : e2 = clear_protocol(e, m)
      BY <3>1 DEF clear_protocol_associated_with_contract
    <3> QED  BY <3>2 DEF clear_protocol
  <2>3. CASE ContractChanged
    <3>1. e2 = update_active_contract(e, Head(queue).uri, Head(queue).text)
      BY <1>1, <2>3 DEF ContractChanged, Quiet
    <3>2. Head(queue).uri \notin DOMAIN e.active => e2 = e
      BY <3>1 DEF update_active_contract
    <3> QED  BY <3>1, <3>2
  <2>4. CASE ContractClosed
    BY <1>1, <2>4 DEF ContractClosed, Quiet
  <2>5. CASE ReadOpened
    <3>1. \/ e2 = e
          \/ e2 = LET c == Head(queue).uri
                      m == task.manifest
                      known == c \in DOMAIN es.lookup
                      version == IF known THEN es.lookup[c].version
                                 ELSE IF c \in project[m].contracts THEN project[m].version ELSE BootVersion
                      issuer == IF known THEN es.lookup[c].issuer ELSE None
                  IN  insert_active_contract(e, c, version, issuer, disk[c])
      BY <1>1, <2>5 DEF ReadOpened, Fail
    <3> QED  BY <3>1
  <2> QED  BY <2>1, <2>2, <2>3, <2>4, <2>5
<1>6. ASSUME NEW P, NEW L, NEW A, e2 = [protocols |-> P, lookup |-> L, active |-> A, asts |-> e.asts, base |-> e.base],
             \A m \in DOMAIN P : m \in DOMAIN e.protocols /\ P[m] = e.protocols[m]
      PROVE  NothingParsed(e, e2, t2)
  BY <1>4, <1>6 DEF NothingParsed
<1>7. ASSUME NEW m \in DOMAIN e.protocols, e2 = clear_protocol(e, m) PROVE NothingParsed(e, e2, t2)
  <2>1. PICK P : P = Without(e.protocols, {m})
    OBVIOUS
  <2>2. \A n \in DOMAIN P : n \in DOMAIN e.protocols /\ P[n] = e.protocols[n]
    BY <2>1 DEF Without, Restrict
  <2>3. e2 = [protocols |-> P, lookup |-> Without(e.lookup, DOMAIN e.protocols[m].contracts),
              active |-> e.active, asts |-> e.asts, base |-> e.base]
    BY <1>2, <1>7, <2>1, Cleared, Zenon
  <2> QED  BY <1>6, <2>2, <2>3
<1>8. ASSUME NEW c, e2 = remove_active_contract(e, c) PROVE NothingParsed(e, e2, t2)
  <2>1. e2 = [protocols |-> e.protocols, lookup |-> e.lookup, active |-> Without(e.active, {c}),
              asts |-> e.asts, base |-> e.base]
    BY <1>2, <1>8, Removed, Zenon
  <2> QED  BY <1>6, <2>1, Zenon
<1>9. ASSUME NEW c \in DOMAIN e.active, NEW text, e2 = update_active_contract(e, c, text)
      PROVE  NothingParsed(e, e2, t2)
  BY <1>2, <1>6, <1>9, Updated
<1>10. ASSUME NEW c, NEW version, NEW issuer, NEW text, e2 = insert_active_contract(e, c, version, issuer, text)
       PROVE  NothingParsed(e, e2, t2)
  BY <1>2, <1>6, <1>10, Inserted
<1> QED  BY <1>1, <1>4, <1>5, <1>7, <1>8, <1>9, <1>10

LEMMA ReadManifestNames ==
    ASSUME IInv, DInv, ReadManifest
    PROVE  DInv'
<1>1. es' = es /\ project' = project /\ deployers' = deployers /\ task.at = "building"
  BY DEF ReadManifest, client
<1>2. CASE Finish
  BY <1>1, <1>2, StartedParsesNothing, NothingParsedNames DEF Finish
<1>3. CASE task' = [task EXCEPT !.at = "passes", !.project = project[task.manifest], !.env = 1]
  <2>1. PICK t, t2, p : t = task /\ t2 = task' /\ p = project[task.manifest]
    OBVIOUS
  <2>2. IsTask(t) /\ t.manifest \in Manifests
    BY <1>1, <2>1 DEF IInv, TaskOK
  <2>3. t2 = Task("passes", t.manifest, p, t.saved, 1, t.ran, t.entries)
    BY <1>3, <2>1, <2>2, PassTask
  <2>4. t2.manifest = t.manifest /\ t2.project = p /\ t2.entries = t.entries
    BY <2>3 DEF Task
  <2>5. p.deployer \in deployers[t.manifest]
    BY <2>1, <2>2 DEF DInv
  <2> QED  BY <1>1, <2>1, <2>4, <2>5 DEF DInv
<1> QED  BY <1>2, <1>3 DEF ReadManifest

LEMMA PassNames ==
    ASSUME IInv, DInv, NEW env, Pass(env)
    PROVE  DInv'
<1>0. project' = project /\ deployers' = deployers /\ task.at = "passes"
  BY DEF Pass, client
<1>1. CASE Fail
  BY <1>0, <1>1, StartedParsesNothing, NothingParsedNames DEF Fail, Finish
<1>2. CASE ~Fail
  <2>1. PICK t, e, F, p, m, entries, ran, base, built, after, ds :
           /\ t = task /\ e = es /\ F = disk /\ p = t.project /\ m = t.manifest /\ ds = deployers
           /\ entries = Extended(t.entries, GenerateDeployment(p, F, env, e.asts))
           /\ ran = t.ran \cup {env}
           /\ base = prepared_session(BaseGet(e.base, m), p)
           /\ built = consolidate(p, entries, env, base.session, ran)
           /\ after = Commit(e, m, base.entry, built, entries, t.saved)
    OBVIOUS
  <2>2. IsTask(t) /\ m \in Manifests /\ p \in Projects[m] /\ Disjoint
    BY <1>0, <2>1 DEF IInv, ClientOK, TaskOK
  <2>3. /\ p.deployer \in ds[m] /\ Named(ds, e.asts) /\ Named(ds, t.entries)
        /\ \A n \in DOMAIN e.protocols : NamedIn(ds, n, e.protocols[n])
    BY <1>0, <2>1 DEF DInv
  <2>4. Named(ds, entries) /\ \A c \in p.contracts : entries[<<c, env>>].ast.deployer \in ds[m]
    BY <2>1, <2>2, <2>3, PassNamed
  <2>5. \/ /\ task' = [task EXCEPT !.env = @ + 1, !.ran = ran, !.entries = entries]
           /\ es' = es
        \/ es' = after /\ task' = Idle
    BY <1>2, <2>1 DEF Pass, Finish
  <2>6. CASE task' = [task EXCEPT !.env = @ + 1, !.ran = ran, !.entries = entries] /\ es' = es
    <3>1. PICK t2 : t2 = task'
      OBVIOUS
    <3>2. [t EXCEPT !.env = @ + 1, !.ran = ran, !.entries = entries] =
             Task(t.at, t.manifest, t.project, t.saved, t.env + 1, ran, entries)
      BY <2>2, NextPassTask
    <3>3. t2 = Task(t.at, t.manifest, t.project, t.saved, t.env + 1, ran, entries)
      BY <2>1, <2>6, <3>1, <3>2
    <3>4. t2.manifest = m /\ t2.project = p /\ t2.entries = entries
      BY <2>1, <3>3 DEF Task
    <3> QED  BY <1>0, <2>1, <2>3, <2>4, <2>6, <3>1, <3>4 DEF DInv
  <2>7. CASE es' = after /\ task' = Idle
    <3>1. PICK P, L, asts, slots :
             /\ P = With(e.protocols, m, built)
             /\ L = Extended(e.lookup, [c \in DOMAIN built.contracts |-> Metadata(m, built.contracts[c])])
             /\ asts = Extended(e.asts, entries)
             /\ slots = IF base.entry = None THEN BaseForget(e.base, m) ELSE BaseCommit(e.base, m, base.entry)
      OBVIOUS
    <3>2. PICK act : after = State(P, L, act, asts, slots)
      <4>1. IsState(e) /\ \A c \in DOMAIN e.active : ActiveOK(e.active[c])
        BY <2>1 DEF IInv
      <4>2. after = Commit(e, m, base.entry, built, entries, t.saved)
        BY <2>1
      <4> QED  BY ONLY <3>1, <4>1, <4>2, Committed
    <3>3. after.protocols = P /\ after.asts = asts
      BY <3>2 DEF State
    <3>4. Named(ds, asts)
      <4>1. DOMAIN asts = DOMAIN e.asts \cup DOMAIN entries
        BY <3>1 DEF Extended
      <4>2. \A key \in DOMAIN asts : asts[key] = IF key \in DOMAIN entries THEN entries[key] ELSE e.asts[key]
        BY <3>1 DEF Extended
      <4> QED  BY <2>3, <2>4, <4>1, <4>2 DEF Named
    <3>5. NamedIn(ds, m, built)
      <4>1. /\ DOMAIN built.contracts = p.contracts
            /\ \A c \in p.contracts : built.contracts[c] = ContractState(entries[<<c, env>>], p)
        BY <2>1 DEF consolidate
      <4>2. ASSUME NEW c \in p.contracts PROVE built.contracts[c].ast = entries[<<c, env>>].ast
        <5>1. PICK entry : entry = entries[<<c, env>>]
          OBVIOUS
        <5>2. built.contracts[c] = ContractState(entry, p)
          BY <4>1, <5>1
        <5> QED  BY <5>1, <5>2 DEF ContractState
      <4> QED  BY <2>4, <4>1, <4>2 DEF NamedIn
    <3>6. ASSUME NEW n \in DOMAIN P PROVE NamedIn(ds, n, P[n])
      <4>1. n = m => P[n] = built
        BY <3>1 DEF With, Extended
      <4>2. n # m => n \in DOMAIN e.protocols /\ P[n] = e.protocols[n]
        BY <3>1 DEF With, Extended
      <4>3. CASE n = m
        BY <3>5, <4>1, <4>3, Zenon
      <4>4. CASE n # m
        BY <2>3, <4>2, <4>4, Zenon
      <4> QED  BY <4>3, <4>4
    <3>7. Idle.at = "idle" /\ Named(ds, Idle.entries)
      BY DEF Idle, Named, Empty
    <3>8. Named(deployers, es'.asts) /\ Named(deployers, task'.entries) /\ task'.at = "idle"
      BY <2>1, <2>7, <3>3, <3>4, <3>7, Zenon
    <3>9. \A n \in DOMAIN es'.protocols : NamedIn(deployers, n, es'.protocols[n])
      <4>1. \A n \in DOMAIN P : NamedIn(ds, n, P[n])
        BY <3>6
      <4>2. es'.protocols = P /\ deployers = ds
        BY <2>1, <2>7, <3>3
      <4> QED  BY ONLY <4>1, <4>2, Zenon
    <3> QED  BY <1>0, <3>8, <3>9 DEF DInv
  <2> QED  BY <2>5, <2>6, <2>7
<1> QED  BY <1>1, <1>2

LEMMA ServerNames ==
    ASSUME IInv, DInv, Server
    PROVE  DInv'
<1>1. project' = project /\ deployers' = deployers
  BY DEF Server, ManifestOpened, ManifestSaved, ContractOpened, ContractSaved, ContractChanged,
         ContractClosed, ReadOpened, ReadManifest, Pass, client
<1> QED  BY <1>1, HandlersParseNothing, NothingParsedNames, ReadManifestNames, PassNames DEF Server

LEMMA InitNames ==
    ASSUME Init
    PROVE  DInv
<1>1. /\ es.asts = Empty /\ es.protocols = Empty /\ task.entries = Empty /\ task.at = "idle"
  BY DEF Init, EditorStateNew, Idle
<1>2. project = FirstProject /\ deployers = [m \in Manifests |-> {FirstProject[m].deployer}]
  BY DEF Init
<1>3. \A m \in Manifests : FirstProject[m].deployer \in Deployers
  BY ServerAssumption DEF Deployers
<1> QED  BY <1>1, <1>2, <1>3 DEF DInv, Named, Empty

LEMMA DeployersNamed == Disjoint /\ Spec => [](IInv /\ DInv)
<1>1. Disjoint /\ Init => IInv /\ DInv
  BY InitIsOK, InitNames
<1>2. IInv /\ DInv /\ [Next]_vars => IInv' /\ DInv'
  <2>1. ASSUME IInv, DInv, UNCHANGED vars PROVE DInv'
    BY <2>1 DEF DInv, vars
  <2> QED  BY <2>1, UserStep, ServerStep, StutterStep, UserNames, ServerNames DEF Next
<1> QED  BY <1>1, <1>2, PTL DEF Spec

-----------------------------------------------------------------------------
(* The properties.  All are about projects that share no contract. *)

\* Type correctness.
THEOREM TypeCorrect == Disjoint /\ Spec => []TypeOK
<1>1. ASSUME IInv, DInv PROVE TypeOK
  <2>1. \A n \in Range(queue) : n.method \in Kinds /\ n.uri \in Contracts \cup Manifests
    <3>1. queue \in Seq(Notes)
      BY <1>1 DEF IInv, ClientOK
    <3>2. ASSUME NEW n \in Range(queue) PROVE n \in Notes
      BY <3>1 DEF Range
    <3> QED  BY <3>2 DEF Notes
  <2>2. DOMAIN es.protocols \subseteq Manifests
    BY <1>1 DEF IInv, ProjectsOK, ProjectOK
  <2>3. DOMAIN es.lookup \cup DOMAIN es.active \subseteq Contracts
    BY <1>1 DEF IInv, ProjectsOK
  <2>4. task.at \in {"idle", "opening", "building", "passes"} /\ ((task.at # "idle") => (queue # <<>>))
    BY <1>1 DEF IInv, TaskOK
  <2>5. deployers \in [Manifests -> SUBSET Deployers]
    BY <1>1 DEF DInv
  <2> QED  BY <1>1, <2>1, <2>2, <2>3, <2>4, <2>5 DEF TypeOK, IInv, ClientOK
<1> QED  BY <1>1, DeployersNamed, PTL

\* If no contract is in two projects, get_aggregated_diagnostics never fails its
\* expect: the lookup holds every contract of every analysed project, whatever was
\* saved, cleared and rebuilt (state.rs:701).  Without the hypothesis it does fail.
THEOREM DisjointNeverPanics == Disjoint /\ Spec => []NeverPanics
<1>1. IInv => NeverPanics
  BY DEF IInv, ClientOK, NeverPanics
<1> QED  BY <1>1, DeployersNamed, PTL

\* If no contract is in two projects, once the queue is empty every open contract
\* has the text of its buffer, or was opened with an unsaved text and not edited
\* since; and every analysed project is that of the files, shown as it is and run on
\* boot contracts of its own settings, parsed for a deployer its manifest has named,
\* for any number of contracts and projects and whatever reads failed or
\* notifications were merged (common.ts, backend.rs, types.rs:205).
THEOREM ServerFollowsEditor == Disjoint /\ Spec => []ServerIsCurrent
<1>1. ASSUME IInv, DInv PROVE ServerIsCurrent
  <2>1. SUFFICES ASSUME queue = <<>>
        PROVE  /\ \A c \in DOMAIN es.active \ unsaved : es.active[c].text = buffer[c]
               /\ \A m \in DOMAIN es.protocols :
                     LET p == es.protocols[m]
                         env == IF p.ran = {"OnChain"} THEN "OnChain" ELSE "Simnet"
                     IN  /\ p.session = p.settings
                         /\ \A c \in DOMAIN p.contracts :
                               /\ \E d \in deployers[m] :
                                     p.contracts[c].ast =
                                        Ast(SourceFor(disk[c], env), p.contracts[c].version, d)
                               /\ shown[c].ast = p.contracts[c].ast
    BY DEF ServerIsCurrent, Settled
  <2>2. ASSUME NEW m \in DOMAIN es.protocols, NEW c \in DOMAIN es.protocols[m].contracts
        PROVE  es.protocols[m].contracts[c].ast.deployer \in deployers[m]
    BY <1>1 DEF DInv, NamedIn
  <2> QED  BY <1>1, <2>1, <2>2, SettledState DEF Current, LastEnvironment
<1> QED  BY <1>1, DeployersNamed, PTL

\* If no contract is in two projects, no request about a contract is answered from a
\* text the user has since changed: a request is dropped while a notification is in
\* flight, and afterwards the answer is computed from the buffer, or for a lens from
\* the file (common.ts, state.rs).  A contract that was opened with an unsaved text is
\* exempt until it is edited (vscode_bridge.rs:70).
THEOREM AnswersFollowEditor == Disjoint /\ Spec => []AnswersAreCurrent
<1>1. ASSUME IInv, queue # <<>> PROVE AnswersAreCurrent
  BY <1>1 DEF AnswersAreCurrent, onRequest
<1>2. ASSUME IInv, queue = <<>> PROVE AnswersAreCurrent
  <2>1. ASSUME NEW answer PROVE onRequest(queue, answer) = answer
    BY <1>2 DEF onRequest
  <2>2. ASSUME NEW c \in Contracts \ unsaved, c \in DOMAIN es.active
        PROVE  /\ es.active[c].text = buffer[c]
               /\ es.active[c].expressions # None =>
                     es.active[c].expressions.source = buffer[c] /\ buffer[c] \notin Broken
               /\ es.active[c].definitions # None => es.active[c].definitions.of = es.active[c].expressions
    <3>1. PICK a : a = es.active[c]
      OBVIOUS
    <3>2. a.text = buffer[c] /\ ActiveOK(a)
      BY <1>2, <2>2, <3>1, SettledState
    <3>3. a.expressions = Parsed(a.text, a.version) /\ (a.definitions # None => a.definitions.of = a.expressions)
      BY <3>2 DEF ActiveOK
    <3>4. a.expressions # None => a.expressions.source = a.text /\ a.text \notin Broken
      BY <3>3 DEF Parsed
    <3> QED  BY <3>1, <3>2, <3>3, <3>4
  <2>3. ASSUME NEW c \in Contracts \ unsaved
        PROVE  /\ get_completion_items(es, c) \subseteq {buffer[c]}
               /\ get_document_symbols(es, c) \subseteq {buffer[c]}
               /\ get_document_symbols(es, c) # {} => buffer[c] \notin Broken
               /\ get_definition_location(es, c) \subseteq {buffer[c]}
    BY <2>2 DEF get_completion_items, get_document_symbols, get_definition_location
  <2>4. ASSUME NEW c \in Contracts \ unsaved
        PROVE  get_code_lenses(es, c) \subseteq
                  IF buffer[c] \in Broken THEN {disk[c]} ELSE {buffer[c], disk[c]}
    <3>1. CASE ProtocolOf(es, c) = None \/ c \notin DOMAIN ProtocolOf(es, c).contracts
      BY <3>1 DEF get_code_lenses
    <3>2. CASE ProtocolOf(es, c) # None /\ c \in DOMAIN ProtocolOf(es, c).contracts
      <4>1. PICK m \in DOMAIN es.protocols : ProtocolOf(es, c) = es.protocols[m]
        BY <3>2 DEF ProtocolOf, Lookup
      <4>2. Current(es.protocols[m], c, disk)
        BY <1>2, <3>2, <4>1, SettledState
      <4>3. es.protocols[m].contracts[c].ast.source[1] = disk[c]
        BY <4>2 DEF Current, Ast, SourceFor
      <4> QED  BY <2>3, <3>2, <4>1, <4>3 DEF get_code_lenses
    <3> QED  BY <3>1, <3>2
  <2> QED  BY <2>1, <2>3, <2>4 DEF AnswersAreCurrent, get_hover_data, get_signature_help, Formatting
<1>3. IInv => AnswersAreCurrent
  BY <1>1, <1>2
<1> QED  BY <1>3, DeployersNamed, PTL
=============================================================================
