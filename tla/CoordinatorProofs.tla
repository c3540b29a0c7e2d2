-------------------------- MODULE CoordinatorProofs --------------------------
(***************************************************************************)
(* A bitcoin event that is handled in its turn reaches the coordinator     *)
(* with all its blocks, for any number of requests served at once and      *)
(* chains of any length.                                                   *)
(*                                                                         *)
(* The argument: a handler queues a block before it indexes the header, so *)
(* a header above the tip has its block in the store or in the queue; an   *)
(* event is numbered under the indexer's lock and takes the headers just   *)
(* above the tip, so of two events the one with the greater number is      *)
(* about blocks that the other neither announces nor confirms; and only a  *)
(* confirmation takes a block out of the store.                            *)
(***************************************************************************)
EXTENDS Coordinator, WellFoundedInduction, TLAPS

\* The heights that are announced.
Announced == 1..(MaxBitcoin + MaxStacks)

ChainEvents == [chain : Chains \cup {"none"}, number : Nat,
                new : SUBSET Nat, confirmed : SUBSET Nat]
Commands == [kind : {"process", "bitcoin", "stacks"}, block : Nat, event : ChainEvents]
Requests == [at : {"idle", "download", "index", "queueEvent"},
             chain : Chains \cup {"none"}, block : Nat, event : ChainEvents]
ObserverEvents == [kind : {"bitcoin", "stacks", "info", "terminate"},
                   wanted : SUBSET Nat, blocks : SUBSET Nat, late : BOOLEAN]

\* What travels through the pipeline.
PipelineTypeOK ==
    /\ due \in [Chains -> SUBSET Announced]
    /\ handler \in [Handlers -> Requests]
    /\ \A h \in Handlers : handler[h].at # "idle" =>
          handler[h].chain \in Chains /\ handler[h].block \in Announced
    /\ indexer \in [Chains -> [seen : SUBSET Announced, tip : Nat, events : Nat]]
    /\ queue \in Seq(Commands)
    /\ observer \in {"running", "ended"}
    /\ store \in SUBSET Nat
    /\ events \in Seq(ObserverEvents)
    /\ newest \in Nat
    /\ height \in 0..MaxBitcoin
    /\ Len(blocks) \in 0..MaxStacks

-----------------------------------------------------------------------------
\* A block is in the store, or its command is among the first n of the queue.
Kept(b, n) ==
    b \in store \/ \E i \in DOMAIN queue : i <= n /\ queue[i].kind = "process" /\ queue[i].block = b

\* The events of the bitcoin pool that wait in the queue or in a request.
Queued(i) == queue[i].kind = "bitcoin"
Held(h) == At(h, "queueEvent", "bitcoin")

\* One event was made before the other.
Precedes(d, e) ==
    d.number < e.number /\ \A x \in d.new \cup d.confirmed : \A y \in e.new : x < y
Apart(d, e) == Precedes(d, e) \/ Precedes(e, d)

\* An event came from the indexer as it is or was before.
Issued(e) ==
    /\ e.number \in 1..indexer["bitcoin"].events
    /\ \A x \in e.new \cup e.confirmed : x <= indexer["bitcoin"].tip

\* The blocks of an event that is not late.
Complete(e, n) == e.number < newest \/ \A b \in e.new : Kept(b, n)

\* The tip is the end of what was seen without a gap.
TipInv == \A c \in Chains : 1..indexer[c].tip \subseteq indexer[c].seen

\* A header above the tip, or about to be indexed, has its block kept.
KeptInv ==
    /\ \A b \in indexer["bitcoin"].seen : b <= indexer["bitcoin"].tip \/ Kept(b, Len(queue))
    /\ \A h \in Handlers : At(h, "index", "bitcoin") =>
          handler[h].block <= indexer["bitcoin"].tip \/ Kept(handler[h].block, Len(queue))

EventsInv ==
    /\ \A i \in DOMAIN queue : Queued(i) => Issued(queue[i].event) /\ Complete(queue[i].event, i)
    /\ \A h \in Handlers : Held(h) =>
          Issued(handler[h].event) /\ Complete(handler[h].event, Len(queue))

\* Of two events that wait, one was made before the other.
OrderInv ==
    /\ \A i, j \in DOMAIN queue : Queued(i) /\ Queued(j) /\ i # j =>
          Apart(queue[i].event, queue[j].event)
    /\ \A g, h \in Handlers : Held(g) /\ Held(h) /\ g # h =>
          Apart(handler[g].event, handler[h].event)
    /\ \A i \in DOMAIN queue, h \in Handlers : Queued(i) /\ Held(h) =>
          Apart(queue[i].event, handler[h].event)

\* The inductive invariant.  Once the observer has ended nothing is queued.
IInv ==
    /\ PipelineTypeOK
    /\ TipInv
    /\ observer = "running" => KeptInv /\ EventsInv /\ OrderInv
    /\ observer = "ended" => queue = <<>>
    /\ CompleteUnlessLate

-----------------------------------------------------------------------------
(* Extrema of sets of heights, and the tip. *)

\* A non-empty set of naturals has a least element.
LEMMA LeastNatural ==
    ASSUME NEW S \in SUBSET Nat, S # {}
    PROVE  \E m \in S : \A n \in S : m <= n
<1> DEFINE R == {ss \in Nat \X Nat : ss[1] < ss[2]}
<1>1. IsWellFoundedOn(R, Nat)
  BY NatLessThanWellFounded, Zenon DEF OpToRel
<1>2. PICK m \in S : \A n \in S : ~(<<n, m>> \in R)
  <2> HIDE DEF R
  <2> QED  BY <1>1, WFMin, Zenon
<1>3. \A n \in S : <<n, m>> \in Nat \X Nat /\ <<n, m>>[1] = n /\ <<n, m>>[2] = m
  OBVIOUS
<1>4. ASSUME NEW n \in S PROVE ~(n < m)
  BY <1>2, <1>3, Zenon
<1>5. QED  BY <1>4

LEMMA MinIsLeast ==
    ASSUME NEW S \in SUBSET Nat, S # {}
    PROVE  Min(S) \in S /\ \A n \in S : Min(S) <= n
<1>1. PICK m \in S : \A n \in S : m <= n
  BY LeastNatural
<1>2. QED  BY <1>1 DEF Min

\* A non-empty set of naturals with a bound has a greatest element.
LEMMA MaxIsGreatest ==
    ASSUME NEW n \in Nat, NEW S \in SUBSET (0..n), S # {}
    PROVE  Max(S) \in S /\ \A k \in S : k <= Max(S)
<1> DEFINE T == {x \in 0..n : n - x \in S}
<1>1. T \in SUBSET Nat
  OBVIOUS
<1>2. T # {}
  <2>1. PICK s \in S : TRUE
    OBVIOUS
  <2>2. s \in 0..n /\ n - s \in 0..n /\ n - (n - s) = s
    BY <2>1
  <2>3. QED  BY <2>1, <2>2
<1>3. PICK t \in T : \A u \in T : t <= u
  <2> HIDE DEF T
  <2> QED  BY <1>1, <1>2, LeastNatural
<1>4. ASSUME NEW k \in S PROVE k <= n - t
  <2>1. k \in 0..n /\ n - k \in 0..n /\ n - (n - k) = k
    OBVIOUS
  <2>2. n - k \in T
    BY <2>1
  <2>3. t \in 0..n /\ t <= n - k
    BY <2>2, <1>3
  <2>4. QED  BY <2>1, <2>3
<1>5. n - t \in S /\ \A k \in S : n - t >= k
  BY <1>4
<1>6. QED  BY <1>5 DEF Max

\* The tip Index computes: the end of the unbroken run from 1.
TipOf(seen) == Max({n \in 0..Max(seen) : 1..n \subseteq seen})

LEMMA TipIsEnd ==
    ASSUME NEW seen \in SUBSET Announced, seen # {}
    PROVE  /\ TipOf(seen) \in Nat
           /\ 1..TipOf(seen) \subseteq seen
           /\ \A n \in Nat : 1..n \subseteq seen => n <= TipOf(seen)
<1> DEFINE top == Max(seen)
           runs == {n \in 0..top : 1..n \subseteq seen}
           bound == MaxBitcoin + MaxStacks
<1>1. bound \in Nat /\ seen \in SUBSET (0..bound)
  BY PipelineAssumption DEF Announced
<1>2. top \in seen /\ \A k \in seen : k <= top
  <2> HIDE DEF bound
  <2> QED  BY <1>1, MaxIsGreatest
<1> HIDE DEF bound, top
<1>3. top \in Nat
  BY <1>1, <1>2
<1>4. runs \in SUBSET (0..top) /\ 0 \in runs
  BY <1>3
<1>5. Max(runs) \in runs /\ \A k \in runs : k <= Max(runs)
  <2> HIDE DEF runs
  <2> QED  BY <1>3, <1>4, MaxIsGreatest
<1>6. TipOf(seen) = Max(runs)
  BY DEF TipOf, top
<1>7. ASSUME NEW n \in Nat, 1..n \subseteq seen PROVE n \in runs
  <2>1. CASE n = 0
    BY <2>1, <1>4
  <2>2. CASE n # 0
    <3>1. n \in 1..n
      BY <2>2
    <3>2. n <= top
      BY <3>1, <1>7, <1>2
    <3>3. QED  BY <3>2, <1>3, <1>7
  <2>3. QED  BY <2>1, <2>2
<1>8. Max(runs) \in Nat /\ 1..Max(runs) \subseteq seen
  <2>1. \A n \in runs : n \in Nat /\ 1..n \subseteq seen
    BY <1>3
  <2> HIDE DEF runs
  <2>2. QED  BY <1>5, <2>1
<1>9. QED
  <2> HIDE DEF runs
  <2> QED  BY <1>5, <1>6, <1>7, <1>8

-----------------------------------------------------------------------------
(* What the steps do to requests. *)

\* A request goes to its next stage and keeps everything else.
LEMMA StepFields ==
    ASSUME NEW h \in Handlers, handler \in [Handlers -> Requests], NEW stage,
           stage \in {"idle", "download", "index", "queueEvent"}, Step(h, stage)
    PROVE  /\ handler' \in [Handlers -> Requests]
           /\ \A g \in Handlers : g # h => handler'[g] = handler[g]
           /\ handler'[h].at = stage /\ handler'[h].chain = handler[h].chain
           /\ handler'[h].block = handler[h].block /\ handler'[h].event = handler[h].event
<1> DEFINE r == [handler[h] EXCEPT !.at = stage]
<1>1. r \in Requests /\ r.at = stage /\ r.chain = handler[h].chain
      /\ r.block = handler[h].block /\ r.event = handler[h].event
  BY Zenon DEF Requests
<1>2. handler' = [handler EXCEPT ![h] = r]
  BY Zenon DEF Step
<1> HIDE DEF r
<1>3. QED  BY <1>1, <1>2

LEMMA Types ==
    /\ NoEvent \in ChainEvents /\ Idle \in Requests
    /\ Idle.at = "idle" /\ MaxBitcoin \in Nat /\ MaxStacks \in Nat
    /\ "bitcoin" \in Chains /\ "stacks" \in Chains
    /\ Announced \in SUBSET Nat
BY PipelineAssumption DEF NoEvent, ChainEvents, Idle, Requests, Chains, Announced

IndexedQuietly(h, c) ==
    /\ handler'[h] = Idle
    /\ indexer'[c].tip = indexer[c].tip /\ indexer'[c].events = indexer[c].events

IndexedEvent(h, c) ==
    /\ handler'[h].at = "queueEvent" /\ handler'[h].chain = c
    /\ handler'[h].block = handler[h].block
    /\ indexer'[c].events = indexer[c].events + 1
    /\ handler'[h].event.number = indexer[c].events + 1
    /\ handler'[h].event.new = (indexer[c].tip + 1)..indexer'[c].tip
    /\ \A x \in handler'[h].event.confirmed : x <= indexer'[c].tip

\* Indexing adds a header, never lowers the tip, and makes an event about the
\* headers between the old tip and the new one, if there are any.
LEMMA IndexFields ==
    ASSUME PipelineTypeOK, TipInv, NEW h \in Handlers, Index(h), NEW c, c = handler[h].chain
    PROVE  /\ c \in Chains
           /\ indexer' \in [Chains -> [seen : SUBSET Announced, tip : Nat, events : Nat]]
           /\ \A d \in Chains : d # c => indexer'[d] = indexer[d]
           /\ indexer'[c].seen = indexer[c].seen \cup {handler[h].block}
           /\ indexer[c].tip <= indexer'[c].tip
           /\ 1..indexer'[c].tip \subseteq indexer'[c].seen
           /\ handler' \in [Handlers -> Requests]
           /\ \A g \in Handlers : g # h => handler'[g] = handler[g]
           /\ IndexedQuietly(h, c) \/ IndexedEvent(h, c)
<1> DEFINE was  == indexer[c]
           seen == was.seen \cup {handler[h].block}
           tip  == TipOf(seen)
           e    == [chain |-> c, number |-> was.events + 1, new |-> (was.tip + 1)..tip,
                    confirmed |-> (1..(tip - Depth)) \ (1..(was.tip - Depth))]
           ix   == [seen |-> seen, tip |-> tip, events |-> e.number]
           r    == [handler[h] EXCEPT !.at = "queueEvent", !.event = e]
<1>1. c \in Chains /\ handler[h].block \in Announced /\ handler[h].at = "index"
  BY DEF Index, PipelineTypeOK
<1>2. was \in [seen : SUBSET Announced, tip : Nat, events : Nat]
      /\ 1..was.tip \subseteq was.seen
  BY <1>1 DEF PipelineTypeOK, TipInv
<1>3. seen \in SUBSET Announced /\ seen # {} /\ was.tip \in Nat /\ was.events \in Nat
      /\ 1..was.tip \subseteq seen
  BY <1>1, <1>2
<1>4. /\ tip \in Nat /\ 1..tip \subseteq seen
      /\ \A n \in Nat : 1..n \subseteq seen => n <= tip
  <2> HIDE DEF seen
  <2> QED  BY <1>3, TipIsEnd
<1>5. was.tip <= tip
  BY <1>3, <1>4
<1>6. /\ e \in ChainEvents /\ e.number = was.events + 1 /\ e.new = (was.tip + 1)..tip
      /\ \A x \in e.confirmed : x <= tip
  <2>1. Depth \in Nat
    BY PipelineAssumption
  <2> HIDE DEF was, seen, tip
  <2>2. (1..(tip - Depth)) \ (1..(was.tip - Depth)) \in SUBSET Nat
        /\ \A x \in 1..(tip - Depth) : x <= tip
    BY <2>1, <1>3, <1>4
  <2>3. (was.tip + 1)..tip \in SUBSET Nat
    BY <1>3, <1>4
  <2>4. QED  BY <1>1, <1>3, <2>2, <2>3 DEF ChainEvents
<1>7. ix \in [seen : SUBSET Announced, tip : Nat, events : Nat]
      /\ ix.seen = seen /\ ix.tip = tip /\ ix.events = was.events + 1
  <2> HIDE DEF was, seen, tip
  <2> QED  BY <1>3, <1>4
<1>8. r \in Requests /\ r.at = "queueEvent" /\ r.chain = c /\ r.block = handler[h].block
      /\ r.event = e
  <2>1. handler[h] \in Requests
    BY DEF PipelineTypeOK
  <2> HIDE DEF e
  <2>2. QED  BY <1>6, <2>1, Zenon DEF Requests
<1>9. CASE tip = was.tip
  <2>1. indexer' = [indexer EXCEPT ![c].seen = seen] /\ handler' = [handler EXCEPT ![h] = Idle]
    BY <1>9, Zenon DEF Index, TipOf
  <2> DEFINE jx == [was EXCEPT !.seen = seen]
  <2>2. jx \in [seen : SUBSET Announced, tip : Nat, events : Nat]
        /\ jx.seen = seen /\ jx.tip = was.tip /\ jx.events = was.events
    <3> HIDE DEF was, seen
    <3> QED  BY <1>2, <1>3, Zenon
  <2>3. indexer' = [indexer EXCEPT ![c] = jx]
    BY <2>1, Zenon
  <2>4. seen = indexer[c].seen \cup {handler[h].block} /\ was = indexer[c]
    OBVIOUS
  <2>5. /\ indexer'[c] = jx /\ handler'[h] = Idle
        /\ indexer' \in [Chains -> [seen : SUBSET Announced, tip : Nat, events : Nat]]
        /\ handler' \in [Handlers -> Requests]
        /\ \A d \in Chains : d # c => indexer'[d] = indexer[d]
        /\ \A g \in Handlers : g # h => handler'[g] = handler[g]
    <3> HIDE DEF jx
    <3> QED  BY <2>1, <2>2, <2>3, <1>1, Types DEF PipelineTypeOK
  <2> HIDE DEF jx, tip, seen, was
  <2>6. /\ indexer'[c].seen = indexer[c].seen \cup {handler[h].block}
        /\ indexer'[c].tip = indexer[c].tip /\ indexer'[c].events = indexer[c].events
    BY <2>2, <2>4, <2>5, Zenon
  <2>7. indexer[c].tip <= indexer'[c].tip /\ 1..indexer'[c].tip \subseteq indexer'[c].seen
    BY <2>4, <2>6, <1>3, <1>5, <1>9, Zenon
  <2>8. IndexedQuietly(h, c)
    BY <2>5, <2>6, Zenon DEF IndexedQuietly
  <2>9. QED  BY <2>5, <2>6, <2>7, <2>8, <1>1, Zenon
<1>10. CASE tip # was.tip
  <2>1. /\ indexer' = [indexer EXCEPT ![c] = ix]
        /\ handler' = [handler EXCEPT ![h].at = "queueEvent", ![h].event = e]
    BY <1>10, Zenon DEF Index, TipOf
  <2>2. handler' = [handler EXCEPT ![h] = r]
    <3> HIDE DEF e
    <3> QED  BY <2>1, Zenon DEF PipelineTypeOK
  <2>3. /\ indexer'[c] = ix /\ handler'[h] = r
        /\ indexer' \in [Chains -> [seen : SUBSET Announced, tip : Nat, events : Nat]]
        /\ handler' \in [Handlers -> Requests]
        /\ \A d \in Chains : d # c => indexer'[d] = indexer[d]
        /\ \A g \in Handlers : g # h => handler'[g] = handler[g]
    <3> HIDE DEF ix, r
    <3> QED  BY <2>1, <2>2, <1>1, <1>7, <1>8 DEF PipelineTypeOK
  <2>4. seen = indexer[c].seen \cup {handler[h].block} /\ was = indexer[c]
    OBVIOUS
  <2> HIDE DEF ix, r, e, tip, seen, was
  <2>5. /\ indexer'[c].seen = indexer[c].seen \cup {handler[h].block}
        /\ indexer'[c].tip = tip /\ indexer'[c].events = indexer[c].events + 1
    BY <2>3, <2>4, <1>7, Zenon
  <2>6. indexer[c].tip <= indexer'[c].tip /\ 1..indexer'[c].tip \subseteq indexer'[c].seen
    BY <2>4, <2>5, <1>4, <1>5, Zenon
  <2>7. /\ handler'[h].at = "queueEvent" /\ handler'[h].chain = c
        /\ handler'[h].block = handler[h].block /\ handler'[h].event = e
    BY <2>3, <1>8, Zenon
  <2>8. /\ handler'[h].event.number = indexer[c].events + 1
        /\ handler'[h].event.new = (indexer[c].tip + 1)..indexer'[c].tip
        /\ \A x \in handler'[h].event.confirmed : x <= indexer'[c].tip
    BY <2>4, <2>5, <2>7, <1>6, Zenon
  <2>9. IndexedEvent(h, c)
    BY <2>5, <2>7, <2>8, Zenon DEF IndexedEvent
  <2>10. QED  BY <2>3, <2>5, <2>6, <2>9, <1>1, Zenon
<1>11. QED  BY <1>9, <1>10

-----------------------------------------------------------------------------
(* Types and the tip. *)

\* The steps of the coordinator and its threads leave the pipeline alone, but
\* for the event they receive.
CoordinatorStep ==
    /\ UNCHANGED <<due, handler, indexer, queue, observer, store, newest, height, blocks>>
    /\ UNCHANGED events \/ (events # <<>> /\ events' = Tail(events))

LEMMA CoordinatorSteps ==
    ASSUME \/ \E answers \in BOOLEAN : BitcoinBlock(answers)
           \/ BitcoinBlockMissing \/ StacksBlock \/ StacksBlockPanics
           \/ ObserverInfo \/ ObserverTerminate
           \/ \E i \in DOMAIN thread :
                 ReadNonce(i) \/ Deploys(i) \/ Registers(i) \/ WaitTimesOut(i) \/ Stakes(i)
    PROVE  CoordinatorStep
<1>1. ASSUME NEW answers \in BOOLEAN, BitcoinBlock(answers) PROVE CoordinatorStep
  BY <1>1, Zenon DEF BitcoinBlock, NextEvent, CoordinatorStep
<1>2. CASE BitcoinBlockMissing
  BY <1>2 DEF BitcoinBlockMissing, CoordinatorStep, pipelineVars, nodeVars
<1>3. CASE StacksBlock
  BY <1>3, Zenon DEF StacksBlock, NextEvent, CoordinatorStep, nodeVars
<1>4. CASE ObserverInfo
  BY <1>4 DEF ObserverInfo, NextEvent, CoordinatorStep, nodeVars
<1>5. CASE ObserverTerminate
  BY <1>5 DEF ObserverTerminate, NextEvent, CoordinatorStep, nodeVars
<1>6. ASSUME NEW i \in DOMAIN thread,
             ReadNonce(i) \/ Deploys(i) \/ Registers(i) \/ WaitTimesOut(i) \/ Stakes(i)
      PROVE CoordinatorStep
  <2>1. OnlyThreads
    BY <1>6, Zenon DEF ReadNonce, Deploys, Registers, WaitTimesOut, Stakes, Post
  <2>2. QED  BY <2>1 DEF OnlyThreads, CoordinatorStep, pipelineVars
<1>7. CASE StacksBlockPanics
  BY <1>7 DEF StacksBlockPanics, CoordinatorStep, pipelineVars, nodeVars
<1>8. QED  BY <1>1, <1>2, <1>3, <1>4, <1>5, <1>6, <1>7

\* A command at the head of the queue, and what is left.
LEMMA QueueHead ==
    ASSUME queue \in Seq(Commands), queue # <<>>
    PROVE  /\ Head(queue) = queue[1] /\ Head(queue) \in Commands /\ 1 \in DOMAIN queue
           /\ Tail(queue) \in Seq(Commands) /\ Len(queue) \in Nat \ {0}
           /\ DOMAIN queue = 1..Len(queue) /\ Len(Tail(queue)) = Len(queue) - 1
           /\ DOMAIN Tail(queue) = 1..(Len(queue) - 1)
           /\ \A i \in 1..(Len(queue) - 1) : Tail(queue)[i] = queue[i + 1]
OBVIOUS

LEMMA QueueItem ==
    ASSUME PipelineTypeOK, NEW i \in DOMAIN queue
    PROVE  queue[i] \in Commands /\ queue[i].event \in ChainEvents /\ queue[i].block \in Nat
<1>1. queue[i] \in Commands
  <2>1. queue \in Seq(Commands)
    BY DEF PipelineTypeOK
  <2>2. QED  BY <2>1
<1>2. QED  BY <1>1 DEF Commands

\* A command added at the end of the queue.
LEMMA QueueEnd ==
    ASSUME queue \in Seq(Commands), NEW command \in Commands
    PROVE  /\ Append(queue, command) \in Seq(Commands)
           /\ Len(queue) \in Nat /\ DOMAIN queue = 1..Len(queue)
           /\ Len(Append(queue, command)) = Len(queue) + 1
           /\ DOMAIN Append(queue, command) = 1..(Len(queue) + 1)
           /\ \A i \in 1..Len(queue) : Append(queue, command)[i] = queue[i]
           /\ Append(queue, command)[Len(queue) + 1] = command
OBVIOUS

LEMMA TypeStep ==
    PipelineTypeOK /\ TipInv /\ [Next]_vars => PipelineTypeOK' /\ TipInv'
<1> SUFFICES ASSUME PipelineTypeOK, TipInv, [Next]_vars PROVE PipelineTypeOK' /\ TipInv'
  OBVIOUS
<1> USE Types
<1>1. ASSUME NEW h \in Handlers, NEW chain \in Chains, Request(h, chain),
             UNCHANGED <<height, blocks>>
      PROVE  PipelineTypeOK' /\ TipInv'
  <2>1. Min(due[chain]) \in Announced
    <3>1. due[chain] \in SUBSET Announced /\ due[chain] # {}
      BY <1>1 DEF Request, PipelineTypeOK
    <3>2. QED  BY <3>1, MinIsLeast
  <2> DEFINE r == [Idle EXCEPT !.at = IF chain = "bitcoin" THEN "download" ELSE "index",
                               !.chain = chain, !.block = Min(due[chain])]
  <2>2. r \in Requests /\ r.chain = chain /\ r.block = Min(due[chain])
    <3>1. Min(due[chain]) \in Nat
      BY <2>1
    <3>2. Idle \in Requests
      OBVIOUS
    <3>3. QED  BY <3>1, <3>2, Zenon DEF Requests
  <2>3. handler' = [handler EXCEPT ![h] = r]
    BY <1>1, Zenon DEF Request
  <2>4. due' \in [Chains -> SUBSET Announced]
    BY <1>1 DEF Request, PipelineTypeOK
  <2> HIDE DEF r
  <2>5. QED  BY <2>1, <2>2, <2>3, <2>4, <1>1 DEF Request, PipelineTypeOK, TipInv
<1>2. ASSUME NEW h \in Handlers, RequestFails(h), UNCHANGED <<height, blocks>>
      PROVE  PipelineTypeOK' /\ TipInv'
  <2>1. handler[h].chain \in Chains /\ handler[h].block \in Announced
    BY <1>2 DEF RequestFails, At, PipelineTypeOK
  <2>2. due' \in [Chains -> SUBSET Announced]
    BY <2>1, <1>2 DEF RequestFails, PipelineTypeOK
  <2>3. QED  BY <2>2, <1>2 DEF RequestFails, PipelineTypeOK, TipInv
<1>3. ASSUME NEW h \in Handlers, QueueBlock(h), UNCHANGED <<height, blocks>>
      PROVE  PipelineTypeOK' /\ TipInv'
  <2>1. Command("process", handler[h].block, NoEvent) \in Commands
    BY DEF PipelineTypeOK, Requests, Command, Commands
  <2>2. queue' \in Seq(Commands)
    BY <2>1, <1>3, QueueEnd DEF QueueBlock, Send, PipelineTypeOK
  <2>3. Step(h, "index") /\ handler \in [Handlers -> Requests]
    BY <1>3 DEF QueueBlock, PipelineTypeOK
  <2>4. /\ handler' \in [Handlers -> Requests]
        /\ \A g \in Handlers : g # h => handler'[g] = handler[g]
        /\ handler'[h].chain = handler[h].chain /\ handler'[h].block = handler[h].block
    BY <2>3, StepFields, Zenon
  <2>5. handler[h].at # "idle"
    BY <1>3 DEF QueueBlock, At
  <2>6. QED  BY <2>2, <2>4, <2>5, <1>3 DEF QueueBlock, PipelineTypeOK, TipInv
<1>4. ASSUME NEW h \in Handlers, Index(h), UNCHANGED <<height, blocks>>
      PROVE  PipelineTypeOK' /\ TipInv'
  <2> DEFINE c == handler[h].chain
  <2>1. /\ c \in Chains
        /\ indexer' \in [Chains -> [seen : SUBSET Announced, tip : Nat, events : Nat]]
        /\ \A d \in Chains : d # c => indexer'[d] = indexer[d]
        /\ 1..indexer'[c].tip \subseteq indexer'[c].seen
        /\ handler' \in [Handlers -> Requests]
        /\ \A g \in Handlers : g # h => handler'[g] = handler[g]
        /\ IndexedQuietly(h, c) \/ IndexedEvent(h, c)
    BY <1>4, IndexFields
  <2>2. handler[h].block \in Announced
    BY <1>4 DEF Index, PipelineTypeOK
  <2>3. TipInv'
    BY <2>1 DEF TipInv
  <2>4. \A g \in Handlers : handler'[g].at # "idle" =>
          handler'[g].chain \in Chains /\ handler'[g].block \in Announced
    BY <2>1, <2>2 DEF IndexedQuietly, IndexedEvent, PipelineTypeOK
  <2>5. QED  BY <2>1, <2>3, <2>4, <1>4 DEF Index, PipelineTypeOK
<1>5. ASSUME NEW h \in Handlers, QueueEvent(h), UNCHANGED <<height, blocks>>
      PROVE  PipelineTypeOK' /\ TipInv'
  <2>1. handler[h] \in Requests /\ handler[h].chain \in Chains
    BY <1>5 DEF QueueEvent, PipelineTypeOK
  <2>2. Command(handler[h].chain, handler[h].block, handler[h].event) \in Commands
    BY <2>1 DEF Requests, Command, Commands, Chains
  <2>3. queue' \in Seq(Commands)
    BY <2>2, <1>5, QueueEnd DEF QueueEvent, Send, PipelineTypeOK
  <2>4. QED  BY <2>3, <1>5 DEF QueueEvent, PipelineTypeOK, TipInv
<1>6. CASE ProcessBitcoinBlock /\ UNCHANGED <<height, blocks>>
  <2>1. Head(queue).block \in Nat /\ Tail(queue) \in Seq(Commands)
    BY <1>6, QueueHead DEF ProcessBitcoinBlock, Receives, PipelineTypeOK, Commands
  <2>2. QED  BY <2>1, <1>6 DEF ProcessBitcoinBlock, PipelineTypeOK, TipInv
<1>7. CASE ObserverEnds /\ UNCHANGED <<height, blocks>>
  <2>1. Event("info", {}, {}, FALSE) \in ObserverEvents
        /\ Event("terminate", {}, {}, FALSE) \in ObserverEvents
    BY DEF Event, ObserverEvents
  <2>2. events' \in Seq(ObserverEvents)
    <3>1. <<Event("info", {}, {}, FALSE), Event("terminate", {}, {}, FALSE)>>
          \in Seq(ObserverEvents)
      <4> DEFINE a == Event("info", {}, {}, FALSE)
                 b == Event("terminate", {}, {}, FALSE)
      <4>1. a \in ObserverEvents /\ b \in ObserverEvents
        BY <2>1
      <4> HIDE DEF a, b
      <4>2. <<a, b>> \in Seq(ObserverEvents)
        BY <4>1
      <4>3. QED  BY <4>2 DEF a, b
    <3>2. \A s, t \in Seq(ObserverEvents) : s \o t \in Seq(ObserverEvents)
      OBVIOUS
    <3>3. QED  BY <3>1, <3>2, <1>7, Zenon DEF ObserverEnds, PipelineTypeOK
  <2>3. /\ due' = due /\ handler' = handler /\ indexer' = indexer /\ queue' = <<>>
        /\ observer' = "ended" /\ store' = store /\ newest' = newest
    BY <1>7 DEF ObserverEnds
  <2>4. QED  BY <2>2, <2>3, <1>7 DEF PipelineTypeOK, TipInv
<1>8. CASE PropagateBitcoinChainEvent /\ UNCHANGED <<height, blocks>>
  <2> DEFINE e == Head(queue).event
  <2>1. /\ Head(queue).event \in ChainEvents /\ Tail(queue) \in Seq(Commands)
        /\ e.new \in SUBSET Nat /\ e.number \in Nat
    BY <1>8, QueueHead
    DEF PropagateBitcoinChainEvent, Receives, PipelineTypeOK, Commands, ChainEvents
  <2>2. Event("bitcoin", e.new, e.new \cap store, e.number < newest) \in ObserverEvents
    BY <2>1 DEF Event, ObserverEvents, PipelineTypeOK
  <2>3. newest \in Nat
    BY DEF PipelineTypeOK
  <2>4. Max({newest, e.number}) \in Nat
    <3>1. \E x \in {newest, e.number} : \A y \in {newest, e.number} : x >= y
      BY <2>1, <2>3
    <3>2. Max({newest, e.number}) \in {newest, e.number}
      BY <3>1 DEF Max
    <3>3. QED  BY <3>2, <2>1, <2>3
  <2>5. events' \in Seq(ObserverEvents)
    BY <2>2, <1>8 DEF PropagateBitcoinChainEvent, PipelineTypeOK
  <2>6. QED  BY <2>1, <2>4, <2>5, <1>8 DEF PropagateBitcoinChainEvent, PipelineTypeOK, TipInv
<1>9. CASE PropagateStacksChainEvent /\ UNCHANGED <<height, blocks>>
  <2> DEFINE e == Head(queue).event
  <2>1. /\ Tail(queue) \in Seq(Commands) /\ e.new \in SUBSET Nat
    BY <1>9, QueueHead
    DEF PropagateStacksChainEvent, Receives, PipelineTypeOK, Commands, ChainEvents
  <2>2. Event("stacks", e.new, e.new, FALSE) \in ObserverEvents
    BY <2>1 DEF Event, ObserverEvents, PipelineTypeOK
  <2>3. events' \in Seq(ObserverEvents)
    <3> DEFINE a == Event("stacks", e.new, e.new, FALSE)
    <3>1. a \in ObserverEvents /\ events \in Seq(ObserverEvents)
      BY <2>2 DEF PipelineTypeOK
    <3>2. events' = Append(events, a)
      BY <1>9, Zenon DEF PropagateStacksChainEvent
    <3> HIDE DEF a
    <3>3. QED  BY <3>1, <3>2
  <2>4. QED  BY <2>1, <2>3, <1>9 DEF PropagateStacksChainEvent, PipelineTypeOK, TipInv
<1>10. CASE CoordinatorStep
  <2>1. events' \in Seq(ObserverEvents)
    <3>1. events \in Seq(ObserverEvents)
      BY DEF PipelineTypeOK
    <3>2. events # <<>> => Tail(events) \in Seq(ObserverEvents)
      BY <3>1
    <3>3. QED  BY <3>1, <3>2, <1>10, Zenon DEF CoordinatorStep
  <2>2. /\ due' = due /\ handler' = handler /\ indexer' = indexer /\ queue' = queue
        /\ observer' = observer /\ store' = store /\ newest' = newest /\ height' = height
        /\ blocks' = blocks
    BY <1>10 DEF CoordinatorStep
  <2>3. TipInv'
    BY <2>2 DEF TipInv
  <2>4. QED  BY <2>1, <2>2, <2>3, Zenon DEF PipelineTypeOK
<1>11. CASE MineBitcoin
  <2>1. height + 1 \in Announced /\ height' \in 0..MaxBitcoin
    BY <1>11 DEF MineBitcoin, PipelineTypeOK, Announced
  <2>2. due' \in [Chains -> SUBSET Announced]
    BY <2>1, <1>11 DEF MineBitcoin, PipelineTypeOK
  <2>3. QED  BY <2>1, <2>2, <1>11 DEF MineBitcoin, PipelineTypeOK, TipInv
<1>12. CASE MineStacks
  <2>1. Len(blocks) + 1 \in Announced
    BY <1>12 DEF MineStacks, PipelineTypeOK, Announced
  <2>2. Len(blocks') \in 0..MaxStacks
    BY <1>12 DEF MineStacks, PipelineTypeOK
  <2>3. due' \in [Chains -> SUBSET Announced]
    BY <2>1, <1>12 DEF MineStacks, PipelineTypeOK
  <2>4. QED  BY <2>2, <2>3, <1>12 DEF MineStacks, PipelineTypeOK, TipInv
<1>13. CASE UNCHANGED vars
  BY <1>13 DEF vars, pipelineVars, nodeVars, PipelineTypeOK, TipInv
<1>14. QED
  BY <1>1, <1>2, <1>3, <1>4, <1>5, <1>6, <1>7, <1>8, <1>9, <1>10, <1>11, <1>12, <1>13,
     CoordinatorSteps, Zenon DEF Next, PipelineNext, nodeVars

-----------------------------------------------------------------------------
(* Blocks and events on their way. *)

\* What holds while the observer runs.
Running == KeptInv /\ EventsInv /\ OrderInv

\* A step that makes no request wait with a block or an event it did not have.
LEMMA NothingNewWaits ==
    ASSUME PipelineTypeOK, Running, queue' = queue, store' = store, newest' = newest,
           indexer'["bitcoin"] = indexer["bitcoin"],
           \A g \in Handlers : At(g, "index", "bitcoin")' =>
               At(g, "index", "bitcoin") /\ handler'[g].block = handler[g].block,
           \A g \in Handlers : Held(g)' => Held(g) /\ handler'[g].event = handler[g].event
    PROVE  Running'
<1>1. \A b, n : Kept(b, n)' <=> Kept(b, n)
  BY DEF Kept
<1>2. \A e : Issued(e)' <=> Issued(e)
  BY DEF Issued
<1>3. \A e, n : Complete(e, n)' <=> Complete(e, n)
  BY <1>1 DEF Complete
<1>4. \A i : Queued(i)' <=> Queued(i)
  BY DEF Queued
<1>5. KeptInv'
  <2>1. ASSUME NEW b \in indexer'["bitcoin"].seen
        PROVE  b <= indexer'["bitcoin"].tip \/ Kept(b, Len(queue))'
    BY <1>1 DEF Running, KeptInv
  <2>2. ASSUME NEW h \in Handlers, At(h, "index", "bitcoin")'
        PROVE  \/ handler'[h].block <= indexer'["bitcoin"].tip
               \/ Kept(handler[h].block, Len(queue))'
    BY <1>1, <2>2 DEF Running, KeptInv
  <2>3. QED  BY <2>1, <2>2 DEF KeptInv
<1>6. EventsInv'
  <2>1. ASSUME NEW i \in DOMAIN queue', Queued(i)'
        PROVE  Issued(queue[i].event)' /\ Complete(queue[i].event, i)'
    BY <1>2, <1>3, <1>4, <2>1 DEF Running, EventsInv
  <2>2. ASSUME NEW h \in Handlers, Held(h)'
        PROVE  Issued(handler[h].event)' /\ Complete(handler[h].event, Len(queue))'
    BY <1>2, <1>3, <2>2 DEF Running, EventsInv
  <2>3. QED  BY <2>1, <2>2 DEF EventsInv
<1>7. OrderInv'
  BY <1>4 DEF Running, OrderInv
<1>8. QED  BY <1>5, <1>6, <1>7 DEF Running

\* A command at the end of the queue.  What was kept is kept; the command's block
\* is kept, or its event is complete.
LEMMA CommandQueued ==
    ASSUME PipelineTypeOK, Running, NEW command \in Commands,
           queue' = Append(queue, command), store' = store, newest' = newest,
           indexer' = indexer,
           \A g \in Handlers : At(g, "index", "bitcoin")' =>
               \/ command.kind = "process" /\ command.block = handler'[g].block
               \/ At(g, "index", "bitcoin") /\ handler'[g].block = handler[g].block,
           \A g \in Handlers : Held(g)' => Held(g) /\ handler'[g].event = handler[g].event,
           command.kind = "bitcoin" =>
               \E h \in Handlers : Held(h) /\ ~Held(h)' /\ command.event = handler[h].event
    PROVE  Running'
<1>a. PICK n \in Nat : n = Len(queue)
  BY QueueEnd DEF PipelineTypeOK
<1>0. /\ queue' \in Seq(Commands) /\ n = Len(queue)
      /\ DOMAIN queue = 1..n /\ Len(queue') = n + 1 /\ DOMAIN queue' = 1..(n + 1)
      /\ \A i \in 1..n : queue'[i] = queue[i]
      /\ queue'[n + 1] = command
  BY <1>a, QueueEnd DEF PipelineTypeOK
<1>1. \A b, i : Kept(b, i) => Kept(b, i)'
  BY <1>0 DEF Kept
<1>2. \A b : Kept(b, n) => Kept(b, n + 1)'
  BY <1>0 DEF Kept
<1>3. command.kind = "process" => Kept(command.block, n + 1)'
  BY <1>0 DEF Kept
<1>4. \A e : Issued(e)' <=> Issued(e)
  BY DEF Issued
<1>5. /\ \A e, i : Complete(e, i) => Complete(e, i)'
      /\ \A e : Complete(e, n) => Complete(e, n + 1)'
  BY <1>1, <1>2 DEF Complete
<1>6. KeptInv'
  <2>1. ASSUME NEW b \in indexer["bitcoin"].seen
        PROVE  b <= indexer["bitcoin"].tip \/ Kept(b, n + 1)'
    BY <1>0, <1>2 DEF Running, KeptInv
  <2>2. ASSUME NEW h \in Handlers, At(h, "index", "bitcoin")'
        PROVE  \/ handler'[h].block <= indexer["bitcoin"].tip
               \/ Kept(handler[h].block, n + 1)'
    <3>1. CASE command.kind = "process" /\ command.block = handler'[h].block
      BY <3>1, <1>3
    <3>2. CASE At(h, "index", "bitcoin") /\ handler'[h].block = handler[h].block
      BY <3>2, <1>0, <1>2 DEF Running, KeptInv
    <3>3. QED  BY <2>2, <3>1, <3>2
  <2>3. QED  BY <2>1, <2>2, <1>0 DEF KeptInv
<1>7. EventsInv'
  <2>1. ASSUME NEW i \in 1..n, Queued(i)'
        PROVE  Issued(queue[i].event)' /\ Complete(queue[i].event, i)'
    <3>1. Queued(i)
      BY <2>1, <1>0 DEF Queued
    <3>2. Issued(queue[i].event) /\ Complete(queue[i].event, i)
      BY <3>1, <1>0 DEF Running, EventsInv
    <3>3. QED  BY <3>2, <1>0, <1>4, <1>5
  <2>2. ASSUME Queued(n + 1)'
        PROVE  Issued(queue[n + 1].event)' /\ Complete(queue[n + 1].event, n + 1)'
    <3>1. PICK h \in Handlers : Held(h) /\ command.event = handler[h].event
      BY <2>2, <1>0 DEF Queued
    <3>2. Issued(command.event) /\ Complete(command.event, n)
      BY <3>1, <1>0 DEF Running, EventsInv
    <3>3. QED  BY <3>2, <1>0, <1>4, <1>5
  <2>3. ASSUME NEW h \in Handlers, Held(h)'
        PROVE  Issued(handler[h].event)' /\ Complete(handler[h].event, n + 1)'
    BY <1>0, <1>4, <1>5, <2>3 DEF Running, EventsInv
  <2>4. ASSUME NEW i \in DOMAIN queue' PROVE i \in 1..n \/ i = n + 1
    BY <1>0
  <2>5. QED  BY <2>1, <2>2, <2>3, <2>4, <1>0 DEF EventsInv
<1>8. OrderInv'
  <2>1. \A i \in 1..n : Queued(i)' => Queued(i) /\ queue'[i].event = queue[i].event
    BY <1>0 DEF Queued
  <2>2. ASSUME Queued(n + 1)'
        PROVE  \E h \in Handlers : Held(h) /\ ~Held(h)' /\ command.event = handler[h].event
    BY <2>2, <1>0 DEF Queued
  <2>3. ASSUME NEW i \in 1..n, Queued(i)', Queued(n + 1)'
        PROVE  Apart(queue'[i].event, command.event)
    BY <2>1, <2>2, <2>3, <1>0 DEF Running, OrderInv
  <2>4. ASSUME NEW i \in DOMAIN queue', NEW j \in DOMAIN queue', Queued(i)', Queued(j)', i # j
        PROVE  Apart(queue'[i].event, queue'[j].event)
    <3>1. CASE i \in 1..n /\ j \in 1..n
      BY <3>1, <2>1, <2>4, <1>0 DEF Running, OrderInv
    <3>2. CASE i \in 1..n /\ j = n + 1
      BY <3>2, <2>3, <2>4, <1>0
    <3>3. CASE i = n + 1 /\ j \in 1..n
      BY <3>3, <2>3, <2>4, <1>0 DEF Apart
    <3>4. QED  BY <3>1, <3>2, <3>3, <2>4, <1>0
  <2>5. ASSUME NEW g \in Handlers, NEW h \in Handlers, Held(g)', Held(h)', g # h
        PROVE  Apart(handler'[g].event, handler'[h].event)
    BY <2>5 DEF Running, OrderInv
  <2>6. ASSUME NEW i \in DOMAIN queue', NEW h \in Handlers, Queued(i)', Held(h)'
        PROVE  Apart(queue'[i].event, handler'[h].event)
    <3>1. CASE i \in 1..n
      BY <3>1, <2>1, <2>6, <1>0 DEF Running, OrderInv
    <3>2. CASE i = n + 1
      <4>1. PICK g \in Handlers : Held(g) /\ ~Held(g)' /\ command.event = handler[g].event
        BY <3>2, <2>2, <2>6
      <4>2. g # h /\ Held(h) /\ handler'[h].event = handler[h].event
        BY <4>1, <2>6
      <4>3. QED  BY <4>1, <4>2, <3>2, <1>0 DEF Running, OrderInv
    <3>3. QED  BY <3>1, <3>2, <1>0
  <2>7. QED  BY <2>4, <2>5, <2>6 DEF OrderInv
<1>9. QED  BY <1>6, <1>7, <1>8 DEF Running

\* What is kept without the head of the queue.
LEMMA TailKeeps ==
    ASSUME PipelineTypeOK, queue # <<>>, queue' = Tail(queue), NEW gone,
           store' = IF queue[1].kind = "process" THEN store \cup {queue[1].block} ELSE store \ gone,
           NEW b \in Nat, NEW n \in Nat, Kept(b, n + 1)
    PROVE  Kept(b, n)' \/ (queue[1].kind # "process" /\ b \in gone)
<1>0. /\ Len(queue) \in Nat \ {0} /\ DOMAIN queue = 1..Len(queue)
      /\ DOMAIN queue' = 1..(Len(queue) - 1)
      /\ \A i \in 1..(Len(queue) - 1) : queue'[i] = queue[i + 1]
  BY QueueHead DEF PipelineTypeOK
<1>1. CASE b \in store
  BY <1>1 DEF Kept
<1>2. ASSUME NEW i \in DOMAIN queue, i <= n + 1, queue[i].kind = "process", queue[i].block = b
      PROVE  Kept(b, n)' \/ (queue[1].kind # "process" /\ b \in gone)
  <2>1. CASE i = 1
    BY <1>2, <2>1 DEF Kept
  <2>2. CASE i # 1
    <3>1. /\ i - 1 \in DOMAIN queue' /\ i - 1 <= n /\ queue'[i - 1] = queue[i]
      BY <1>0, <1>2, <2>2
    <3>2. QED  BY <3>1, <1>2 DEF Kept
  <2>3. QED  BY <2>1, <2>2
<1>3. QED  BY <1>1, <1>2 DEF Kept

\* The head of the queue is handled.  What leaves the store or the queue meanwhile
\* is at or below the tip and belongs to no event that is still to be on time.
LEMMA CommandTaken ==
    ASSUME PipelineTypeOK, Running, queue # <<>>, queue' = Tail(queue), indexer' = indexer,
           handler' = handler, newest' \in Nat, newest <= newest', NEW gone,
           \A b, n \in Nat : Kept(b, n + 1) => Kept(b, n)' \/ b \in gone,
           \A b \in gone : b <= indexer["bitcoin"].tip,
           \A i \in DOMAIN queue : Queued(i) /\ i # 1 =>
               queue[i].event.number < newest' \/ queue[i].event.new \cap gone = {},
           \A h \in Handlers : Held(h) =>
               handler[h].event.number < newest' \/ handler[h].event.new \cap gone = {}
    PROVE  Running'
<1>a. PICK n \in Nat : Len(queue) = n + 1
  <2>1. Len(queue) \in Nat \ {0}
    BY QueueHead DEF PipelineTypeOK
  <2>2. Len(queue) - 1 \in Nat /\ Len(queue) = (Len(queue) - 1) + 1
    BY <2>1
  <2>3. QED  BY <2>2
<1>0. /\ DOMAIN queue = 1..(n + 1) /\ DOMAIN queue' = 1..n /\ Len(queue') = n
      /\ \A i \in 1..n : queue'[i] = queue[i + 1] /\ i + 1 \in DOMAIN queue /\ i + 1 # 1
  <2>1. n = Len(queue) - 1
    BY <1>a
  <2>2. QED  BY <2>1, <1>a, QueueHead DEF PipelineTypeOK
<1>1. \A b, i \in Nat : Kept(b, i + 1) => Kept(b, i)' \/ b \in gone
  OBVIOUS
<1>2. \A e : Issued(e)' <=> Issued(e)
  BY DEF Issued
<1>3. ASSUME NEW e \in ChainEvents, NEW i \in Nat, Complete(e, i + 1),
             e.number < newest' \/ e.new \cap gone = {}
      PROVE  Complete(e, i)'
  <2>1. e.new \in SUBSET Nat /\ e.number \in Nat /\ newest \in Nat
    BY DEF ChainEvents, PipelineTypeOK
  <2>2. CASE e.number < newest'
    BY <2>2 DEF Complete
  <2>3. CASE e.number < newest
    <3>1. e.number < newest'
      BY <2>1, <2>3
    <3>2. QED  BY <3>1 DEF Complete
  <2>4. CASE e.new \cap gone = {} /\ \A b \in e.new : Kept(b, i + 1)
    <3>1. ASSUME NEW b \in e.new PROVE Kept(b, i)'
      BY <2>1, <2>4, <1>1
    <3>2. QED  BY <3>1 DEF Complete
  <2>5. QED  BY <1>3, <2>2, <2>3, <2>4 DEF Complete
<1>4. KeptInv'
  <2>1. ASSUME NEW b \in Nat, b <= indexer["bitcoin"].tip \/ Kept(b, n + 1)
        PROVE  b <= indexer["bitcoin"].tip \/ Kept(b, n)'
    BY <2>1, <1>1
  <2>2. ASSUME NEW b \in indexer["bitcoin"].seen
        PROVE  b <= indexer["bitcoin"].tip \/ Kept(b, n)'
    <3>1. b \in Nat
      BY Types DEF PipelineTypeOK
    <3>2. QED  BY <3>1, <2>1, <1>a DEF Running, KeptInv
  <2>3. ASSUME NEW h \in Handlers, At(h, "index", "bitcoin")
        PROVE  handler[h].block <= indexer["bitcoin"].tip \/ Kept(handler[h].block, n)'
    <3>1. handler[h].block \in Nat
      BY DEF PipelineTypeOK, Requests
    <3>2. \A b : b = handler[h].block => b <= indexer["bitcoin"].tip \/ Kept(b, n)'
      BY <2>3, <3>1, <2>1, <1>a DEF Running, KeptInv
    <3>3. QED  BY <3>2 DEF Kept
  <2>4. \A h \in Handlers : At(h, "index", "bitcoin")' <=> At(h, "index", "bitcoin")
    BY DEF At
  <2>5. QED  BY <2>2, <2>3, <2>4, <1>0 DEF KeptInv
<1>5. EventsInv'
  <2>1. ASSUME NEW i \in 1..n, Queued(i)'
        PROVE  Issued(queue[i].event)' /\ Complete(queue[i].event, i)'
    <3>1. Queued(i + 1) /\ queue'[i].event = queue[i + 1].event
      BY <2>1, <1>0 DEF Queued
    <3>2. Issued(queue[i + 1].event) /\ Complete(queue[i + 1].event, i + 1)
      BY <3>1, <1>0 DEF Running, EventsInv
    <3>3. queue[i + 1].event \in ChainEvents
      BY <1>0, QueueItem
    <3>4. queue[i + 1].event.number < newest' \/ queue[i + 1].event.new \cap gone = {}
      BY <3>1, <1>0
    <3>5. \A e : e = queue[i + 1].event => Issued(e)' /\ Complete(e, i)'
      BY <3>2, <3>3, <3>4, <1>2, <1>3
    <3>6. QED  BY <3>1, <3>5
  <2>2. ASSUME NEW h \in Handlers, Held(h)
        PROVE  Issued(handler[h].event)' /\ Complete(handler[h].event, n)'
    <3>1. Issued(handler[h].event) /\ Complete(handler[h].event, n + 1)
      BY <2>2, <1>a DEF Running, EventsInv
    <3>2. handler[h].event \in ChainEvents
      BY DEF PipelineTypeOK, Requests
    <3>3. \A e : e = handler[h].event => Issued(e)' /\ Complete(e, n)'
      BY <2>2, <3>1, <3>2, <1>2, <1>3
    <3>4. QED  BY <3>3
  <2>3. \A h \in Handlers : Held(h)' <=> Held(h)
    BY DEF Held, At
  <2>4. QED  BY <2>1, <2>2, <2>3, <1>0 DEF EventsInv
<1>6. OrderInv'
  <2>1. \A i \in 1..n : /\ Queued(i)' <=> Queued(i + 1)
                        /\ queue'[i].event = queue[i + 1].event
                        /\ i + 1 \in DOMAIN queue
    BY <1>0 DEF Queued
  <2>2. \A i, j \in 1..n : i # j => i + 1 # j + 1
    OBVIOUS
  <2>3. \A h \in Handlers : (Held(h)' <=> Held(h)) /\ handler'[h].event = handler[h].event
    BY DEF Held, At
  <2>4. QED  BY <2>1, <2>2, <2>3, <1>0 DEF Running, OrderInv
<1>7. QED  BY <1>4, <1>5, <1>6 DEF Running

\* A bitcoin header is indexed.
LEMMA HeaderIndexed ==
    ASSUME PipelineTypeOK, TipInv, Running, NEW h \in Handlers, Index(h),
           handler[h].chain = "bitcoin"
    PROVE  Running'
<1> DEFINE c == "bitcoin"
<1>1. /\ indexer' \in [Chains -> [seen : SUBSET Announced, tip : Nat, events : Nat]]
      /\ indexer'[c].seen = indexer[c].seen \cup {handler[h].block}
      /\ indexer[c].tip <= indexer'[c].tip
      /\ 1..indexer'[c].tip \subseteq indexer'[c].seen
      /\ \A g \in Handlers : g # h => handler'[g] = handler[g]
      /\ IndexedQuietly(h, c) \/ IndexedEvent(h, c)
  BY IndexFields
<1>2. queue' = queue /\ store' = store /\ newest' = newest /\ At(h, "index", c)
  BY DEF Index, At
<1>3. /\ indexer[c].tip \in Nat /\ indexer'[c].tip \in Nat /\ indexer[c].events \in Nat
      /\ indexer[c].seen \in SUBSET Nat /\ indexer'[c].seen \in SUBSET Nat
  BY <1>1, Types DEF PipelineTypeOK
<1>4. indexer'[c].events = indexer[c].events \/ indexer'[c].events = indexer[c].events + 1
  BY <1>1 DEF IndexedQuietly, IndexedEvent
<1>5. \A b, n : Kept(b, n)' <=> Kept(b, n)
  BY <1>2 DEF Kept
<1>6. \A e, n : Complete(e, n)' <=> Complete(e, n)
  BY <1>2, <1>5 DEF Complete
<1>7. \A e \in ChainEvents : Issued(e) => Issued(e)'
  BY <1>1, <1>3, <1>4 DEF Issued, ChainEvents
<1>8. ASSUME NEW b \in indexer'[c].seen
      PROVE  b <= indexer[c].tip \/ Kept(b, Len(queue))
  BY <1>1, <1>2 DEF Running, KeptInv
<1>9. \A g \in Handlers : At(g, "index", c)' =>
        g # h /\ At(g, "index", c) /\ handler'[g].block = handler[g].block
  BY <1>1 DEF IndexedQuietly, IndexedEvent, At, Idle
<1>10. \A g \in Handlers : Held(g)' /\ g # h =>
         Held(g) /\ handler'[g].event = handler[g].event
  BY <1>1 DEF Held, At
<1>11. Held(h)' => IndexedEvent(h, c)
  BY <1>1 DEF Held, At, IndexedQuietly, Idle
<1>12. KeptInv'
  <2>1. ASSUME NEW b \in indexer'[c].seen
        PROVE  b <= indexer'[c].tip \/ Kept(b, Len(queue))'
    <3>1. b \in Nat
      BY <1>3
    <3>2. b <= indexer[c].tip \/ Kept(b, Len(queue))
      BY <1>8
    <3>3. QED  BY <3>1, <3>2, <1>1, <1>2, <1>3, <1>5
  <2>2. ASSUME NEW g \in Handlers, At(g, "index", c)'
        PROVE  handler'[g].block <= indexer'[c].tip \/ Kept(handler[g].block, Len(queue))'
    <3>1. handler[g].block <= indexer[c].tip \/ Kept(handler[g].block, Len(queue))
      BY <2>2, <1>9 DEF Running, KeptInv
    <3>2. handler[g].block \in Nat
      BY DEF PipelineTypeOK, Requests
    <3>3. QED  BY <2>2, <3>1, <3>2, <1>1, <1>2, <1>3, <1>5, <1>9
  <2>3. QED  BY <2>1, <2>2 DEF KeptInv
<1>13. EventsInv'
  <2>1. ASSUME NEW i \in DOMAIN queue', Queued(i)'
        PROVE  Issued(queue[i].event)' /\ Complete(queue[i].event, i)'
    <3>1. Queued(i) /\ i \in DOMAIN queue /\ queue[i].event \in ChainEvents
      BY <2>1, <1>2, QueueItem DEF Queued
    <3>2. QED  BY <3>1, <1>2, <1>6, <1>7 DEF Running, EventsInv
  <2>2. ASSUME NEW g \in Handlers, Held(g)', g # h
        PROVE  Issued(handler[g].event)' /\ Complete(handler[g].event, Len(queue))'
    <3>1. Held(g) /\ handler'[g].event = handler[g].event /\ handler[g].event \in ChainEvents
      BY <2>2, <1>10 DEF PipelineTypeOK, Requests
    <3>2. QED  BY <3>1, <1>2, <1>6, <1>7 DEF Running, EventsInv
  <2>3. ASSUME Held(h)'
        PROVE  Issued(handler[h].event)' /\ Complete(handler[h].event, Len(queue))'
    <3>1. IndexedEvent(h, c)
      BY <2>3, <1>11
    <3>2. ASSUME NEW b \in handler'[h].event.new PROVE Kept(b, Len(queue))'
      <4>1. b \in (indexer[c].tip + 1)..indexer'[c].tip
        BY <3>1 DEF IndexedEvent
      <4>2. b \in 1..indexer'[c].tip /\ ~(b <= indexer[c].tip)
        BY <4>1, <1>3
      <4>3. QED  BY <4>2, <1>1, <1>2, <1>5, <1>8
    <3>3. Complete(handler[h].event, Len(queue))'
      BY <3>2 DEF Complete
    <3>4. Issued(handler[h].event)'
      BY <3>1, <1>3 DEF IndexedEvent, Issued
    <3>5. QED  BY <3>3, <3>4
  <2>4. QED  BY <2>1, <2>2, <2>3 DEF EventsInv
<1>14. OrderInv'
  <2>1. ASSUME NEW d \in ChainEvents, Issued(d), Held(h)'
        PROVE  Apart(d, handler'[h].event)
    <3>1. IndexedEvent(h, c)
      BY <2>1, <1>11
    <3>2. \A x \in d.new \cup d.confirmed : x \in Nat /\ x <= indexer[c].tip
      BY <2>1 DEF Issued, ChainEvents
    <3>3. \A y \in handler'[h].event.new : y \in Nat /\ indexer[c].tip < y
      BY <3>1, <1>3 DEF IndexedEvent
    <3>4. d.number < handler'[h].event.number
      BY <2>1, <3>1, <1>3 DEF IndexedEvent, Issued, ChainEvents
    <3>5. QED  BY <3>2, <3>3, <3>4, <1>3 DEF Apart, Precedes
  <2>2. \A i \in DOMAIN queue' : Queued(i)' =>
          /\ Queued(i) /\ i \in DOMAIN queue /\ queue'[i].event = queue[i].event
          /\ queue[i].event \in ChainEvents /\ Issued(queue[i].event)
    <3>1. \A i \in DOMAIN queue : queue[i].event \in ChainEvents
      BY QueueItem
    <3>2. QED  BY <3>1, <1>2 DEF Queued, Running, EventsInv
  <2>3. \A g \in Handlers : Held(g)' /\ g # h =>
          /\ Held(g) /\ handler'[g].event = handler[g].event
          /\ handler[g].event \in ChainEvents /\ Issued(handler[g].event)
    BY <1>10 DEF PipelineTypeOK, Requests, Running, EventsInv
  <2>4. ASSUME NEW i \in DOMAIN queue', NEW j \in DOMAIN queue', Queued(i)', Queued(j)', i # j
        PROVE  Apart(queue'[i].event, queue'[j].event)
    BY <2>2, <2>4 DEF Running, OrderInv
  <2>5. ASSUME NEW f \in Handlers, NEW g \in Handlers, Held(f)', Held(g)', f # g
        PROVE  Apart(handler'[f].event, handler'[g].event)
    <3>1. CASE f # h /\ g # h
      BY <3>1, <2>3, <2>5 DEF Running, OrderInv
    <3>2. CASE g = h
      BY <3>2, <2>1, <2>3, <2>5
    <3>3. CASE f = h
      <4>1. Apart(handler'[g].event, handler'[h].event)
        BY <3>3, <2>1, <2>3, <2>5
      <4>2. QED  BY <4>1, <3>3 DEF Apart
    <3>4. QED  BY <3>1, <3>2, <3>3
  <2>6. ASSUME NEW i \in DOMAIN queue', NEW g \in Handlers, Queued(i)', Held(g)'
        PROVE  Apart(queue'[i].event, handler'[g].event)
    <3>1. CASE g = h
      BY <3>1, <2>1, <2>2, <2>6
    <3>2. CASE g # h
      BY <3>2, <2>2, <2>3, <2>6 DEF Running, OrderInv
    <3>3. QED  BY <3>1, <3>2
  <2>7. QED  BY <2>4, <2>5, <2>6 DEF OrderInv
<1>15. QED  BY <1>12, <1>13, <1>14 DEF Running

-----------------------------------------------------------------------------
(* The events of the coordinator. *)

Whole(e) == e.kind = "bitcoin" => e.late \/ e.blocks = e.wanted

\* Events are added at the end and received from the front.
LEMMA WholeEvents ==
    ASSUME PipelineTypeOK, CompleteUnlessLate, PipelineTypeOK',
           \/ UNCHANGED events
           \/ events # <<>> /\ events' = Tail(events)
           \/ \E e : events' = Append(events, e) /\ Whole(e)
           \/ \E d, e : events' = events \o <<d, e>> /\ Whole(d) /\ Whole(e)
    PROVE  CompleteUnlessLate'
<1>0. /\ events \in Seq(ObserverEvents) /\ events' \in Seq(ObserverEvents)
      /\ \A i \in DOMAIN events : Whole(events[i])
  BY DEF PipelineTypeOK, CompleteUnlessLate, Whole
<1>1. SUFFICES \A i \in DOMAIN events' : Whole(events'[i])
  BY DEF CompleteUnlessLate, Whole
<1>2. CASE UNCHANGED events
  BY <1>0, <1>2
<1>3. CASE events # <<>> /\ events' = Tail(events)
  BY <1>0, <1>3
<1>4. ASSUME NEW e, events' = Append(events, e), Whole(e)
      PROVE  \A i \in DOMAIN events' : Whole(events'[i])
  <2>1. PICK n \in Nat : /\ DOMAIN events = 1..n
                         /\ DOMAIN events' = 1..(n + 1) /\ events'[n + 1] = e
                         /\ \A i \in 1..n : events'[i] = events[i]
    <3>1. Len(events) \in Nat /\ DOMAIN events = 1..Len(events)
      BY <1>0
    <3>2. /\ DOMAIN events' = 1..(Len(events) + 1) /\ events'[Len(events) + 1] = e
          /\ \A i \in 1..Len(events) : events'[i] = events[i]
      BY <1>0, <1>4
    <3>3. QED  BY <3>1, <3>2, Zenon
  <2>2. ASSUME NEW i \in 1..(n + 1) PROVE Whole(events'[i])
    <3>1. i \in 1..n \/ i = n + 1
      OBVIOUS
    <3>2. QED  BY <3>1, <2>1, <1>0, <1>4, Zenon
  <2>3. QED  BY <2>1, <2>2
<1>5. ASSUME NEW d, NEW e, events' = events \o <<d, e>>, Whole(d), Whole(e)
      PROVE  \A i \in DOMAIN events' : Whole(events'[i])
  <2>1. PICK n \in Nat : /\ DOMAIN events = 1..n /\ DOMAIN events' = 1..(n + 2)
                         /\ events'[n + 1] = d /\ events'[n + 2] = e
                         /\ \A i \in 1..n : events'[i] = events[i]
    <3>1. Len(events) \in Nat /\ DOMAIN events = 1..Len(events)
      BY <1>0
    <3>2. /\ DOMAIN events' = 1..(Len(events) + 2)
          /\ events'[Len(events) + 1] = d /\ events'[Len(events) + 2] = e
          /\ \A i \in 1..Len(events) : events'[i] = events[i]
      BY <1>0, <1>5
    <3>3. QED  BY <3>1, <3>2, Zenon
  <2>2. ASSUME NEW i \in 1..(n + 2) PROVE Whole(events'[i])
    <3>1. i \in 1..n \/ i = n + 1 \/ i = n + 2
      OBVIOUS
    <3>2. QED  BY <3>1, <2>1, <1>0, <1>5, Zenon
  <2>3. QED  BY <2>1, <2>2
<1>6. QED  BY <1>2, <1>3, <1>4, <1>5

-----------------------------------------------------------------------------
LEMMA InvariantStep == IInv /\ [Next]_vars => IInv'
<1> SUFFICES ASSUME IInv, [Next]_vars PROVE IInv'
  OBVIOUS
<1>0. /\ PipelineTypeOK /\ TipInv /\ CompleteUnlessLate
      /\ observer = "running" => Running
      /\ observer = "ended" => queue = <<>>
      /\ observer \in {"running", "ended"}
  BY DEF IInv, Running, PipelineTypeOK
<1>a. PipelineTypeOK' /\ TipInv'
  BY <1>0, TypeStep
<1>b. ASSUME CompleteUnlessLate', observer' = "running" => Running',
             observer' = "ended" => queue' = <<>>
      PROVE  IInv'
  BY <1>a, <1>b DEF IInv, Running
<1>c. UNCHANGED events => CompleteUnlessLate'
  BY <1>0, <1>a, WholeEvents
<1>d. ASSUME observer' = observer, queue' = queue, store' = store, newest' = newest,
             events' = events, indexer'["bitcoin"] = indexer["bitcoin"],
             \A g \in Handlers : At(g, "index", "bitcoin")' =>
                 At(g, "index", "bitcoin") /\ handler'[g].block = handler[g].block,
             \A g \in Handlers : Held(g)' => Held(g) /\ handler'[g].event = handler[g].event
      PROVE  IInv'
  BY <1>0, <1>b, <1>c, <1>d, NothingNewWaits
<1>e. Idle.at = "idle" /\ handler \in [Handlers -> Requests]
  BY <1>0, Types DEF PipelineTypeOK
<1>1. ASSUME NEW h \in Handlers, NEW chain \in Chains, Request(h, chain) PROVE IInv'
  <2> DEFINE r == [Idle EXCEPT !.at = IF chain = "bitcoin" THEN "download" ELSE "index",
                               !.chain = chain, !.block = Min(due[chain])]
  <2>1. r.chain = chain /\ r.at = IF chain = "bitcoin" THEN "download" ELSE "index"
    BY Zenon DEF Idle
  <2>2. handler' = [handler EXCEPT ![h] = r]
    BY <1>1, Zenon DEF Request
  <2> HIDE DEF r
  <2>3. \A g \in Handlers : handler'[g] = IF g = h THEN r ELSE handler[g]
    BY <2>2, <1>e
  <2>4. ~(r.at = "index" /\ r.chain = "bitcoin") /\ r.at # "queueEvent"
    BY <2>1
  <2>5. \A g \in Handlers :
          /\ At(g, "index", "bitcoin")' =>
                 At(g, "index", "bitcoin") /\ handler'[g].block = handler[g].block
          /\ Held(g)' => Held(g) /\ handler'[g].event = handler[g].event
    BY <2>3, <2>4 DEF At, Held
  <2>6. QED  BY <2>5, <1>1, <1>d DEF Request
<1>2. ASSUME NEW h \in Handlers, RequestFails(h) PROVE IInv'
  <2>1. \A g \in Handlers : handler'[g] = IF g = h THEN Idle ELSE handler[g]
    BY <1>2, <1>e DEF RequestFails
  <2>2. \A g \in Handlers :
          /\ At(g, "index", "bitcoin")' =>
                 At(g, "index", "bitcoin") /\ handler'[g].block = handler[g].block
          /\ Held(g)' => Held(g) /\ handler'[g].event = handler[g].event
    BY <2>1, <1>e DEF At, Held
  <2>3. QED  BY <2>2, <1>2, <1>d DEF RequestFails
<1>3. ASSUME NEW h \in Handlers, QueueBlock(h) PROVE IInv'
  <2> DEFINE command == Command("process", handler[h].block, NoEvent)
  <2>1. command \in Commands /\ command.kind = "process" /\ command.block = handler[h].block
    <3>1. handler[h].block \in Nat
      BY <1>e DEF Requests
    <3>2. QED  BY <3>1, Types DEF Command, Commands
  <2>2. Step(h, "index")
    BY <1>3 DEF QueueBlock
  <2>3. /\ \A g \in Handlers : g # h => handler'[g] = handler[g]
        /\ handler'[h].at = "index" /\ handler'[h].chain = handler[h].chain
        /\ handler'[h].block = handler[h].block /\ handler'[h].event = handler[h].event
    BY <2>2, <1>e, StepFields, Zenon
  <2>4. /\ indexer' = indexer /\ store' = store /\ newest' = newest /\ events' = events
        /\ observer' = observer
        /\ queue' = IF observer = "running" THEN Append(queue, command) ELSE queue
    BY <1>3 DEF QueueBlock, Send
  <2>5. CASE observer = "running"
    <3>1. \A g \in Handlers : At(g, "index", "bitcoin")' =>
               \/ command.kind = "process" /\ command.block = handler'[g].block
               \/ At(g, "index", "bitcoin") /\ handler'[g].block = handler[g].block
      BY <2>1, <2>3 DEF At
    <3>2. \A g \in Handlers : Held(g)' => Held(g) /\ handler'[g].event = handler[g].event
      BY <2>3 DEF Held, At
    <3>3. command.kind # "bitcoin" /\ queue' = Append(queue, command)
      BY <2>1, <2>4, <2>5
    <3> HIDE DEF command
    <3>4. Running'
      BY <3>1, <3>2, <3>3, <2>1, <2>4, <2>5, <1>0, CommandQueued
    <3>5. QED  BY <3>4, <2>4, <2>5, <1>0, <1>b, <1>c
  <2>6. CASE observer = "ended"
    BY <2>4, <2>6, <1>0, <1>b, <1>c
  <2>7. QED  BY <2>5, <2>6, <1>0
<1>4. ASSUME NEW h \in Handlers, Index(h) PROVE IInv'
  <2>1. queue' = queue /\ store' = store /\ newest' = newest /\ events' = events
        /\ observer' = observer
    BY <1>4 DEF Index
  <2>2. CASE handler[h].chain = "bitcoin"
    <3>1. observer = "running" => Running'
      BY <2>2, <1>0, <1>4, HeaderIndexed
    <3>2. QED  BY <3>1, <2>1, <1>0, <1>b, <1>c
  <2>3. CASE handler[h].chain # "bitcoin"
    <3> DEFINE c == handler[h].chain
    <3>1. /\ \A d \in Chains : d # c => indexer'[d] = indexer[d]
          /\ \A g \in Handlers : g # h => handler'[g] = handler[g]
          /\ IndexedQuietly(h, c) \/ IndexedEvent(h, c)
      BY <1>0, <1>4, IndexFields
    <3>2. \A g \in Handlers :
            /\ At(g, "index", "bitcoin")' =>
                   At(g, "index", "bitcoin") /\ handler'[g].block = handler[g].block
            /\ Held(g)' => Held(g) /\ handler'[g].event = handler[g].event
      BY <3>1, <2>3, <1>e DEF At, Held, IndexedQuietly, IndexedEvent
    <3>3. indexer'["bitcoin"] = indexer["bitcoin"]
      BY <3>1, <2>3, Types
    <3>4. QED  BY <3>2, <3>3, <2>1, <1>d
  <2>4. QED  BY <2>2, <2>3
<1>5. ASSUME NEW h \in Handlers, QueueEvent(h) PROVE IInv'
  <2> DEFINE command == Command(handler[h].chain, handler[h].block, handler[h].event)
  <2>1. /\ handler[h] \in Requests /\ handler[h].chain \in Chains
        /\ handler[h].at = "queueEvent"
    BY <1>0, <1>5 DEF QueueEvent, PipelineTypeOK
  <2>2. /\ command \in Commands /\ command.kind = handler[h].chain
        /\ command.event = handler[h].event
    BY <2>1 DEF Requests, Command, Commands, Chains
  <2>3. \A g \in Handlers : handler'[g] = IF g = h THEN Idle ELSE handler[g]
    BY <1>5, <1>e DEF QueueEvent
  <2>4. \A g \in Handlers :
          /\ At(g, "index", "bitcoin")' =>
                 At(g, "index", "bitcoin") /\ handler'[g].block = handler[g].block
          /\ Held(g)' => Held(g) /\ handler'[g].event = handler[g].event
    BY <2>3, <1>e DEF At, Held
  <2>5. /\ indexer' = indexer /\ store' = store /\ newest' = newest /\ events' = events
        /\ observer' = observer
        /\ queue' = IF observer = "running" THEN Append(queue, command) ELSE queue
    BY <1>5 DEF QueueEvent, Send
  <2>6. CASE observer = "running"
    <3>1. command.kind = "bitcoin" =>
            Held(h) /\ ~Held(h)' /\ command.event = handler[h].event
      BY <2>1, <2>2, <2>3, <1>e DEF Held, At
    <3>2. queue' = Append(queue, command)
      BY <2>5, <2>6
    <3> HIDE DEF command
    <3>3. Running'
      BY <3>1, <3>2, <2>2, <2>4, <2>5, <2>6, <1>0, CommandQueued
    <3>4. QED  BY <3>3, <2>5, <2>6, <1>0, <1>b, <1>c
  <2>7. CASE observer = "ended"
    BY <2>5, <2>7, <1>0, <1>b, <1>c
  <2>8. QED  BY <2>6, <2>7, <1>0
<1>6. CASE ProcessBitcoinBlock
  <2>1. /\ observer = "running" /\ queue # <<>> /\ store' = store \cup {queue[1].block}
        /\ queue[1].kind = "process"
        /\ queue' = Tail(queue) /\ handler' = handler /\ indexer' = indexer
        /\ observer' = observer /\ newest' = newest /\ events' = events
    BY <1>0, <1>6, QueueHead DEF ProcessBitcoinBlock, Receives, PipelineTypeOK
  <2>2. ASSUME NEW b \in Nat, NEW n \in Nat, Kept(b, n + 1) PROVE Kept(b, n)'
    BY <2>1, <2>2, <1>0, TailKeeps
  <2>3. newest \in Nat
    BY <1>0 DEF PipelineTypeOK
  <2>4. Running'
    <3> DEFINE gone == {}
    <3>1. /\ \A b, n \in Nat : Kept(b, n + 1) => Kept(b, n)' \/ b \in gone
          /\ \A b \in gone : b <= indexer["bitcoin"].tip
          /\ \A s : s \cap gone = {}
      BY <2>2
    <3> HIDE DEF gone
    <3>2. newest' \in Nat /\ newest <= newest'
      BY <2>1, <2>3
    <3>3. QED  BY <3>1, <3>2, <2>1, <1>0, CommandTaken
  <2>5. QED  BY <2>1, <2>4, <1>b, <1>c
<1>7. CASE ObserverEnds
  <2> DEFINE d == Event("info", {}, {}, FALSE)
             e == Event("terminate", {}, {}, FALSE)
  <2>1. Whole(d) /\ Whole(e)
    BY DEF Whole, Event
  <2>2. events' = events \o <<d, e>> /\ observer' = "ended" /\ queue' = <<>>
    BY <1>7 DEF ObserverEnds
  <2> HIDE DEF d, e
  <2>3. CompleteUnlessLate'
    BY <2>1, <2>2, <1>0, <1>a, WholeEvents
  <2>4. QED  BY <2>2, <2>3, <1>b
<1>8. CASE PropagateBitcoinChainEvent
  <2> DEFINE e == queue[1].event
             a == Event("bitcoin", e.new, e.new \cap store, e.number < newest)
  <2>1. /\ observer = "running" /\ queue # <<>> /\ Head(queue) = queue[1]
        /\ queue[1].kind = "bitcoin" /\ 1 \in DOMAIN queue
    BY <1>0, <1>8, QueueHead DEF PropagateBitcoinChainEvent, Receives, PipelineTypeOK
  <2>2. /\ events' = Append(events, a) /\ store' = store \ e.confirmed
        /\ newest' = Max({newest, e.number})
        /\ queue' = Tail(queue) /\ handler' = handler /\ indexer' = indexer
        /\ observer' = observer
    BY <1>8, <2>1, Zenon DEF PropagateBitcoinChainEvent
  <2>3. Queued(1) /\ Issued(e) /\ Complete(e, 1) /\ e \in ChainEvents
    BY <2>1, <1>0, QueueItem DEF Queued, Running, EventsInv
  <2>4. newest \in Nat /\ e.number \in Nat
    BY <2>3, <1>0 DEF PipelineTypeOK, ChainEvents
  <2>5. Whole(a)
    <3>1. CASE e.number < newest
      BY <3>1 DEF Whole, Event
    <3>2. CASE \A b \in e.new : Kept(b, 1)
      <4>1. \A i \in DOMAIN queue : i <= 1 => i = 1
        BY <1>0 DEF PipelineTypeOK
      <4>2. \A b \in e.new : b \in store
        BY <4>1, <3>2, <2>1 DEF Kept
      <4>3. e.new \cap store = e.new
        BY <4>2
      <4>4. QED  BY <4>3 DEF Whole, Event
    <3>3. QED  BY <3>1, <3>2, <2>3 DEF Complete
  <2>6. newest' \in Nat /\ newest <= newest' /\ e.number <= newest'
    <3>1. \E x \in {newest, e.number} : \A y \in {newest, e.number} : x >= y
      BY <2>4
    <3>2. /\ Max({newest, e.number}) \in {newest, e.number}
          /\ \A y \in {newest, e.number} : Max({newest, e.number}) >= y
      BY <3>1 DEF Max
    <3> HIDE DEF e
    <3>3. QED  BY <3>2, <2>2, <2>4
  <2>7. CompleteUnlessLate'
    <3> HIDE DEF a
    <3> QED  BY <2>2, <2>5, <1>0, <1>a, WholeEvents
  <2> HIDE DEF a
  <2>8. ASSUME NEW d \in ChainEvents, Apart(e, d)
        PROVE  d.number < newest' \/ d.new \cap e.confirmed = {}
    <3>1. d.number \in Nat /\ d.new \in SUBSET Nat /\ e.confirmed \in SUBSET Nat
      BY <2>3 DEF ChainEvents
    <3> HIDE DEF e
    <3>2. CASE Precedes(d, e)
      BY <3>1, <3>2, <2>4, <2>6 DEF Precedes
    <3>3. CASE Precedes(e, d)
      BY <3>1, <3>3 DEF Precedes
    <3>4. QED  BY <2>8, <3>2, <3>3 DEF Apart
  <2>9. Running'
    <3> DEFINE gone == e.confirmed
    <3>1. ASSUME NEW b \in Nat, NEW n \in Nat, Kept(b, n + 1)
          PROVE  Kept(b, n)' \/ b \in gone
      BY <2>1, <2>2, <3>1, <1>0, TailKeeps
    <3>2. \A b \in gone : b <= indexer["bitcoin"].tip
      BY <2>3 DEF Issued
    <3>3. \A i \in DOMAIN queue : Queued(i) /\ i # 1 =>
            queue[i].event.number < newest' \/ queue[i].event.new \cap gone = {}
      BY <2>1, <2>3, <2>8, <1>0, QueueItem DEF Running, OrderInv
    <3>4. \A h \in Handlers : Held(h) =>
            handler[h].event.number < newest' \/ handler[h].event.new \cap gone = {}
      <4>1. \A h \in Handlers : handler[h].event \in ChainEvents
        BY <1>e DEF Requests
      <4>2. QED  BY <4>1, <2>1, <2>3, <2>8, <1>0 DEF Running, OrderInv
    <3> HIDE DEF gone, e
    <3>5. QED  BY <3>1, <3>2, <3>3, <3>4, <2>1, <2>2, <2>6, <1>0, CommandTaken
  <2>10. QED  BY <2>1, <2>2, <2>7, <2>9, <1>b
<1>9. CASE PropagateStacksChainEvent
  <2> DEFINE e == Head(queue).event
             a == Event("stacks", e.new, e.new, FALSE)
  <2>1. /\ observer = "running" /\ queue # <<>> /\ queue[1].kind = "stacks"
        /\ store' = store /\ queue' = Tail(queue) /\ handler' = handler
        /\ indexer' = indexer /\ observer' = observer /\ newest' = newest
    BY <1>0, <1>9, QueueHead DEF PropagateStacksChainEvent, Receives, PipelineTypeOK
  <2>2. events' = Append(events, a)
    BY <1>9, Zenon DEF PropagateStacksChainEvent
  <2>3. Whole(a)
    BY DEF Whole, Event
  <2>4. CompleteUnlessLate'
    <3> HIDE DEF a
    <3> QED  BY <2>2, <2>3, <1>0, <1>a, WholeEvents
  <2>5. ASSUME NEW b \in Nat, NEW n \in Nat, Kept(b, n + 1) PROVE Kept(b, n)'
    <3> DEFINE gone == {}
    <3>1. store' = IF queue[1].kind = "process" THEN store \cup {queue[1].block}
                   ELSE store \ gone
      BY <2>1
    <3>2. b \notin gone
      OBVIOUS
    <3> HIDE DEF gone
    <3>3. QED  BY <2>1, <2>5, <3>1, <3>2, <1>0, TailKeeps
  <2>6. newest \in Nat
    BY <1>0 DEF PipelineTypeOK
  <2>7. Running'
    <3> DEFINE gone == {}
    <3>1. /\ \A b, n \in Nat : Kept(b, n + 1) => Kept(b, n)' \/ b \in gone
          /\ \A b \in gone : b <= indexer["bitcoin"].tip
          /\ \A s : s \cap gone = {}
      BY <2>5
    <3> HIDE DEF gone
    <3>2. newest' \in Nat /\ newest <= newest'
      BY <2>1, <2>6
    <3>3. QED  BY <3>1, <3>2, <2>1, <1>0, CommandTaken
  <2>8. QED  BY <2>1, <2>4, <2>7, <1>b
<1>10. CASE CoordinatorStep
  <2>1. /\ handler' = handler /\ indexer' = indexer /\ queue' = queue
        /\ observer' = observer /\ store' = store /\ newest' = newest
    BY <1>10 DEF CoordinatorStep
  <2>2. CompleteUnlessLate'
    BY <1>10, <1>0, <1>a, WholeEvents, Zenon DEF CoordinatorStep
  <2>3. observer = "running" => Running'
    BY <2>1, <1>0, NothingNewWaits DEF At, Held
  <2>4. QED  BY <2>1, <2>2, <2>3, <1>0, <1>b
<1>11. CASE MineBitcoin \/ MineStacks \/ UNCHANGED vars
  <2>1. /\ handler' = handler /\ indexer' = indexer /\ queue' = queue
        /\ observer' = observer /\ store' = store /\ newest' = newest /\ events' = events
    BY <1>11 DEF MineBitcoin, MineStacks, vars, pipelineVars
  <2>2. QED  BY <2>1, <1>d DEF At, Held
<1>12. QED
  BY <1>1, <1>2, <1>3, <1>4, <1>5, <1>6, <1>7, <1>8, <1>9, <1>10, <1>11,
     CoordinatorSteps, Zenon DEF Next, PipelineNext

LEMMA InvariantInit == Init => IInv
<1> SUFFICES ASSUME Init PROVE IInv
  OBVIOUS
<1>0. /\ handler = [h \in Handlers |-> Idle] /\ queue = <<>> /\ events = <<>>
      /\ indexer = [c \in Chains |-> [seen |-> {}, tip |-> 0, events |-> 0]]
      /\ observer = "running" /\ store = {} /\ newest = 0 /\ height = 0 /\ blocks = <<>>
      /\ due = [c \in Chains |-> {}]
  BY Zenon DEF Init, PipelineInit
<1>a. \A c \in Chains : indexer[c].seen = {} /\ indexer[c].tip = 0
  BY <1>0
<1>b. \A h \in Handlers : handler[h].at = "idle"
  BY <1>0, Types
<1>c. DOMAIN queue = {} /\ DOMAIN events = {} /\ Len(blocks) = 0
  BY <1>0
<1>1. PipelineTypeOK
  <2>1. indexer \in [Chains -> [seen : SUBSET Announced, tip : Nat, events : Nat]]
    BY <1>0
  <2>2. handler \in [Handlers -> Requests]
    BY <1>0, Types
  <2>3. due \in [Chains -> SUBSET Announced]
    BY <1>0
  <2>4. queue \in Seq(Commands) /\ events \in Seq(ObserverEvents)
    BY <1>0
  <2>5. QED  BY <2>1, <2>2, <2>3, <2>4, <1>0, <1>b, <1>c, Types DEF PipelineTypeOK
<1>2. TipInv /\ CompleteUnlessLate
  <2>1. 1..0 = {}
    OBVIOUS
  <2>2. QED  BY <2>1, <1>a, <1>c DEF TipInv, CompleteUnlessLate
<1>3. KeptInv /\ EventsInv /\ OrderInv
  BY <1>a, <1>b, <1>c, Types DEF KeptInv, EventsInv, OrderInv, At, Held
<1>4. QED  BY <1>0, <1>1, <1>2, <1>3 DEF IInv

\* CompleteUnlessLate holds for every number of requests served at once, every
\* depth of confirmation and chains of every length: an event that
\* start_observer_commands_handler handles in its turn goes to the coordinator with
\* every block it is about.
THEOREM OnTimeIsComplete == Spec => []CompleteUnlessLate
<1>1. IInv => CompleteUnlessLate
  BY DEF IInv
<1>2. QED  BY <1>1, InvariantInit, InvariantStep, PTL DEF Spec
=============================================================================
