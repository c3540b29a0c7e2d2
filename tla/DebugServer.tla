----------------------------- MODULE DebugServer ------------------------------
(***************************************************************************)
(* Debug sessions: an expression run under the console's debugger          *)
(* (repl/debug/cli.rs) or launched by an editor (repl/debug/dap/mod.rs),   *)
(* and the server that an editor attaches to while test runners send it    *)
(* calls (clarinet-cli/src/frontend/dap.rs, the SDK's clients of it in     *)
(* clarinet-sdk/node). Requests of the editor wait in its connection until *)
(* the debugger reads them, which it only does during the handshake and    *)
(* while it is stopped; what it sends arrives at once.                     *)
(*                                                                         *)
(* First comes the debugger's state and what it makes of the calls of the  *)
(* evaluation hook (repl/debug/mod.rs), shared by all of them. An          *)
(* execution is the sequence of hook calls that the VM makes for it.       *)
(***************************************************************************)
EXTENDS Integers, Sequences

SX == INSTANCE SequencesExt

CONSTANT Calls  \* The hook calls of each expression that is run: name -> sequence of HookCall.

\* A hook call: an expression of a contract begins or ends, where it is, whether it is a list, and
\* which stored variable it accesses in which way.
HookCall ==
    [ev: {"begin", "end"}, c: STRING, id: Nat, line: Nat, col: Nat, list: BOOLEAN,
     access: {"none", "read", "write"}, name: STRING]

\* The expressions that are being evaluated after each hook call, by where they began.
FramesOf(calls) ==
    LET F[n \in 0..Len(calls)] ==
            IF n = 0 THEN <<>>
            ELSE IF calls[n].ev = "begin" THEN Append(F[n - 1], n) ELSE SX!Front(F[n - 1])
    IN F
\* An execution, with what is being evaluated after each of its hook calls.
Executions == [k \in DOMAIN Calls |-> [calls |-> Calls[k], frames |-> FramesOf(Calls[k])]]

\* The VM calls the hook in pairs: only an expression that has begun ends.
ASSUME CallsAssumption ==
    \A k \in DOMAIN Calls :
        /\ Calls[k] \in Seq(HookCall)
        /\ \A n \in 1..Len(Calls[k]) : Calls[k][n].ev = "end" => FramesOf(Calls[k])[n - 1] # <<>>

---------------------------------------------------------------------------
(* The state of a debug session.                                           *)

St(k, id) == [k |-> k, id |-> id]

\* break_locations and watch_variables, which index breakpoints by contract and watchpoints by
\* variable, are what bps and wps say.
NewDebugState ==
    [bps |-> <<>>, wps |-> <<>>, active |-> {}, state |-> St("Start", 0), stack |-> <<>>, unique |-> 0]

\* Breakpoints and watchpoints are kept, everything about the last call goes.
reset_for_new_call(d) == [d EXCEPT !.active = {}, !.state = St("Continue", 0), !.stack = <<>>]

continue_execution(d) == [d EXCEPT !.state = St("Continue", 0)]
step_over(d, id) == [d EXCEPT !.state = St("StepOver", id)]
step_in(d) == [d EXCEPT !.state = St("StepIn", 0)]
\* Until the expression around the current one has ended.
finish(d) ==
    [d EXCEPT !.state = IF Len(d.stack) >= 2 THEN St("Finish", d.stack[Len(d.stack) - 1].id)
                        ELSE St("Continue", 0)]
quit(d) == [d EXCEPT !.state = St("Quit", 0)]
pause(d) == [d EXCEPT !.state = St("Pause", 0)]

\* Breakpoints and watchpoints are numbered together.  Column 0 stands for any.
Breakpoint(b) == [c |-> b.c, line |-> b.line, col |-> b.col]
Watchpoint(w) == [c |-> w.c, name |-> w.name, access |-> w.access]
add_breakpoints(d, bs) ==
    [d EXCEPT !.unique = @ + Len(bs),
              !.bps = [i \in DOMAIN @ \cup (d.unique + 1)..(d.unique + Len(bs)) |->
                          IF i > d.unique THEN Breakpoint(bs[i - d.unique]) ELSE @[i]]]
add_breakpoint(d, b) == add_breakpoints(d, <<b>>)
delete_breakpoint(d, id) == [d EXCEPT !.bps = [i \in DOMAIN @ \ {id} |-> @[i]]]
delete_all_breakpoints(d) == [d EXCEPT !.bps = <<>>]
add_watchpoint(d, w) ==
    [d EXCEPT !.unique = @ + 1,
              !.wps = [i \in DOMAIN @ \cup {d.unique + 1} |-> IF i > d.unique THEN Watchpoint(w) ELSE @[i]]]
delete_watchpoint(d, id) == [d EXCEPT !.wps = [i \in DOMAIN @ \ {id} |-> @[i]]]
delete_all_watchpoints(d) == [d EXCEPT !.wps = <<>>]

\* Where a breakpoint is, and what a watchpoint looks at.
Matches(b, e) == b.c = e.c /\ b.line = e.line /\ b.col \in {0, e.col}
Watches(w, e) == w.c = e.c /\ w.name = e.name /\ e.access # "none" /\ w.access \in {"both", e.access}

\* The ids that may be returned: breakpoints are searched in the order of a hash set.
did_hit_source_breakpoint(d, e) == {i \in DOMAIN d.bps \ d.active : Matches(d.bps[i], e)}
did_hit_data_breakpoint(d, e) == {i \in DOMAIN d.wps : Watches(d.wps[i], e)}

Pushed(d, e) == [d EXCEPT !.stack = Append(@, [id |-> e.id, act |-> {}])]
AtBreakpoint(d, e) ==
    LET hit(i) == [d EXCEPT !.active = @ \cup {i}, !.stack[Len(d.stack)].act = @ \cup {i},
                            !.state = St("Break", i)]
        ids == did_hit_source_breakpoint(d, e)
    IN IF ids = {} THEN {d} ELSE {hit(i) : i \in ids}
AtWatchpoint(d, e) ==
    LET ids == did_hit_data_breakpoint(d, e)
    IN IF ids = {} THEN {d} ELSE {[d EXCEPT !.state = St("DataBreak", i)] : i \in ids}

\* Mutant: only the innermost expression is compared with the one that is stepped over.
MutantWaits(d) ==
    CASE d.state.k \in {"Continue", "Quit", "Finish"} -> FALSE
      [] d.state.k = "StepOver" -> SX!Last(d.stack).id # d.state.id
      [] OTHER -> TRUE
Waits(d) ==
    CASE d.state.k \in {"Continue", "Quit", "Finish"} -> FALSE
      [] d.state.k = "StepOver" -> ~ \E i \in 1..Len(d.stack) : d.stack[i].id = d.state.id
      [] OTHER -> TRUE

\* will_begin_eval: the states after it, and whether the debugger waits for a command.
Runs(d) == [d |-> d, waits |-> FALSE]
will_begin_eval(d, e) ==
    LET p == Pushed(d, e)
    IN IF p.state.k = "Quit" THEN {Runs(p)}
       ELSE IF ~ e.list THEN {Runs(b) : b \in AtBreakpoint(p, e)}
       ELSE {[d |-> x, waits |-> Waits(x)] : x \in UNION {AtWatchpoint(b, e) : b \in AtBreakpoint(p, e)}}

did_finish_eval(d, e) ==
    LET top == SX!Last(d.stack)
        popped == [d EXCEPT !.stack = SX!Front(@), !.active = @ \ top.act]
    IN IF d.state = St("Finish", top.id) THEN [popped EXCEPT !.state = St("Finished", 0)] ELSE popped

-----------------------------------------------------------------------------
(* The sessions. *)

CONSTANTS
    Contracts,    \* The contracts of the project.
    FunctionBreakpoints,  \* Where the console breaks on a function, for every function.
    Modes,        \* Of "cli", "launch" and "attach".
    Debugged,     \* The expressions that the console and a launch debug.
    Breakpoints,  \* The requests to set breakpoints: sequences of [c, line, col].
    Watchables,   \* The variables to watch: [c, name, access].
    Scripts,      \* What each test runner sends: client -> sequence of [m, ks].
    Blocking,     \* The test runners that use the blocking client.
    MaxPoints,    \* How many breakpoints and watchpoints are set, in each mode.
    MaxInbox,     \* How many requests the editor has under way.
    MaxPauses     \* How many requests the editor makes that do not resume.

SourceLocations == [c: STRING, line: Nat, col: Nat]
Variables == [c: STRING, name: STRING, access: {"read", "write", "both"}]

ASSUME ServerAssumption ==
    /\ Modes \subseteq {"cli", "launch", "attach"} /\ Debugged \subseteq DOMAIN Calls
    /\ Breakpoints \subseteq Seq(SourceLocations) /\ FunctionBreakpoints \subseteq SourceLocations
    /\ Watchables \subseteq Variables
    /\ \A c \in DOMAIN Scripts : Scripts[c] \in Seq([m: STRING, ks: Seq(DOMAIN Calls)])

VARIABLES
    mode,    \* How the debugger is used.
    phase,   \* "handshake", "idle" (the lock is free), "running", "stopped" or "ended".
    d,       \* The DebugState.
    dap,     \* DAPDebugger: launched, init_complete and config_done.
    run,     \* The execution: by which client, of which snippets, how far.
    inbox,   \* Requests of the editor that have not been read.
    editor,  \* What the editor believes, what it has said and how many answers it is owed.
    sdk,     \* The test runners and their connections.
    goal     \* Where execution was last resumed, how, and when each breakpoint was set.

vars == <<mode, phase, d, dap, run, inbox, editor, sdk, goal>>

Clients == DOMAIN Scripts
NoRun == [by |-> "", ks |-> <<>>, pos |-> 0]
T == Executions[Head(run.ks)].calls
Here == T[run.pos]

---------------------------------------------------------------------------
(* The requests of the editor.  A handler takes and returns what it can    *)
(* change, together with what the editor is told and whether to proceed.   *)

Answered(s) == [s EXCEPT !.editor.owed = @ - 1]
\* What has been said matters while the session is being configured.
Views(e, v) == [e EXCEPT !.view = v, !.said = IF v \in {"stopped", "running", "gone"} THEN {} ELSE e.said]
Sees(s, v) == [s EXCEPT !.editor = Views(s.editor, v)]
Proceeds(s) == [s EXCEPT !.go = TRUE]

initialize(s) == Sees(Answered(s), "init")
\* A launch without a manifest or an expression is refused; any other is only answered by threads.
launch(s, r) ==
    IF ~ r.complete THEN Sees(Answered(s), "failed")
    ELSE [s EXCEPT !.d = NewDebugState, !.dap.launched = TRUE]
attach(s) == Sees(Answered([s EXCEPT !.d = NewDebugState]), "configuring")
\* Attached, the end of the handshake: from here on the editor takes the program to be running.
Configured(s) == IF s.dap.config THEN s ELSE Sees([s EXCEPT !.dap.config = TRUE], "running")
configuration_done(s) == IF mode = "attach" THEN Configured(Answered(s)) ELSE Answered(s)
\* A file that no contract was read from is refused.  Breakpoints are only ever added.
set_breakpoints(s, r) ==
    IF \E i \in 1..Len(r.bs) : r.bs[i].c \notin Contracts THEN Answered(s)
    ELSE Answered([s EXCEPT !.d = add_breakpoints(@, r.bs)])
MutantThreads(s) ==
    IF mode = "attach" THEN Configured(Answered(s))
    ELSE IF s.dap.init THEN Answered(s)
    ELSE [Answered(Answered(s)) EXCEPT !.dap.init = TRUE]
\* The end of the handshake.  Launching is answered here, and the editor told that it is stopped.
threads(s) ==
    IF mode = "attach" THEN Configured(Answered(s))
    ELSE IF s.dap.init THEN Answered(s)
    ELSE Sees([Answered(Answered(s)) EXCEPT !.dap.init = TRUE], "stopped")
\* setExceptionBreakpoints, stackTrace, scopes, variables, and what is not supported.
Informs(s) == Answered(s)

Resumes(s, ds) == Proceeds(Sees(Answered([s EXCEPT !.d = ds]), "running"))
pause_(s) == Proceeds(Answered([s EXCEPT !.d = pause(@)]))
disconnect(s) == Proceeds(Sees(Answered([s EXCEPT !.d = quit(@)]), "gone"))

\* A launched session wants the name of the contract with that of the variable.
extract_watch_variable(r) == r.qualified \/ mode # "launch"
\* Watching adds a write watchpoint unless the variable has one of any kind.  Before there is an
\* execution nothing is answered.
evaluate(s, r, during) ==
    LET known == {i \in DOMAIN s.d.wps : s.d.wps[i].c = r.w.c /\ s.d.wps[i].name = r.w.name}
    IN IF ~ during THEN Proceeds(s)
       ELSE IF r.watch /\ extract_watch_variable(r) /\ known = {}
       THEN Answered([s EXCEPT !.d = add_watchpoint(@, [r.w EXCEPT !.access = "write"])])
       ELSE Answered(s)

handle_request(s, r, during) ==
    CASE r.k = "initialize"        -> initialize(s)
      [] r.k = "launch"            -> launch(s, r)
      [] r.k = "attach"            -> attach(s)
      [] r.k = "configurationDone" -> configuration_done(s)
      [] r.k = "setBreakpoints"    -> set_breakpoints(s, r)
      [] r.k = "threads"           -> threads(s)
      [] r.k = "stepIn"            -> Resumes(s, step_in(s.d))
      [] r.k = "stepOut"           -> Resumes(s, finish(s.d))
      [] r.k = "next"              -> Resumes(s, step_over(s.d, Here.id))
      [] r.k = "continue"          -> Resumes(s, continue_execution(s.d))
      [] r.k = "pause"             -> pause_(s)
      [] r.k = "evaluate"          -> evaluate(s, r, during)
      [] r.k = "disconnect"        -> disconnect(s)
      [] OTHER                     -> Informs(s)

\* What a command asks for, as recorded in goal.
Asked(k) ==
    CASE k \in {"stepIn", "pause"} -> "in"
      [] k = "stepOut"  -> "out"
      [] k = "next"     -> "over"
      [] k = "continue" -> "go"
      [] OTHER          -> "quit"

---------------------------------------------------------------------------
(* The editor.                                                             *)

Req(k) == [k |-> k]
SetBreakpoints == {[k |-> "setBreakpoints", bs |-> bs] : bs \in Breakpoints}
Watch == {[k |-> "evaluate", watch |-> TRUE, qualified |-> q, w |-> w] : q \in BOOLEAN, w \in Watchables}
Inspect == {[k |-> "evaluate", watch |-> FALSE, qualified |-> TRUE, w |-> w] : w \in Watchables}
Starts == IF mode = "launch" THEN {[k |-> "launch", complete |-> b] : b \in BOOLEAN} ELSE {Req("attach")}
Steps4 == {Req(k) : k \in {"stepIn", "stepOut", "next", "continue"}}

Said(k) == k \in editor.said
\* An editor configures the session once it is told to, asks for the threads last, steps while it
\* believes that execution is stopped and pauses while it believes that it runs; disconnecting is the
\* last thing it does.
Sayable ==
    CASE editor.view = "new" -> IF Said("initialize") THEN {} ELSE {Req("initialize")}
      [] editor.view = "init" -> IF Said("launch") \/ Said("attach") THEN {} ELSE Starts
      [] editor.view = "configuring" ->
           IF Said("threads") THEN {}
           ELSE (IF Said("setBreakpoints") THEN {} ELSE SetBreakpoints)
                  \cup {Req("configurationDone"), Req("threads")}
      [] editor.view = "stopped" -> Steps4 \cup SetBreakpoints \cup Watch \cup Inspect
                                       \cup {Req("stackTrace"), Req("disconnect")}
      [] editor.view = "running" -> SetBreakpoints \cup {Req("pause"), Req("disconnect"), Req("threads")}
      [] OTHER -> {}
Free(r) == r \in Steps4 \/ r.k = "disconnect" \/ editor.view \notin {"stopped", "running"}
Points(r) ==
    CASE r.k = "setBreakpoints" -> Len(r.bs)
      [] r.k = "evaluate" -> IF r.watch THEN 1 ELSE 0
      [] OTHER -> 0
Underway == SX!FoldLeft(LAMBDA n, r : n + Points(r), 0, inbox)

Send ==
    /\ editor.open /\ editor.view # "gone"
    /\ Len(inbox) < MaxInbox /\ ~ \E i \in 1..Len(inbox) : inbox[i].k = "disconnect"
    /\ \E r \in Sayable :
          /\ Free(r) \/ editor.extra < MaxPauses
          /\ d.unique + Underway + Points(r) <= MaxPoints[mode]
          /\ inbox' = Append(inbox, r)
          /\ editor' = [editor EXCEPT !.said = IF editor.view \in {"stopped", "running"} THEN @ ELSE @ \cup {r.k},
                                      !.owed = @ + 1, !.extra = IF Free(r) THEN @ ELSE @ + 1]
    /\ UNCHANGED <<mode, phase, d, dap, run, sdk, goal>>

\* The connection ends: after a disconnect, or because the editor is gone.
Close ==
    /\ editor.open /\ mode # "cli"
    /\ editor' = [editor EXCEPT !.open = FALSE]
    /\ UNCHANGED <<mode, phase, d, dap, run, inbox, sdk, goal>>

---------------------------------------------------------------------------
(* The debugger.                                                           *)

Now == [d |-> d, dap |-> dap, editor |-> editor, go |-> FALSE]
Told(e, v) == IF e.view = "gone" \/ ~ e.open THEN e ELSE Views(e, v)
Executing(by, ks) == [by |-> by, ks |-> ks, pos |-> 0]
Goal(from, cmd, born) == [from |-> from, cmd |-> cmd, born |-> born]
Born(ds, at) == [i \in DOMAIN ds.bps \cup DOMAIN ds.wps |->
                    IF i \in DOMAIN goal.born THEN goal.born[i] ELSE at]
Unborn(ds) == [i \in DOMAIN ds.bps \cup DOMAIN ds.wps |-> 0]

\* init and init_attach: requests are read until the expression is launched or the session
\* configured; then the project is loaded.
Handshake ==
    /\ phase = "handshake" /\ inbox # <<>>
    /\ LET s == handle_request(Now, Head(inbox), FALSE) IN
          /\ d' = s.d /\ dap' = s.dap /\ editor' = s.editor
          /\ IF s.dap.launched
             THEN /\ phase' = "running"
                  /\ \E k \in Debugged : run' = Executing("", <<k>>)
                  /\ goal' = Goal(0, "in", Unborn(s.d))
             ELSE /\ phase' = IF s.dap.config THEN "idle" ELSE "handshake"
                  /\ UNCHANGED <<run, goal>>
    /\ inbox' = Tail(inbox)
    /\ UNCHANGED <<mode, sdk>>

\* Without an editor a launch ends; the server goes on alone, with a debugger that never stops.
HandshakeEof ==
    /\ phase = "handshake" /\ inbox = <<>> /\ ~ editor.open
    /\ phase' = IF mode = "launch" THEN "ended" ELSE "idle"
    /\ d' = NewDebugState
    /\ UNCHANGED <<mode, dap, run, inbox, editor, sdk, goal>>

\* EvalHook::will_begin_eval of either debugger.  The first stop of a launch asks the editor for its
\* breakpoints, every other one is reported as a stop.
Begin ==
    /\ phase = "running" /\ run.pos < Len(T) /\ T[run.pos + 1].ev = "begin"
    /\ run' = [run EXCEPT !.pos = @ + 1]
    /\ \E o \in will_begin_eval(d, T[run.pos + 1]) :
          /\ d' = o.d
          /\ phase' = IF o.waits THEN "stopped" ELSE "running"
          /\ editor' = IF ~ o.waits \/ mode = "cli" THEN editor
                       ELSE Told(editor, IF o.d.state.k = "Start" THEN "configuring" ELSE "stopped")
    /\ UNCHANGED <<mode, dap, inbox, sdk, goal>>
End ==
    /\ phase = "running" /\ run.pos < Len(T) /\ T[run.pos + 1].ev = "end"
    /\ run' = [run EXCEPT !.pos = @ + 1]
    /\ d' = did_finish_eval(d, T[run.pos + 1])
    /\ UNCHANGED <<mode, phase, dap, inbox, editor, sdk, goal>>

\* wait_for_command while stopped: until a command resumes, or the connection has ended.
CommandRequest ==
    /\ phase = "stopped" /\ inbox # <<>> /\ mode # "cli"
    /\ LET r == Head(inbox)
           s == handle_request(Now, r, TRUE)
       IN /\ d' = s.d /\ dap' = s.dap /\ editor' = s.editor
          /\ phase' = IF s.go THEN "running" ELSE "stopped"
          /\ goal' = IF s.go THEN Goal(run.pos, Asked(r.k), Born(s.d, run.pos))
                     ELSE [goal EXCEPT !.born = Born(s.d, run.pos)]
    /\ inbox' = Tail(inbox)
    /\ UNCHANGED <<mode, run, sdk>>
MutantEof ==
    /\ phase = "stopped" /\ inbox = <<>> /\ ~ editor.open
    /\ UNCHANGED vars
CommandEof ==
    /\ phase = "stopped" /\ inbox = <<>> /\ ~ editor.open
    /\ phase' = "running"
    /\ goal' = Goal(run.pos, "any", goal.born)
    /\ UNCHANGED <<mode, d, dap, run, inbox, editor, sdk>>

---------------------------------------------------------------------------
(* The console: CLIDebugger::prompt and handle_command.                    *)

Console == phase = "stopped" /\ mode = "cli"
CliResume ==
    /\ Console
    /\ \E o \in {<<"go", continue_execution(d)>>, <<"over", step_over(d, Here.id)>>, <<"in", step_in(d)>>,
                  <<"out", finish(d)>>, <<"quit", quit(d)>>} :
          d' = o[2] /\ goal' = Goal(run.pos, o[1], Born(o[2], run.pos))
    /\ phase' = "running"
    /\ UNCHANGED <<mode, dap, run, inbox, editor, sdk>>

\* A breakpoint at a line, in whatever contract is named, or at the body of a function that exists;
\* watchpoints of the three kinds.
SourceBreakpoints == UNION {SX!ToSet(bs) : bs \in Breakpoints}
break_command ==
    {add_breakpoint(d, b) : b \in SourceBreakpoints \cup FunctionBreakpoints}
watch_command ==
    UNION {{add_watchpoint(d, [w EXCEPT !.access = a]) : w \in Watchables} : a \in {"read", "write", "both"}}
delete_commands ==
    {delete_breakpoint(d, i) : i \in DOMAIN d.bps} \cup {delete_all_breakpoints(d)} \cup
    {delete_watchpoint(d, i) : i \in DOMAIN d.wps} \cup {delete_all_watchpoints(d)}
CliPoints ==
    /\ Console
    /\ d' \in (IF d.unique < MaxPoints[mode] THEN break_command \cup watch_command ELSE {}) \cup delete_commands
    /\ goal' = [goal EXCEPT !.born = Born(d', run.pos)]
    /\ UNCHANGED <<mode, phase, dap, run, inbox, editor, sdk>>

---------------------------------------------------------------------------
(* The server of the test runners.  A step of a script is [m, ks]: the     *)
(* method of the simnet that is called, and the expressions that it runs.  *)
(* Requests of a client are numbered; an answer carries the number.        *)

\* createSyncDebugSimnet: the request that a method makes, where its name is another one.
Sends(m) ==
    CASE m \in {"blockHeight", "stacksBlockHeight"} -> "getBlockHeight"
      [] m = "burnBlockHeight" -> "getBurnBlockHeight"
      [] m = "deployer" -> "getAccounts"
      [] m = "mineEmptyStacksBlock" -> "mineEmptyBlock"
      [] OTHER -> m
\* A "call" runs its expressions in order under the lock of the debugger, an "init" takes the lock to
\* read the contracts again, a "get" needs neither.  callPrivateFn is not known to the server.
RequestKind(m) ==
    CASE m \in {"eval", "execute", "call", "callPublicFn", "callReadOnlyFn", "mineBlock"} -> "call"
      [] m = "initSession" -> "init"
      [] OTHER -> "get"

\* run_sdk_request_loop reads the next request of a client when it has answered the one before.
Serves(c) == phase \notin {"handshake", "ended"} /\ mode = "attach" /\ sdk[c].wire # <<>> /\ run.by # c
Request(c) == Scripts[c][Head(sdk[c].wire)]
\* A block without transactions takes the lock and runs nothing.
Asks(c) ==
    LET kind == RequestKind(Sends(Request(c).m))
    IN IF kind = "call" /\ Request(c).ks = <<>> THEN "init" ELSE kind
ServerTake(c) ==
    /\ Serves(c) /\ Asks(c) \in {"get"} \cup (IF phase = "idle" THEN {"init"} ELSE {})
    /\ sdk' = [sdk EXCEPT ![c].wire = Tail(@), ![c].back = Append(@, Head(sdk[c].wire))]
    /\ UNCHANGED <<mode, phase, d, dap, run, inbox, editor, goal>>
\* The lock is free: prepare_for_call and the first of the expressions.
ServerStart(c) ==
    /\ Serves(c) /\ Asks(c) = "call" /\ phase = "idle"
    /\ phase' = "running"
    /\ d' = reset_for_new_call(d)
    /\ run' = Executing(c, Request(c).ks)
    /\ goal' = Goal(0, "go", Unborn(d))
    /\ UNCHANGED <<mode, dap, inbox, editor, sdk>>
\* An execution is over: the next of the block, or the answer and the release of the lock.
Complete ==
    /\ phase = "running" /\ run.pos = Len(T)
    /\ IF Len(run.ks) > 1
       THEN /\ run' = Executing(run.by, Tail(run.ks))
            /\ d' = reset_for_new_call(d)
            /\ goal' = Goal(0, "go", Unborn(d))
            /\ UNCHANGED <<phase, sdk>>
       ELSE /\ run' = NoRun
            /\ phase' = IF mode = "attach" THEN "idle" ELSE "ended"
            /\ sdk' = IF mode # "attach" THEN sdk
                      ELSE [sdk EXCEPT ![run.by].wire = Tail(@), ![run.by].back = Append(@, Head(sdk[run.by].wire))]
            /\ UNCHANGED <<d, goal>>
    /\ UNCHANGED <<mode, dap, inbox, editor>>

---------------------------------------------------------------------------
(* The clients.  pending: the requests that wait for an answer; got: the   *)
(* number of the answer that a request was given, 0 for a timeout.         *)

\* syncSend: the worker yields once before it expects an answer, and drops what has arrived by then.
\* Tests are started once the editor is attached.
SdkSend(c) ==
    /\ mode = "attach" /\ phase # "handshake" /\ sdk[c].sent < Len(Scripts[c])
    /\ c \in Blocking => sdk[c].pending = {}
    /\ \E n \in IF c \in Blocking THEN 1..(Len(sdk[c].back) + 1) ELSE {1} :
          sdk' = [sdk EXCEPT ![c].sent = @ + 1, ![c].wire = Append(@, sdk[c].sent + 1),
                             ![c].pending = @ \cup {sdk[c].sent + 1},
                             ![c].back = SubSeq(@, n, Len(@))]
    /\ UNCHANGED <<mode, phase, d, dap, run, inbox, editor, goal>>
\* The worker takes the first line as the answer and drops the others that came with it.
BlockingReceive(c) ==
    /\ c \in Blocking /\ sdk[c].back # <<>>
    /\ \E id \in sdk[c].pending, n \in 2..(Len(sdk[c].back) + 1) :
          sdk' = [sdk EXCEPT ![c].pending = {}, ![c].got[id] = Head(sdk[c].back), ![c].back = SubSeq(@, n, Len(@))]
    /\ UNCHANGED <<mode, phase, d, dap, run, inbox, editor, goal>>
\* It gives up after 30 seconds; the request stays under way.
BlockingTimeout(c) ==
    /\ c \in Blocking /\ sdk[c].back = <<>>
    /\ \E id \in sdk[c].pending : sdk' = [sdk EXCEPT ![c].pending = {}, ![c].got[id] = 0]
    /\ UNCHANGED <<mode, phase, d, dap, run, inbox, editor, goal>>
\* DebugClient looks the number of the answer up.
MutantPending(c, id) == SX!Max(sdk[c].pending)
Pending(c, id) == id
AsyncReceive(c) ==
    /\ c \notin Blocking /\ sdk[c].back # <<>>
    /\ LET id == Head(sdk[c].back) IN
          sdk' = [sdk EXCEPT ![c].pending = @ \ {Pending(c, id)}, ![c].got[Pending(c, id)] = id, ![c].back = Tail(@)]
    /\ UNCHANGED <<mode, phase, d, dap, run, inbox, editor, goal>>

---------------------------------------------------------------------------

NewClient(c) ==
    [sent |-> 0, wire |-> <<>>, back |-> <<>>, pending |-> {}, got |-> [i \in 1..Len(Scripts[c]) |-> -1]]

\* The console and a launch debug one expression; the server starts with nothing to do.
Init ==
    /\ mode \in Modes
    /\ d = NewDebugState
    /\ dap = [launched |-> FALSE, init |-> FALSE, config |-> FALSE]
    /\ IF mode = "cli"
       THEN /\ phase = "running"
            /\ \E k \in Debugged : run = Executing("", <<k>>)
            /\ goal = Goal(0, "in", <<>>)
       ELSE phase = "handshake" /\ run = NoRun /\ goal = Goal(0, "go", <<>>)
    /\ inbox = <<>>
    /\ editor = [view |-> "new", said |-> {}, owed |-> 0, open |-> mode # "cli", extra |-> 0]
    /\ sdk = [c \in Clients |-> NewClient(c)]

Server ==
    Handshake \/ HandshakeEof \/ Begin \/ End \/ CommandRequest \/ CommandEof \/ Complete
Sdk(c) ==
    ServerTake(c) \/ ServerStart(c) \/ SdkSend(c) \/ BlockingReceive(c) \/ BlockingTimeout(c) \/ AsyncReceive(c)
Next == Send \/ Close \/ Server \/ CliResume \/ CliPoints \/ \E c \in Clients : Sdk(c)

\* The debugger's thread runs, and an editor that has disconnected closes its connection.
Fairness == WF_vars(Server) /\ WF_vars(Close /\ editor.view = "gone")

Spec == Init /\ [][Next]_vars /\ Fairness

---------------------------------------------------------------------------
(* Properties.                                                             *)

Open(q) == Executions[Head(run.ks)].frames[q]
IsOpen(a, q) == \E i \in 1..Len(Open(q)) : Open(q)[i] = a
ParentOf(q) == LET o == Open(q) IN IF Len(o) >= 2 THEN o[Len(o) - 1] ELSE 0
SameId(a, b) == T[a].id = T[b].id

\* A breakpoint is at the expression that begins at q, and at none around it since it was set.
At(i, q) == T[q].ev = "begin" /\ Matches(d.bps[i], T[q])
Hits(i, q) == At(i, q) /\ \A j \in 1..Len(Open(q)) : Open(q)[j] \in (goal.born[i] + 1)..(q - 1) => ~ At(i, Open(q)[j])
\* The first list from r on is the one at q.
FirstList(r, q) == \A a \in r..(q - 1) : T[a].ev = "begin" => ~ T[a].list
Resumed(q) == (goal.from + 1)..q
Watched(q) == \E i \in DOMAIN d.wps : Watches(d.wps[i], T[q])

\* Numbers of expressions are not unique between contracts: the frame that is stepped over, or out of,
\* can be taken for another with the same number, and both outcomes are allowed then.
MustStop(q) ==
    /\ goal.cmd \notin {"quit", "any"} /\ T[q].list
    /\ \/ \E i \in DOMAIN d.bps, r \in Resumed(q) : Hits(i, r) /\ FirstList(r, q)
       \/ Watched(q)
       \/ goal.cmd = "in"
       \/ goal.cmd = "over" /\ \A j \in 1..Len(Open(q)) : ~ SameId(Open(q)[j], goal.from)
       \/ goal.cmd = "out" /\ ParentOf(goal.from) # 0 /\ ~ IsOpen(ParentOf(goal.from), q)
MayStop(q) ==
    /\ goal.cmd # "quit" /\ T[q].list
    /\ \/ goal.cmd \in {"any", "in"}
       \/ \E i \in DOMAIN d.bps, r \in Resumed(q) : At(i, r) /\ FirstList(r, q)
       \/ Watched(q)
       \/ goal.cmd = "over" /\ ~ IsOpen(goal.from, q)
       \/ /\ goal.cmd = "out" /\ ParentOf(goal.from) # 0
          /\ \E a \in {ParentOf(goal.from), goal.from} \cup Resumed(q) :
                T[a].ev = "begin" /\ ~ IsOpen(a, q) /\ SameId(a, ParentOf(goal.from))

\* will_begin_eval: execution stops at every list that a breakpoint, a watchpoint or the last command
\* asks for (a breakpoint on a value: at the first list after it), and at no other, whatever was set
\* or deleted at the stops before and however the calls nest.  To finish, or to step out, is to go on
\* until the expression around the current one has ended, as DebugState::finish has it (the console's
\* help, cli.rs:573, says "until returning from the current expression").  Where two
\* contracts give one number to an open expression and to the one that is stepped over, or out of,
\* the property allows both outcomes.
StopsWhereAsked ==
    [][LET q == run.pos + 1
       IN phase = "running" /\ run' = [run EXCEPT !.pos = q] /\ T[q].ev = "begin" =>
             /\ MustStop(q) => phase' = "stopped"
             /\ phase' = "stopped" => MayStop(q)]_vars

\* wait_for_command: while execution is stopped and every request has been read, the editor has been
\* told so, nothing but a launch that is being configured is unanswered, and there is a request that
\* the editor can make.  Requests sent before, against an earlier stop, do not break this.
EditorIsNotStuck ==
    phase = "stopped" /\ mode # "cli" /\ inbox = <<>> /\ editor.open /\ editor.view # "gone" =>
        /\ Sayable # {}
        /\ editor.view = IF mode = "attach" \/ dap.init THEN "stopped" ELSE "configuring"
        /\ editor.owed = IF mode = "attach" \/ dap.init THEN 0 ELSE 1

\* A test runner is given the answer to its own request: always through DebugClient; through the
\* blocking client unless an earlier request of it timed out, and then an answer to an earlier one.
AnswersBelong ==
    \A c \in Clients : \A id \in 1..Len(Scripts[c]) :
        LET a == sdk[c].got[id]
        IN a > 0 => \/ a = id
                    \/ c \in Blocking /\ a < id /\ \E j \in 1..(id - 1) : sdk[c].got[j] = 0

\* An editor that disconnects or goes away leaves no execution behind: it runs to its end, so that the
\* lock is released and test runners are served.
QuitRunsOn ==
    mode # "cli" /\ (~ editor.open \/ editor.view = "gone") ~> phase \in {"idle", "ended"}
=============================================================================
