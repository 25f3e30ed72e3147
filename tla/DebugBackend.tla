---------------------------- MODULE DebugBackend ----------------------------
(***************************************************************************)
(* The half of the debugger that lives inside the debugged process: the    *)
(* program's own Lua threads, which enter the backend through the Lua hook,*)
(* the load functions and the error handler, and the command thread, which *)
(* executes what the frontend asks for.                                    *)
(*                                                                         *)
(* The state that the threads share is guarded by two locks and three      *)
(* Windows events:                                                         *)
(*   cs         m_criticalSection, the tables of VMs and scripts;          *)
(*   breakLock  m_breakLock, held by the thread that is stopped;           *)
(*   stepEvent, loadEvent   auto-reset events: a successful wait clears    *)
(*                          them, setting a set event changes nothing;     *)
(*   detachEvent            manual-reset: once set it stays set.           *)
(* A code region that holds cs from its entry to its exit and whose state  *)
(* no other thread touches without cs is one action.  The command thread's *)
(* Break, Evaluate and cleanup run without cs, and the places where they   *)
(* can come between two steps of a Lua thread are separate actions.        *)
(***************************************************************************)
EXTENDS Protocol, FiniteSets

CONSTANTS
  CommandThread,   (* the thread of the backend that executes commands      *)
  NoScript,        (* the source of a C function                            *)
  FailingScripts,  (* the scripts that do not compile                       *)
  HookEvents,      (* the kinds of hook event the Lua interpreter raises    *)
  MaxCalls,        (* bound: calls counted while stepping over              *)
  MaxProgramActions, (* bound: states opened and errors raised              *)
  EventCap         (* bound: events the pipe buffers before a writer waits  *)

ASSUME BackendAssumption ==
  /\ CommandThread \notin LuaThreads \cup {Nobody}
  /\ NoScript \notin Scripts
  /\ FailingScripts \subseteq Scripts
  /\ HookEvents \subseteq {"call", "ret", "line"}
  /\ MaxCalls \in Nat
  /\ MaxProgramActions \in Nat
  /\ EventCap \in Nat \ {0, 1}

VARIABLES
  cs, breakLock,
  pc,             \* pc[t]: where thread t is in the backend
  ev,             \* ev[t]: the hook event or load that thread t handles
  programActions, \* how often the program may still open a state or raise an
                  \* error
  vms,            \* the lua_States in m_vms and m_stateToVm
  hookMode,       \* hookMode[t]: the hook that Lua has installed for t's state
  newHookMode,    \* the hook UpdateHookMode is about to install
  haveActiveBreakpoints, breakpointInStack, callCount,  \* fields of a VM
  mode,           \* m_mode
  scripts,        \* m_scripts, in the order of registration
  breakpoints,    \* breakpoints[s]: the lines of s that have a breakpoint
  ignored,        \* m_ignoreExceptions
  stepEvent, loadEvent, detachEvent,
  commandPc,      \* where the command thread is
  evalVm          \* the state the command thread evaluates on

locks    == <<cs, breakLock>>
threads  == <<pc, ev>>
errors   == <<ignored, programActions>>
hooks    == <<hookMode, newHookMode>>
vmFields == <<haveActiveBreakpoints, breakpointInStack, callCount>>
code     == <<scripts, breakpoints>>
signals  == <<stepEvent, loadEvent, detachEvent>>
command  == <<commandPc, evalVm>>
backendVars == <<locks, threads, vms, hooks, vmFields, mode, code, errors,
                 signals, command>>
vars == <<backendVars, channelVars>>

HookModes == {"None", "CallsOnly", "Full"}
Modes     == {"Continue", "StepOver", "StepInto"}

NoEvent == [kind |-> "none", script |-> NoScript, line |-> 0]

(* Where a thread can be.  "host" and "lua" are outside the backend.        *)
InHook   == {"hook", "attached", "regWait", "regLock", "setHook", "break",
             "send", "step"}
InLoad   == {"load", "loadErr", "loadErrLock", "loadErrStep", "loadWait"}
InError  == {"errSend", "errEvent"}
Places   == {"host", "lua", "crashed"} \cup InHook \cup InLoad \cup InError

CommandPlaces ==
  {"read", "break", "evaluate", "evalSend", "evalStep", "cleanup", "done"}

HoldsCs        == {"attached", "setHook", "loadErrLock"}
HoldsBreakLock == {"send", "step", "errSend", "errEvent"}
WaitsForStep   == {"step", "loadErrStep"}
WaitsForLoad   == {"regWait", "loadWait"}

TypeOK ==
  /\ cs \in LuaThreads \cup {Nobody}
  /\ breakLock \in LuaThreads \cup {CommandThread, Nobody}
  /\ pc \in [LuaThreads -> Places]
  /\ ev \in [LuaThreads ->
               [kind : {"none", "call", "ret", "line", "load", "loadNew"},
                script : Scripts \cup {NoScript}, line : Lines \cup {0}]]
  /\ programActions \in 0..MaxProgramActions
  /\ vms \subseteq LuaThreads
  /\ hookMode \in [LuaThreads -> HookModes]
  /\ newHookMode \in HookModes
  /\ haveActiveBreakpoints \in [LuaThreads -> BOOLEAN]
  /\ breakpointInStack \in [LuaThreads -> BOOLEAN]
  /\ callCount \in [LuaThreads -> Nat]
  /\ mode \in Modes
  /\ scripts \in Seq(Scripts)
  /\ breakpoints \in [Scripts -> SUBSET Lines]
  /\ ignored \subseteq Errors
  /\ stepEvent \in BOOLEAN /\ loadEvent \in BOOLEAN /\ detachEvent \in BOOLEAN
  /\ commandPc \in CommandPlaces
  /\ evalVm \in LuaThreads \cup {Nobody}
  /\ ChannelTypeOK

(* The state after Initialize: the pipes are connected, the command thread  *)
(* reads, and no lua_State is known yet.  A thread may already run Lua, as  *)
(* when the debugger attaches to a running process.                         *)
BackendInit ==
  /\ cs = Nobody /\ breakLock = Nobody
  /\ pc \in [LuaThreads -> {"host", "lua"}]
  /\ ev = [t \in LuaThreads |-> NoEvent]
  /\ programActions = MaxProgramActions
  /\ vms = {}
  /\ hookMode = [t \in LuaThreads |-> "None"] /\ newHookMode = "None"
  /\ haveActiveBreakpoints = [t \in LuaThreads |-> FALSE]
  /\ breakpointInStack = [t \in LuaThreads |-> TRUE]
  /\ callCount = [t \in LuaThreads |-> 0]
  /\ mode = "Continue"
  /\ scripts = <<>> /\ breakpoints = [s \in Scripts |-> {}]
  /\ ignored = {}
  /\ stepEvent = FALSE /\ loadEvent = FALSE /\ detachEvent = FALSE
  /\ commandPc = "read" /\ evalVm = Nobody

-----------------------------------------------------------------------------
(* Writing events.  A writer waits while the pipe is full; once the         *)
(* frontend has closed its end a write fails and is ignored.                *)
Write(es) ==
  IF eventsOpen /\ commandPc # "done"
  THEN Len(events) + Len(es) <= EventCap /\ events' = events \o es
  ELSE UNCHANGED events

Emit(es) == Write(es) /\ UNCHANGED <<commands, reply, pipeEnds>>

GetIsAttached == ~detachEvent

(* Mutant of GetScriptIndex: only the newest script is found.               *)
NewestScriptIndex(s) ==
  IF scripts # <<>> /\ scripts[Len(scripts)] = s THEN Len(scripts) ELSE 0

(* GetScriptIndex: the position of a script, 0 when it is not registered.   *)
GetScriptIndex(s) ==
  IF \E i \in DOMAIN scripts : scripts[i] = s
  THEN CHOOSE i \in DOMAIN scripts : scripts[i] = s
  ELSE 0

Goto(t, place) == pc' = [pc EXCEPT ![t] = place]

Return(t) ==
  /\ Goto(t, "lua")
  /\ ev' = [ev EXCEPT ![t] = NoEvent]

(* Mutant of FreeCs: m_criticalSection is not taken.                        *)
CsNotTaken == TRUE

FreeCs == cs = Nobody

(* What AttachState does to its VM table and to the state's hook.           *)
AddVm(t) ==
  /\ vms' = vms \cup {t}
  /\ haveActiveBreakpoints' = [haveActiveBreakpoints EXCEPT ![t] = FALSE]
  /\ breakpointInStack' = [breakpointInStack EXCEPT ![t] = TRUE]
  /\ callCount' = [callCount EXCEPT ![t] = 0]
  /\ hookMode' = [hookMode EXCEPT ![t] = "Full"]
  /\ Emit(<<[id |-> "CreateVM", vm |-> t]>>)

(* lua_newstate, lua_newthread, lua_call, lua_pcall, lua_load: each attaches *)
(* the state it works on, which does nothing when the state is known or the *)
(* debugger has been detached.                                              *)
AttachState(t) ==
  /\ pc[t] \in {"host", "lua"}
  /\ t \notin vms
  /\ GetIsAttached
  /\ FreeCs
  /\ programActions > 0
  /\ programActions' = programActions - 1
  /\ AddVm(t)
  /\ Goto(t, "lua")
  /\ UNCHANGED <<locks, ev, newHookMode, mode, code, ignored, signals,
                 command>>

(* lua_close, and the collection of a coroutine: DetachState.               *)
DetachState(t) ==
  /\ pc[t] = "lua"
  /\ FreeCs
  /\ IF t \in vms THEN Emit(<<[id |-> "DestroyVM", vm |-> t]>>)
                  ELSE UNCHANGED channelVars
  /\ vms' = vms \ {t}
  /\ hookMode' = [hookMode EXCEPT ![t] = "None"]
  /\ Goto(t, "host")
  /\ UNCHANGED <<locks, ev, newHookMode, vmFields, mode, code, errors,
                 signals, command>>

-----------------------------------------------------------------------------
(* Mutant of Register: the frontend is not told.                            *)
RegisterSilently(t, s) == scripts' = Append(scripts, s) /\ UNCHANGED channelVars

(* RegisterScript: a script that is not in the table gets the next index    *)
(* and is announced to the frontend.                                        *)
Register(t, s) ==
  /\ scripts' = Append(scripts, s)
  /\ Emit(<<[id |-> "LoadScript", vm |-> t, script |-> s]>>)

(* The program loads a script while the debugger is attached.               *)
LoadBuffer(t, s) ==
  /\ pc[t] = "lua"
  /\ t \in vms
  /\ GetIsAttached
  /\ Goto(t, "load")
  /\ ev' = [ev EXCEPT ![t] = [kind |-> "load", script |-> s, line |-> 0]]
  /\ UNCHANGED <<locks, vms, hooks, vmFields, mode, code, errors, signals,
                 command, channelVars>>

(* PostLoadScript registers the script.  One that compiles and was known    *)
(* runs at once, a new one waits for its breakpoints.                       *)
PostLoadRegister(t) ==
  LET s     == ev[t].script
      known == GetScriptIndex(s) # 0
  IN /\ pc[t] = "load"
     /\ FreeCs
     /\ IF known THEN UNCHANGED <<scripts, channelVars>> ELSE Register(t, s)
     /\ IF s \in FailingScripts
        THEN /\ Goto(t, "loadErr")
             /\ ev' = [ev EXCEPT ![t].kind = IF known THEN "load" ELSE "loadNew"]
        ELSE IF known THEN Return(t) ELSE Goto(t, "loadWait") /\ UNCHANGED ev
     /\ UNCHANGED <<locks, vms, hooks, vmFields, mode, breakpoints, errors,
                    signals, command>>

(* The script does not compile: PostLoadScript takes m_criticalSection,     *)
PostLoadError(t) ==
  /\ pc[t] = "loadErr"
  /\ FreeCs
  /\ cs' = t
  /\ Goto(t, "loadErrLock")
  /\ UNCHANGED <<breakLock, ev, vms, hooks, vmFields, mode, code, errors,
                 signals, command, channelVars>>

(* then m_breakLock, reports the error, and releases both                   *)
PostLoadReport(t) ==
  /\ pc[t] = "loadErrLock"
  /\ breakLock = Nobody
  /\ \E i \in 0..Len(scripts) :
       Emit(<<[id |-> "Break", vm |-> t, index |-> i],
              [id |-> "LoadError", vm |-> t]>>)
  /\ cs' = Nobody
  /\ Goto(t, "loadErrStep")
  /\ UNCHANGED <<breakLock, ev, vms, hooks, vmFields, mode, code, errors,
                 signals, command>>

(* before it waits for the user to continue, and then for the breakpoints.  *)
PostLoadContinue(t) ==
  /\ pc[t] = "loadErrStep"
  /\ stepEvent \/ detachEvent
  /\ stepEvent' = FALSE
  /\ IF ev[t].kind = "loadNew" THEN Goto(t, "loadWait") /\ UNCHANGED ev
                               ELSE Return(t)
  /\ UNCHANGED <<locks, vms, hooks, vmFields, mode, code, errors,
                 loadEvent, detachEvent, command, channelVars>>

(* A new script waits until the frontend has sent its breakpoints.          *)
PostLoadWait(t) ==
  /\ pc[t] = "loadWait"
  /\ loadEvent \/ detachEvent
  /\ loadEvent' = FALSE
  /\ Return(t)
  /\ UNCHANGED <<locks, vms, hooks, vmFields, mode, code, errors, stepEvent,
                 detachEvent, command, channelVars>>

-----------------------------------------------------------------------------
(* HookCallback.  Lua calls the hook for the events its mask asks for.      *)
HookEventsOf(t) ==
  LET kinds == HookEvents \cap
                 (CASE hookMode[t] = "Full"      -> {"call", "ret", "line"}
                    [] hookMode[t] = "CallsOnly" -> {"call"}
                    [] hookMode[t] = "None"      -> {})
      runnable == Scripts \ FailingScripts
  IN [kind : kinds \cap {"call"}, script : runnable \cup {NoScript}, line : {0}]
       \cup [kind : kinds \cap {"ret"}, script : {NoScript}, line : {0}]
       \cup [kind : kinds \cap {"line"}, script : runnable, line : Lines]

HookInvoke(t) ==
  /\ pc[t] = "lua"
  /\ \E e \in HookEventsOf(t) :
       /\ e.kind = "call" => callCount[t] < MaxCalls
       /\ ev' = [ev EXCEPT ![t] = e]
  /\ Goto(t, "hook")
  /\ UNCHANGED <<locks, vms, hooks, vmFields, mode, code, errors, signals,
                 command, channelVars>>

(* A state the backend does not know is attached from the hook;             *)
HookAttach(t) ==
  /\ pc[t] = "hook"
  /\ FreeCs
  /\ t \notin vms
  /\ GetIsAttached
  /\ AddVm(t)
  /\ cs' = t
  /\ Goto(t, "attached")
  /\ UNCHANGED <<breakLock, ev, newHookMode, mode, code, errors, signals,
                 command>>

(* when the debugger is detached AttachState returns NULL, which the hook   *)
(* dereferences.                                                            *)
HookCrash(t) ==
  /\ pc[t] = "hook"
  /\ FreeCs
  /\ t \notin vms
  /\ ~GetIsAttached
  /\ Goto(t, "crashed")
  /\ UNCHANGED <<locks, ev, vms, hooks, vmFields, mode, code, errors,
                 signals, command, channelVars>>

HookEntered(t) ==
  /\ t \in vms
  /\ pc[t] = "attached" \/ (pc[t] = "hook" /\ FreeCs)

(* Relocking after a script was registered from the hook.                   *)
HookResumed(t) == pc[t] = "regLock" /\ FreeCs

(* While stepping every hook stays full, and the stack is searched again    *)
(* once the mode goes back to Continue.                                     *)
ForceFullHook(t) ==
  IF mode = "Continue"
  THEN UNCHANGED <<hookMode, breakpointInStack>>
  ELSE /\ hookMode' = [hookMode EXCEPT ![t] = "Full"]
       /\ breakpointInStack' = [breakpointInStack EXCEPT ![t] = TRUE]

(* A line, or in mode Continue a call, of a script the backend has not seen:*)
(* it is registered, and cs is released while the thread waits.             *)
HookRegister(t) ==
  /\ HookEntered(t)
  /\ \/ ev[t].kind = "line"
     \/ ev[t].kind = "call" /\ ev[t].script # NoScript /\ mode = "Continue"
  /\ GetScriptIndex(ev[t].script) = 0
  /\ ForceFullHook(t)
  /\ Register(t, ev[t].script)
  /\ cs' = Nobody
  /\ Goto(t, "regWait")
  /\ UNCHANGED <<breakLock, ev, vms, newHookMode, haveActiveBreakpoints,
                 callCount, mode, breakpoints, errors, signals, command>>

RegisterWait(t) ==
  /\ pc[t] = "regWait"
  /\ loadEvent \/ detachEvent
  /\ loadEvent' = FALSE
  /\ Goto(t, "regLock")
  /\ UNCHANGED <<locks, ev, vms, hooks, vmFields, mode, code, errors,
                 stepEvent, detachEvent, command, channelVars>>

(* A line event stops the thread on a breakpoint or at the end of a step.   *)
ShouldStop(t) ==
  \/ /\ GetScriptIndex(ev[t].script) # 0
     /\ ev[t].line \in breakpoints[ev[t].script]
  \/ mode = "StepInto"
  \/ mode = "StepOver" /\ callCount[t] = 0

StopOrReturn(t) == IF ShouldStop(t) THEN Goto(t, "break") /\ UNCHANGED ev
                                    ELSE Return(t)

HookLine(t) ==
  /\ ev[t].kind = "line"
  /\ \/ /\ HookEntered(t)
        /\ GetScriptIndex(ev[t].script) # 0
        /\ ForceFullHook(t)
     \/ /\ HookResumed(t)
        /\ UNCHANGED <<hookMode, breakpointInStack>>
  /\ StopOrReturn(t)
  /\ cs' = Nobody
  /\ UNCHANGED <<breakLock, vms, newHookMode, haveActiveBreakpoints, callCount,
                 mode, code, errors, signals, command, channelVars>>

(* Mutant of CountCall: a return that had no counted call is counted.       *)
CountEveryReturn(t) ==
  callCount' =
    IF mode = "StepOver"
    THEN [callCount EXCEPT ![t] = IF ev[t].kind = "call" THEN @ + 1 ELSE @ - 1]
    ELSE callCount

(* StepOver counts the calls entered below the line it started from.        *)
CountCall(t) ==
  callCount' =
    IF mode = "StepOver"
    THEN [callCount EXCEPT ![t] =
            IF ev[t].kind = "call" THEN @ + 1 ELSE IF @ > 0 THEN @ - 1 ELSE @]
    ELSE callCount

(* A call or a return while stepping.                                       *)
HookCallOrReturn(t) ==
  /\ HookEntered(t)
  /\ ev[t].kind \in {"call", "ret"}
  /\ mode # "Continue"
  /\ ForceFullHook(t)
  /\ CountCall(t)
  /\ Return(t)
  /\ cs' = Nobody
  /\ UNCHANGED <<breakLock, vms, newHookMode, haveActiveBreakpoints, mode,
                 code, errors, signals, command, channelVars>>

-----------------------------------------------------------------------------
(* UpdateHookMode: a call or a return in mode Continue chooses the cheapest *)
(* hook.  Which functions are on the Lua stack is left open: a function, or *)
(* the stack, can have a breakpoint only if a registered script has one.    *)
Breakable(S) == {s \in S : GetScriptIndex(s) # 0 /\ breakpoints[s] # {}}

FunctionMayHaveBreakpoint(t) ==
  IF ev[t].kind = "call" /\ Breakable({ev[t].script} \ {NoScript}) # {}
  THEN BOOLEAN ELSE {FALSE}

StackMayHaveBreakpoint == IF Breakable(Scripts) # {} THEN BOOLEAN ELSE {FALSE}

UpdateHookMode(t) ==
  /\ \/ /\ HookEntered(t)
        /\ mode = "Continue"
        /\ ev[t].kind \in {"call", "ret"}
        /\ ev[t].script # NoScript => GetScriptIndex(ev[t].script) # 0
     \/ /\ HookResumed(t)
        /\ ev[t].kind = "call"
  /\ \E inFunction \in FunctionMayHaveBreakpoint(t),
        inStack \in StackMayHaveBreakpoint :
       LET stays  == inFunction \/ (breakpointInStack[t] /\ inStack)
           target == IF ~haveActiveBreakpoints[t] THEN "None"
                     ELSE IF stays THEN "Full" ELSE "CallsOnly"
       IN /\ breakpointInStack' = [breakpointInStack EXCEPT ![t] = stays]
          /\ IF hookMode[t] = target
             THEN /\ CountCall(t)
                  /\ Return(t)
                  /\ cs' = Nobody
                  /\ UNCHANGED newHookMode
             ELSE /\ newHookMode' = IF mode # "Continue" THEN "Full" ELSE target
                  /\ Goto(t, "setHook")
                  /\ cs' = t
                  /\ UNCHANGED <<ev, callCount>>
  /\ UNCHANGED <<breakLock, vms, hookMode, haveActiveBreakpoints, mode, code,
                 errors, signals, command, channelVars>>

(* The hook is installed after m_mode was read: the command thread's Break, *)
(* which takes no lock, may have run in between.                            *)
SetHookMode(t) ==
  /\ pc[t] = "setHook"
  /\ hookMode' = [hookMode EXCEPT ![t] = newHookMode]
  /\ newHookMode' = "None"
  /\ CountCall(t)
  /\ Return(t)
  /\ cs' = Nobody
  /\ UNCHANGED <<breakLock, vms, haveActiveBreakpoints, breakpointInStack, mode,
                 code, errors, signals, command, channelVars>>

-----------------------------------------------------------------------------
(* Mutant of BreakFromScript: it does not wait for m_breakLock.             *)
BreakWithoutLock(t) ==
  /\ pc[t] = "break"
  /\ breakLock' = t
  /\ Goto(t, "send")
  /\ UNCHANGED <<cs, ev, vms, hooks, vmFields, mode, code, errors, signals,
                 command, channelVars>>

(* BreakFromScript: take m_breakLock, report where the thread stopped (under*)
(* m_criticalSection), and wait for the frontend, still holding m_breakLock.*)
BreakFromScript(t) ==
  /\ pc[t] = "break"
  /\ breakLock = Nobody
  /\ breakLock' = t
  /\ Goto(t, "send")
  /\ UNCHANGED <<cs, ev, vms, hooks, vmFields, mode, code, errors, signals,
                 command, channelVars>>

SendBreakEvent(t) ==
  /\ pc[t] = "send"
  /\ FreeCs
  /\ Emit(<<[id |-> "Break", vm |-> t, index |-> GetScriptIndex(ev[t].script)]>>)
  /\ Goto(t, "step")
  /\ UNCHANGED <<locks, ev, vms, hooks, vmFields, mode, code, errors, signals,
                 command>>

(* Mutant of WaitForContinue: it waits for the wrong event.                 *)
WaitForLoadDone(t) ==
  /\ pc[t] = "step"
  /\ loadEvent \/ detachEvent
  /\ loadEvent' = FALSE
  /\ breakLock' = Nobody
  /\ Return(t)
  /\ UNCHANGED <<cs, vms, hooks, vmFields, mode, code, errors, stepEvent,
                 detachEvent, command, channelVars>>

WaitForContinue(t) ==
  /\ pc[t] = "step"
  /\ stepEvent \/ detachEvent
  /\ stepEvent' = FALSE
  /\ breakLock' = Nobody
  /\ Return(t)
  /\ UNCHANGED <<cs, vms, hooks, vmFields, mode, code, errors, loadEvent,
                 detachEvent, command, channelVars>>

(* ErrorHandler: a Lua error inside a call the debugger wrapped.  The thread*)
(* stops if it gets m_breakLock at once; otherwise it only sends a message. *)
(* A thread that reports a load error holds m_breakLock for that step.      *)
ErrorHandler(t, m) ==
  /\ pc[t] = "lua"
  /\ t \in vms
  /\ m \notin ignored
  /\ programActions > 0
  /\ programActions' = programActions - 1
  /\ \/ /\ breakLock = Nobody
        /\ breakLock' = t
        /\ Goto(t, "errSend")
        /\ UNCHANGED channelVars
     \/ /\ breakLock # Nobody \/ \E u \in LuaThreads : pc[u] = "loadErrLock"
        /\ Emit(<<[id |-> "Message", vm |-> t]>>)
        /\ UNCHANGED <<breakLock, pc>>
  /\ UNCHANGED <<cs, ev, vms, hooks, vmFields, mode, code, ignored, signals,
                 command>>

ErrorBreak(t) ==
  /\ pc[t] = "errSend"
  /\ FreeCs
  /\ \E i \in 0..Len(scripts) : Emit(<<[id |-> "Break", vm |-> t, index |-> i]>>)
  /\ Goto(t, "errEvent")
  /\ UNCHANGED <<locks, ev, vms, hooks, vmFields, mode, code, errors, signals,
                 command>>

SendExceptionEvent(t) ==
  /\ pc[t] = "errEvent"
  /\ \E m \in Errors : Emit(<<[id |-> "Exception", vm |-> t, error |-> m]>>)
  /\ Goto(t, "step")
  /\ UNCHANGED <<locks, ev, vms, hooks, vmFields, mode, code, errors, signals,
                 command>>

(* StaticErrorHandler looks up the API of the state; there is none for a    *)
(* state that was never attached or whose VM has been deleted.              *)
ErrorCrash(t) ==
  /\ pc[t] = "lua"
  /\ t \notin vms
  /\ ~GetIsAttached
  /\ Errors # {}
  /\ Goto(t, "crashed")
  /\ UNCHANGED <<locks, ev, vms, hooks, vmFields, mode, code, errors, signals,
                 command, channelVars>>

(* A thread that waited in the hook goes on with the VM it found before it  *)
(* waited; when the cleanup has deleted it meanwhile, that read is undefined*)
(* behaviour: the thread may go on or crash.                                *)
StaleVmCrash(t) ==
  /\ t \notin vms
  /\ \/ HookResumed(t)
     \/ pc[t] = "step" /\ ev[t].kind = "line" /\ detachEvent
  /\ Goto(t, "crashed")
  /\ UNCHANGED <<locks, ev, vms, hooks, vmFields, mode, code, errors, signals,
                 command, channelVars>>

-----------------------------------------------------------------------------
(* The command thread reads one command after the other.                    *)
NextCommand(c) ==
  /\ commandPc = "read"
  /\ commands # <<>>
  /\ c = Head(commands)

Consume ==
  /\ commands' = Tail(commands)
  /\ UNCHANGED <<events, reply, pipeEnds>>

(* Mutant of ActiveLuaHookInAllVms: states without breakpoints are skipped. *)
HookVmsWithBreakpoints ==
  hookMode' = [t \in LuaThreads |-> IF t \in vms /\ haveActiveBreakpoints[t]
                                    THEN "Full" ELSE hookMode[t]]

ActiveLuaHookInAllVms ==
  hookMode' = [t \in LuaThreads |-> IF t \in vms THEN "Full" ELSE hookMode[t]]

(* Continue, StepOver and StepInto: the calls counted so far are forgotten, *)
(* and the thread that is stopped is released.                              *)
Resume(m) ==
  /\ NextCommand([id |-> m])
  /\ FreeCs
  /\ mode' = m
  /\ callCount' = [t \in LuaThreads |-> IF t \in vms THEN 0 ELSE callCount[t]]
  /\ stepEvent' = TRUE
  /\ IF m = "Continue" THEN UNCHANGED hookMode ELSE ActiveLuaHookInAllVms
  /\ Consume
  /\ UNCHANGED <<locks, threads, vms, newHookMode, haveActiveBreakpoints,
                 breakpointInStack, code, errors, loadEvent, detachEvent,
                 command>>

(* Break takes no lock: first the mode is set,                              *)
Break ==
  /\ NextCommand([id |-> "Break"])
  /\ mode' = "StepInto"
  /\ commandPc' = "break"
  /\ Consume
  /\ UNCHANGED <<locks, threads, vms, hooks, vmFields, code, errors, signals,
                 evalVm>>

(* then the hooks.                                                          *)
BreakHooks ==
  /\ commandPc = "break"
  /\ ActiveLuaHookInAllVms
  /\ commandPc' = "read"
  /\ UNCHANGED <<locks, threads, vms, newHookMode, vmFields, mode, code, errors,
                 signals, evalVm, channelVars>>

(* ToggleBreakpoint: the VMs are told whether any breakpoint is left, their *)
(* hooks are made full when one is set, and the frontend is told the result.*)
ToggleBreakpoint ==
  \E i \in DOMAIN scripts, l \in Lines :
    LET s     == scripts[i]
        set   == l \notin breakpoints[s]
        after == [breakpoints EXCEPT ![s] = IF set THEN @ \cup {l} ELSE @ \ {l}]
        any   == \E j \in DOMAIN scripts : after[scripts[j]] # {}
    IN /\ NextCommand([id |-> "ToggleBreakpoint", index |-> i, line |-> l])
       /\ FreeCs
       /\ breakpoints' = after
       /\ haveActiveBreakpoints' =
            [t \in LuaThreads |->
               IF t \in vms THEN set \/ (any /\ haveActiveBreakpoints[t])
                            ELSE haveActiveBreakpoints[t]]
       /\ IF set THEN ActiveLuaHookInAllVms ELSE UNCHANGED hookMode
       /\ Write(<<[id |-> "SetBreakpoint", index |-> i, line |-> l, set |-> set]>>)
       /\ commands' = Tail(commands)
       /\ UNCHANGED <<locks, threads, vms, newHookMode, breakpointInStack,
                      callCount, mode, scripts, errors, signals, command,
                      reply, pipeEnds>>

(* DeleteAllBreakpoints leaves it to the hook to turn itself off.           *)
DeleteAllBreakpoints ==
  /\ NextCommand([id |-> "DeleteAllBreakpoints"])
  /\ breakpoints' = [s \in Scripts |-> {}]
  /\ haveActiveBreakpoints' =
       [t \in LuaThreads |-> t \notin vms /\ haveActiveBreakpoints[t]]
  /\ Consume
  /\ UNCHANGED <<locks, threads, vms, hooks, breakpointInStack, callCount, mode,
                 scripts, errors, signals, command>>

LoadDone ==
  /\ NextCommand([id |-> "LoadDone"])
  /\ loadEvent' = TRUE
  /\ Consume
  /\ UNCHANGED <<locks, threads, vms, hooks, vmFields, mode, code, errors,
                 stepEvent, detachEvent, command>>

IgnoreException ==
  \E m \in Errors :
    /\ NextCommand([id |-> "IgnoreException", error |-> m])
    /\ ignored' = ignored \cup {m}
    /\ Consume
    /\ UNCHANGED <<locks, threads, programActions, vms, hooks, vmFields, mode,
                   code, signals, command>>

(* Evaluate runs the expression on the stopped thread's lua_State, with its *)
(* hook off, and answers.  It has no environment to run in when the stack   *)
(* level does not exist, and no API when the state is unknown.              *)
Evaluate ==
  \E t \in LuaThreads :
    /\ NextCommand([id |-> "Evaluate", vm |-> t])
    /\ \/ /\ t \in vms
          /\ hookMode' = [hookMode EXCEPT ![t] = "None"]
          /\ commandPc' = "evaluate"
          /\ evalVm' = t
          /\ Consume
       \/ /\ commands' = Tail(commands)
          /\ reply' = TRUE
          /\ UNCHANGED <<hookMode, command, events, pipeEnds>>
    /\ UNCHANGED <<locks, threads, vms, newHookMode, vmFields, mode, code,
                   errors, signals>>

(* An error inside a C function of the expression enters ErrorHandler on the*)
(* command thread.  It finds m_breakLock held by the thread that is stopped *)
(* and sends a message,                                                     *)
EvaluateFails ==
  /\ commandPc = "evaluate"
  /\ Errors # {}
  /\ programActions > 0
  /\ programActions' = programActions - 1
  /\ breakLock # Nobody
  /\ Emit(<<[id |-> "Message", vm |-> evalVm]>>)
  /\ UNCHANGED <<locks, threads, vms, hooks, vmFields, mode, code, ignored,
                 signals, command>>

(* unless the lock is free, as it is when a thread waits after a load error *)
(* or runs: then the command thread itself stops,                           *)
EvaluateStops ==
  /\ commandPc = "evaluate"
  /\ Errors # {}
  /\ programActions > 0
  /\ programActions' = programActions - 1
  /\ breakLock = Nobody
  /\ breakLock' = CommandThread
  /\ commandPc' = "evalSend"
  /\ UNCHANGED <<cs, threads, vms, hooks, vmFields, mode, code, ignored, signals,
                 evalVm, channelVars>>

EvaluateReports ==
  /\ commandPc = "evalSend"
  /\ FreeCs
  /\ \E m \in Errors, i \in 0..Len(scripts) :
       Emit(<<[id |-> "Break", vm |-> evalVm, index |-> i],
              [id |-> "Exception", vm |-> evalVm, error |-> m]>>)
  /\ commandPc' = "evalStep"
  /\ UNCHANGED <<locks, threads, vms, hooks, vmFields, mode, code, errors,
                 signals, evalVm>>

(* and waits for an event that only the command thread sets.                *)
EvaluateGoesOn ==
  /\ commandPc = "evalStep"
  /\ stepEvent \/ detachEvent
  /\ stepEvent' = FALSE
  /\ breakLock' = Nobody
  /\ commandPc' = "evaluate"
  /\ UNCHANGED <<cs, threads, vms, hooks, vmFields, mode, code, errors,
                 loadEvent, detachEvent, evalVm, channelVars>>

(* The expression has been evaluated: the full hook is installed, whatever  *)
(* hook there was before.                                                   *)
EvaluateDone ==
  /\ commandPc = "evaluate"
  /\ hookMode' = [hookMode EXCEPT ![evalVm] = "Full"]
  /\ commandPc' = "read"
  /\ evalVm' = Nobody
  /\ reply' = TRUE
  /\ UNCHANGED <<locks, threads, vms, newHookMode, vmFields, mode, code, errors,
                 signals, events, commands, pipeEnds>>

(* Mutant of SignalDetached: m_detachEvent and m_loadEvent are forgotten.   *)
SignalStepOnly(continueRunning) ==
  /\ stepEvent' = IF continueRunning THEN TRUE ELSE stepEvent
  /\ UNCHANGED <<loadEvent, detachEvent>>

SignalDetached(continueRunning) ==
  /\ detachEvent' = TRUE
  /\ stepEvent' = IF continueRunning THEN TRUE ELSE stepEvent
  /\ loadEvent' = IF continueRunning THEN TRUE ELSE loadEvent

(* Detach: every hook is removed and every waiting thread is released.  The *)
(* VMs stay until the program closes their states, unless the command thread*)
(* ends: at once when the process is going to be killed,                    *)
Detach ==
  \E continueRunning \in BOOLEAN :
    /\ NextCommand([id |-> "Detach", continueRunning |-> continueRunning])
    /\ FreeCs
    /\ hookMode' = [t \in LuaThreads |-> IF t \in vms THEN "None" ELSE hookMode[t]]
    /\ SignalDetached(continueRunning)
    /\ commandPc' = IF continueRunning THEN "read" ELSE "cleanup"
    /\ Consume
    /\ UNCHANGED <<locks, threads, vms, newHookMode, vmFields, mode, code,
                   errors, evalVm>>

(* else when the frontend has closed the pipe.                              *)
ReadFails ==
  /\ commandPc = "read"
  /\ commands = <<>>
  /\ ~commandsOpen
  /\ commandPc' = "cleanup"
  /\ UNCHANGED <<locks, threads, vms, hooks, vmFields, mode, code, errors,
                 signals, evalVm, channelVars>>

(* The cleanup at the end of the command thread takes no lock: it deletes   *)
(* the scripts and the VMs and closes the pipes.                            *)
Cleanup ==
  /\ commandPc = "cleanup"
  /\ vms' = {}
  /\ scripts' = <<>>
  /\ breakpoints' = [s \in Scripts |-> {}]
  /\ commandPc' = "done"
  /\ UNCHANGED <<locks, threads, hooks, vmFields, mode, errors, signals, evalVm,
                 channelVars>>

-----------------------------------------------------------------------------
LoadStep(t) ==
  \/ \E s \in Scripts : LoadBuffer(t, s)
  \/ PostLoadRegister(t) \/ PostLoadError(t) \/ PostLoadReport(t)
  \/ PostLoadContinue(t) \/ PostLoadWait(t)

HookStep(t) ==
  \/ HookAttach(t) \/ HookCrash(t) \/ HookRegister(t) \/ RegisterWait(t)
  \/ HookLine(t) \/ HookCallOrReturn(t) \/ UpdateHookMode(t) \/ SetHookMode(t)
  \/ BreakFromScript(t) \/ SendBreakEvent(t) \/ WaitForContinue(t)
  \/ StaleVmCrash(t)

ErrorStep(t) ==
  \/ \E m \in Errors : ErrorHandler(t, m)
  \/ ErrorBreak(t) \/ SendExceptionEvent(t) \/ ErrorCrash(t)

ThreadStep(t) ==
  \/ AttachState(t) \/ DetachState(t)
  \/ HookInvoke(t)
  \/ LoadStep(t) \/ HookStep(t) \/ ErrorStep(t)

CommandStep ==
  \/ \E m \in Modes : Resume(m)
  \/ Break \/ BreakHooks
  \/ ToggleBreakpoint \/ DeleteAllBreakpoints
  \/ LoadDone \/ IgnoreException
  \/ Evaluate \/ EvaluateFails \/ EvaluateStops \/ EvaluateReports
  \/ EvaluateGoesOn \/ EvaluateDone
  \/ Detach \/ ReadFails \/ Cleanup

(* An access violation in one thread ends the whole process.                *)
Crashed == \E t \in LuaThreads : pc[t] = "crashed"

BackendNext ==
  /\ ~Crashed
  /\ CommandStep \/ \E t \in LuaThreads : ThreadStep(t)

(* What any frontend may do with the pipes.                                 *)
Frontend ==
  /\ commands' \in Seq(Command)
  /\ Len(commands') >= Len(commands)
  /\ SubSeq(commands', 1, Len(commands)) = commands
  /\ \/ events' = events
     \/ events # <<>> /\ events' = Tail(events)
  /\ reply' \in {reply, FALSE}
  /\ eventsOpen' \in {eventsOpen, FALSE}
  /\ commandsOpen' \in {commandsOpen, FALSE}
  /\ UNCHANGED backendVars

Init == BackendInit /\ ChannelInit
Next == BackendNext \/ Frontend
Spec == Init /\ [][Next]_vars

-----------------------------------------------------------------------------
(* A lock is held by the thread that is in one of its code regions, and by  *)
(* no other; the process may die in such a region.                          *)
LocksMatchPlaces ==
  /\ \A t \in LuaThreads :
       /\ cs = t <=> pc[t] \in HoldsCs
       /\ pc[t] \in HoldsBreakLock => breakLock = t
       /\ breakLock = t => pc[t] \in HoldsBreakLock \cup {"crashed"}
  /\ breakLock = CommandThread <=> commandPc \in {"evalSend", "evalStep"}

(* Stopping is exclusive: from the moment a thread reports a stop until it  *)
(* runs on, no other thread reports one, so that the user sees one stop at  *)
(* a time.                                                                  *)
OneThreadStopped ==
  \A t, u \in LuaThreads :
    pc[t] \in HoldsBreakLock /\ pc[u] \in HoldsBreakLock => t = u

(* The backend keeps the promise of StopProtocol, whatever the frontend     *)
(* does: a stop is reported before it can end.                              *)
Stops == INSTANCE StopProtocol WITH
  Threads    <- LuaThreads \cup {CommandThread},
  stopped    <- breakLock,
  reported   <- \/ /\ breakLock \in LuaThreads
                   /\ pc[breakLock] \in {"errEvent", "step", "crashed"}
                \/ breakLock = CommandThread /\ commandPc = "evalStep",
  permission <- stepEvent,
  detached   <- detachEvent

StopsAreReported == Stops!Spec

=============================================================================
