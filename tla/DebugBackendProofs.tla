------------------------- MODULE DebugBackendProofs -------------------------
(***************************************************************************)
(* What holds of the backend for any number of threads, scripts, lines and *)
(* errors, and with any frontend.                                          *)
(***************************************************************************)
EXTENDS DebugBackend, SequenceTheorems, TLAPS

(***************************************************************************)
(* Types: every step of the backend, and of any frontend, keeps the state  *)
(* within the types that TypeOK declares.                                  *)
(***************************************************************************)

(* What a place says about the event that is handled there: a line and a    *)
(* load belong to a script, and the command thread evaluates on a state.    *)
EventsOK ==
  /\ \A t \in LuaThreads :
       /\ ev[t].kind \in {"line", "load", "loadNew"} => ev[t].script \in Scripts
       /\ pc[t] = "load" => ev[t].kind = "load"
  /\ commandPc \in {"evaluate", "evalSend", "evalStep"} => evalVm \in LuaThreads

TypeInv == TypeOK /\ EventsOK

LEMMA IndexIsNat ==
  ASSUME scripts \in Seq(Scripts), NEW s
  PROVE  GetScriptIndex(s) \in Index
<1>1. DOMAIN scripts = 1..Len(scripts) /\ Len(scripts) \in Nat
  OBVIOUS
<1>2. CASE \E i \in DOMAIN scripts : scripts[i] = s
  BY <1>1, <1>2 DEF GetScriptIndex, Index
<1>3. CASE ~\E i \in DOMAIN scripts : scripts[i] = s
  BY <1>3 DEF GetScriptIndex, Index
<1>4. QED
  BY <1>2, <1>3

(* Writing events keeps the channel well typed.                             *)
LEMMA WriteType ==
  ASSUME ChannelTypeOK, NEW es \in Seq(Event), Write(es)
  PROVE  events' \in Seq(Event)
<1>1. events' = events \o es \/ events' = events
  BY DEF Write
<1>2. events \in Seq(Event)
  BY DEF ChannelTypeOK
<1>3. events \o es \in Seq(Event)
  BY <1>2, ConcatProperties
<1>4. QED
  BY <1>1, <1>2, <1>3

LEMMA EmitType ==
  ASSUME ChannelTypeOK, NEW es \in Seq(Event), Emit(es)
  PROVE  ChannelTypeOK'
<1>1. events' \in Seq(Event)
  BY WriteType DEF Emit
<1>2. QED
  BY <1>1 DEF ChannelTypeOK, Emit, pipeEnds

LEMMA TailType ==
  ASSUME NEW S, NEW q \in Seq(S), q # <<>>
  PROVE  Tail(q) \in Seq(S)
BY HeadTailProperties

LEMMA ConsumeType ==
  ASSUME ChannelTypeOK, commands # <<>>, Consume
  PROVE  ChannelTypeOK'
BY DEF ChannelTypeOK, Consume, pipeEnds

LEMMA VmEventType ==
  ASSUME NEW t \in LuaThreads
  PROVE  \A id \in {"CreateVM", "DestroyVM", "LoadError", "Message"} :
           <<[id |-> id, vm |-> t]>> \in Seq(Event)
BY DEF Event

LEMMA ScriptEventType ==
  ASSUME NEW t \in LuaThreads, NEW s \in Scripts
  PROVE  <<[id |-> "LoadScript", vm |-> t, script |-> s]>> \in Seq(Event)
BY DEF Event

LEMMA BreakEventType ==
  ASSUME NEW t \in LuaThreads, NEW i \in Index
  PROVE  /\ <<[id |-> "Break", vm |-> t, index |-> i]>> \in Seq(Event)
         /\ <<[id |-> "Break", vm |-> t, index |-> i],
              [id |-> "LoadError", vm |-> t]>> \in Seq(Event)
BY DEF Event

LEMMA ExceptionEventType ==
  ASSUME NEW t \in LuaThreads, NEW m \in Errors, NEW i \in Index
  PROVE  /\ <<[id |-> "Exception", vm |-> t, error |-> m]>> \in Seq(Event)
         /\ <<[id |-> "Break", vm |-> t, index |-> i],
              [id |-> "Exception", vm |-> t, error |-> m]>> \in Seq(Event)
BY DEF Event

LEMMA TypeInvInit == Init => TypeInv
<1> SUFFICES ASSUME Init PROVE TypeInv
  OBVIOUS
<1>1. ChannelTypeOK
  <2>1. /\ events = <<>> /\ commands = <<>> /\ reply = FALSE
        /\ eventsOpen = TRUE /\ commandsOpen = TRUE
    BY DEF Init, ChannelInit
  <2>2. <<>> \in Seq(Event) /\ <<>> \in Seq(Command)
    BY EmptySeq
  <2>3. QED
    BY <2>1, <2>2, Zenon DEF ChannelTypeOK
<1>2. /\ cs \in LuaThreads \cup {Nobody}
      /\ breakLock \in LuaThreads \cup {CommandThread, Nobody}
      /\ pc \in [LuaThreads -> Places]
      /\ commandPc \in CommandPlaces
      /\ evalVm \in LuaThreads \cup {Nobody}
  BY DEF Init, BackendInit, Places, CommandPlaces
<1>3. /\ ev \in [LuaThreads ->
                 [kind : {"none", "call", "ret", "line", "load", "loadNew"},
                  script : Scripts \cup {NoScript}, line : Lines \cup {0}]]
      /\ EventsOK
  BY DEF Init, BackendInit, NoEvent, EventsOK
<1>4. /\ programActions \in 0..MaxProgramActions
      /\ vms \subseteq LuaThreads
      /\ hookMode \in [LuaThreads -> HookModes]
      /\ newHookMode \in HookModes
      /\ callCount \in [LuaThreads -> Nat]
      /\ mode \in Modes
      /\ scripts \in Seq(Scripts)
      /\ breakpoints \in [Scripts -> SUBSET Lines]
      /\ ignored \subseteq Errors
  BY BackendAssumption DEF Init, BackendInit, HookModes, Modes
<1>5. /\ haveActiveBreakpoints \in [LuaThreads -> BOOLEAN]
      /\ breakpointInStack \in [LuaThreads -> BOOLEAN]
      /\ stepEvent \in BOOLEAN /\ loadEvent \in BOOLEAN
      /\ detachEvent \in BOOLEAN
  BY Zenon DEF Init, BackendInit
<1>6. QED
  BY <1>1, <1>2, <1>3, <1>4, <1>5 DEF TypeInv, TypeOK

-----------------------------------------------------------------------------
(* Actions that leave the pipes alone keep their types.                     *)
LEMMA ChannelStutter == ChannelTypeOK /\ UNCHANGED channelVars => ChannelTypeOK'
BY Zenon DEF ChannelTypeOK, channelVars, pipeEnds

LEMMA CountCallType ==
  ASSUME callCount \in [LuaThreads -> Nat], NEW t \in LuaThreads, CountCall(t)
  PROVE  callCount' \in [LuaThreads -> Nat]
BY DEF CountCall

LEMMA ForceFullHookType ==
  ASSUME hookMode \in [LuaThreads -> HookModes],
         breakpointInStack \in [LuaThreads -> BOOLEAN],
         NEW t \in LuaThreads, ForceFullHook(t)
  PROVE  /\ hookMode' \in [LuaThreads -> HookModes]
         /\ breakpointInStack' \in [LuaThreads -> BOOLEAN]
BY DEF ForceFullHook, HookModes

(* The part of TypeOK about what a thread does, and the rest.               *)
ThreadsOK ==
  /\ pc \in [LuaThreads -> Places]
  /\ ev \in [LuaThreads ->
               [kind : {"none", "call", "ret", "line", "load", "loadNew"},
                script : Scripts \cup {NoScript}, line : Lines \cup {0}]]

LEMMA ReturnType ==
  ASSUME ThreadsOK, EventsOK, NEW t \in LuaThreads, Return(t),
         UNCHANGED command
  PROVE  ThreadsOK' /\ EventsOK'
<1>1. pc' = [pc EXCEPT ![t] = "lua"] /\ "lua" \in Places
  BY DEF Return, Goto, Places
<1>2. ev' = [ev EXCEPT ![t] = NoEvent]
  BY DEF Return
<1>3. ThreadsOK'
  BY <1>1, <1>2 DEF ThreadsOK, NoEvent
<1>4. EventsOK'
  BY <1>1, <1>2 DEF ThreadsOK, EventsOK, NoEvent, command
<1>5. QED
  BY <1>3, <1>4

LEMMA GotoType ==
  ASSUME ThreadsOK, EventsOK, NEW t \in LuaThreads,
         NEW place \in Places \ {"load"}, Goto(t, place),
         UNCHANGED <<ev, command>>
  PROVE  ThreadsOK' /\ EventsOK'
BY DEF ThreadsOK, EventsOK, Goto, command

LEMMA LoadErrorType ==
  ASSUME ThreadsOK, EventsOK, NEW t \in LuaThreads, ev[t].script \in Scripts,
         NEW k \in {"load", "loadNew"}, Goto(t, "loadErr"),
         ev' = [ev EXCEPT ![t].kind = k], UNCHANGED command
  PROVE  ThreadsOK' /\ EventsOK'
<1>1. ThreadsOK'
  <2>1. "loadErr" \in Places
    BY DEF Places, InLoad
  <2>2. QED
    BY <2>1 DEF ThreadsOK, Goto
<1>2. \A u \in LuaThreads :
        ev'[u].script = ev[u].script /\ (u # t => ev'[u] = ev[u])
  BY DEF ThreadsOK
<1>3. EventsOK'
  BY <1>2 DEF ThreadsOK, EventsOK, Goto, command
<1>4. QED
  BY <1>1, <1>3

LEMMA AppendScript ==
  ASSUME scripts \in Seq(Scripts), NEW s \in Scripts
  PROVE  Append(scripts, s) \in Seq(Scripts)
BY AppendProperties

LEMMA TypeInvThread ==
  ASSUME TypeInv, NEW t \in LuaThreads, ThreadStep(t)
  PROVE  TypeInv'
<1> USE ProtocolAssumption, BackendAssumption
    DEF TypeInv, TypeOK, EventsOK, Places, InHook, InLoad, InError, HookModes,
        Goto, Return, NoEvent, locks, threads, errors, hooks, vmFields, code,
        signals, command
<1>1. CASE AttachState(t)
  <2>1. ChannelTypeOK'
    BY <1>1, ChannelStutter, EmitType, VmEventType DEF AttachState, AddVm
  <2>2. QED
    BY <1>1, <2>1 DEF AttachState, AddVm
<1>2. CASE DetachState(t)
  <2>1. ChannelTypeOK'
    BY <1>2, ChannelStutter, EmitType, VmEventType DEF DetachState
  <2>2. QED
    BY <1>2, <2>1 DEF DetachState
<1>3. CASE HookInvoke(t)
  <2>1. ChannelTypeOK'
    BY <1>3, ChannelStutter DEF HookInvoke, HookEventsOf
  <2>2. QED
    BY <1>3, <2>1 DEF HookInvoke, HookEventsOf
<1>4. CASE PostLoadRegister(t)
  <2>1. ChannelTypeOK'
    BY <1>4, ChannelStutter, EmitType, ScriptEventType DEF PostLoadRegister, Register
  <2>2. ev[t].script \in Scripts /\ ev[t].kind = "load"
    BY <1>4 DEF PostLoadRegister
  <2>3. scripts' = scripts \/ scripts' = Append(scripts, ev[t].script)
    BY <1>4 DEF PostLoadRegister, Register
  <2>4. scripts' \in Seq(Scripts)
    <3>1. scripts \in Seq(Scripts)
      OBVIOUS
    <3>2. Append(scripts, ev[t].script) \in Seq(Scripts)
      BY <2>2, <3>1, AppendScript
    <3>3. QED
      BY <2>3, <3>1, <3>2
  <2>5. ThreadsOK' /\ EventsOK'
    <3>1. CASE Return(t)
      BY <1>4, <3>1, ReturnType DEF PostLoadRegister, ThreadsOK
    <3>2. CASE Goto(t, "loadWait") /\ UNCHANGED ev
      BY <1>4, <3>2, GotoType DEF PostLoadRegister, ThreadsOK
    <3>3. ASSUME NEW k \in {"load", "loadNew"}, Goto(t, "loadErr"),
                 ev' = [ev EXCEPT ![t].kind = k]
          PROVE  ThreadsOK' /\ EventsOK'
      BY <1>4, <2>2, <3>3, LoadErrorType DEF PostLoadRegister, ThreadsOK
    <3>4. QED
      BY <1>4, <3>1, <3>2, <3>3 DEF PostLoadRegister
  <2>6. QED
    BY <1>4, <2>1, <2>4, <2>5 DEF PostLoadRegister, ThreadsOK
<1>5. CASE PostLoadError(t)
  <2>1. ChannelTypeOK'
    BY <1>5, ChannelStutter DEF PostLoadError
  <2>2. QED
    BY <1>5, <2>1 DEF PostLoadError
<1>6. CASE PostLoadReport(t)
  <2>1. ChannelTypeOK'
    <3>1. PICK i \in 0..Len(scripts) :
            Emit(<<[id |-> "Break", vm |-> t, index |-> i],
                   [id |-> "LoadError", vm |-> t]>>)
      BY <1>6 DEF PostLoadReport
    <3>2. i \in Index
      BY DEF Index
    <3>3. QED
      BY <3>1, <3>2, EmitType, BreakEventType
  <2>2. QED
    BY <1>6, <2>1 DEF PostLoadReport
<1>7. CASE PostLoadContinue(t)
  <2>1. ChannelTypeOK'
    BY <1>7, ChannelStutter DEF PostLoadContinue
  <2>2. CASE ev[t].kind = "loadNew"
    <3>1. Goto(t, "loadWait") /\ UNCHANGED <<ev, command>>
      BY ONLY <1>7, <2>2, Zenon DEF PostLoadContinue, command
    <3>2. "loadWait" \in Places \ {"load"}
      OBVIOUS
    <3>3. ThreadsOK' /\ EventsOK'
      BY <3>1, <3>2, GotoType DEF ThreadsOK
    <3>4. QED
      BY <1>7, <2>1, <3>3 DEF PostLoadContinue, ThreadsOK
  <2>3. CASE ev[t].kind # "loadNew"
    <3>1. ThreadsOK' /\ EventsOK'
      BY <1>7, <2>3, ReturnType DEF PostLoadContinue, ThreadsOK
    <3>2. QED
      BY <1>7, <2>1, <3>1 DEF PostLoadContinue, ThreadsOK
  <2>4. QED
    BY <2>2, <2>3
<1>8. CASE PostLoadWait(t)
  <2>1. ChannelTypeOK'
    BY <1>8, ChannelStutter DEF PostLoadWait
  <2>2. QED
    BY <1>8, <2>1 DEF PostLoadWait
<1>9. CASE HookAttach(t)
  <2>1. ChannelTypeOK'
    BY <1>9, ChannelStutter, EmitType, VmEventType DEF HookAttach, AddVm
  <2>2. QED
    BY <1>9, <2>1 DEF HookAttach, AddVm
<1>10. CASE HookCrash(t)
  <2>1. ChannelTypeOK'
    BY <1>10, ChannelStutter DEF HookCrash
  <2>2. QED
    BY <1>10, <2>1 DEF HookCrash
<1>11. CASE HookRegister(t)
  <2>1. ChannelTypeOK'
    BY <1>11, ChannelStutter, EmitType, ScriptEventType DEF HookRegister, HookEntered, Register, ForceFullHook
  <2>2. /\ hookMode' \in [LuaThreads -> HookModes]
        /\ breakpointInStack' \in [LuaThreads -> BOOLEAN]
    BY <1>11, ForceFullHookType DEF HookRegister
  <2>3. ev[t].script \in Scripts
    BY <1>11 DEF HookRegister
  <2>4. scripts' \in Seq(Scripts)
    BY <1>11, <2>3, AppendProperties DEF HookRegister, Register
  <2>5. ThreadsOK' /\ EventsOK'
    <3>1. Goto(t, "regWait") /\ UNCHANGED <<ev, command>>
      BY <1>11, Zenon DEF HookRegister
    <3>2. "regWait" \in Places \ {"load"}
      OBVIOUS
    <3>3. QED
      BY <3>1, <3>2, GotoType DEF ThreadsOK
  <2>6. QED
    BY <1>11, <2>1, <2>2, <2>4, <2>5 DEF HookRegister, ThreadsOK
<1>12. CASE RegisterWait(t)
  <2>1. ChannelTypeOK'
    BY <1>12, ChannelStutter DEF RegisterWait
  <2>2. QED
    BY <1>12, <2>1 DEF RegisterWait
<1>13. CASE HookLine(t)
  <2>1. ChannelTypeOK'
    BY <1>13, ChannelStutter DEF HookLine, HookEntered, HookResumed, StopOrReturn, ForceFullHook
  <2>2. /\ hookMode' \in [LuaThreads -> HookModes]
        /\ breakpointInStack' \in [LuaThreads -> BOOLEAN]
    BY <1>13, ForceFullHookType DEF HookLine
  <2>3. CASE ShouldStop(t)
    <3>1. Goto(t, "break") /\ UNCHANGED <<ev, command>>
      BY <1>13, <2>3, Zenon DEF HookLine, StopOrReturn
    <3>2. "break" \in Places \ {"load"}
      OBVIOUS
    <3>3. ThreadsOK' /\ EventsOK'
      BY <3>1, <3>2, GotoType DEF ThreadsOK
    <3>4. QED
      BY <1>13, <2>1, <2>2, <3>3 DEF HookLine, ThreadsOK
  <2>4. CASE ~ShouldStop(t)
    <3>1. ThreadsOK' /\ EventsOK'
      BY <1>13, <2>4, ReturnType DEF HookLine, StopOrReturn, ThreadsOK
    <3>2. QED
      BY <1>13, <2>1, <2>2, <3>1 DEF HookLine, ThreadsOK
  <2>5. QED
    BY <2>3, <2>4
<1>14. CASE HookCallOrReturn(t)
  <2>1. ChannelTypeOK'
    BY <1>14, ChannelStutter DEF HookCallOrReturn, HookEntered, ForceFullHook, CountCall
  <2>2. /\ callCount' \in [LuaThreads -> Nat]
        /\ hookMode' \in [LuaThreads -> HookModes]
        /\ breakpointInStack' \in [LuaThreads -> BOOLEAN]
    BY <1>14, CountCallType, ForceFullHookType DEF HookCallOrReturn
  <2>3. ThreadsOK' /\ EventsOK'
    <3>1. Return(t) /\ UNCHANGED command
      BY <1>14, Zenon DEF HookCallOrReturn
    <3>2. QED
      BY <3>1, ReturnType DEF ThreadsOK
  <2>4. QED
    BY <1>14, <2>1, <2>2, <2>3 DEF HookCallOrReturn, ThreadsOK
<1>15. CASE UpdateHookMode(t)
  <2>1. ChannelTypeOK'
    BY <1>15, ChannelStutter DEF UpdateHookMode, HookEntered, HookResumed, CountCall, FunctionMayHaveBreakpoint, StackMayHaveBreakpoint
  <2>2. callCount' \in [LuaThreads -> Nat]
    BY <1>15, CountCallType DEF UpdateHookMode
  <2>3. breakpointInStack' \in [LuaThreads -> BOOLEAN]
    BY <1>15 DEF UpdateHookMode, FunctionMayHaveBreakpoint,
       StackMayHaveBreakpoint
  <2>4. newHookMode' \in HookModes /\ cs' \in LuaThreads \cup {Nobody}
    BY <1>15 DEF UpdateHookMode
  <2>5. ThreadsOK' /\ EventsOK'
    <3>1. CASE Return(t)
      BY <1>15, <3>1, ReturnType DEF UpdateHookMode, ThreadsOK
    <3>2. CASE Goto(t, "setHook") /\ UNCHANGED ev
      BY <1>15, <3>2, GotoType DEF UpdateHookMode, ThreadsOK
    <3>3. QED
      BY <1>15, <3>1, <3>2 DEF UpdateHookMode
  <2>6. QED
    BY <1>15, <2>1, <2>2, <2>3, <2>4, <2>5 DEF UpdateHookMode, ThreadsOK
<1>16. CASE SetHookMode(t)
  <2>1. ChannelTypeOK'
    BY <1>16, ChannelStutter DEF SetHookMode, CountCall
  <2>2. QED
    BY <1>16, <2>1 DEF SetHookMode, CountCall
<1>17. CASE BreakFromScript(t)
  <2>1. ChannelTypeOK'
    BY <1>17, ChannelStutter DEF BreakFromScript
  <2>2. QED
    BY <1>17, <2>1 DEF BreakFromScript
<1>18. CASE SendBreakEvent(t)
  <2>1. ChannelTypeOK'
    BY <1>18, EmitType, BreakEventType, IndexIsNat DEF SendBreakEvent
  <2>2. QED
    BY <1>18, <2>1 DEF SendBreakEvent
<1>19. CASE WaitForContinue(t)
  <2>1. ChannelTypeOK'
    BY <1>19, ChannelStutter DEF WaitForContinue
  <2>2. QED
    BY <1>19, <2>1 DEF WaitForContinue
<1>20. CASE StaleVmCrash(t)
  <2>1. ChannelTypeOK'
    BY <1>20, ChannelStutter DEF StaleVmCrash, HookResumed
  <2>2. QED
    BY <1>20, <2>1 DEF StaleVmCrash, HookResumed
<1>21. CASE \E s \in Scripts : LoadBuffer(t, s)
  <2>1. ChannelTypeOK'
    BY <1>21, ChannelStutter DEF LoadBuffer
  <2>2. QED
    BY <1>21, <2>1 DEF LoadBuffer
<1>22. CASE \E m \in Errors : ErrorHandler(t, m)
  <2>1. ChannelTypeOK'
    BY <1>22, ChannelStutter, EmitType, VmEventType DEF ErrorHandler
  <2>2. pc' \in [LuaThreads -> Places] /\ EventsOK'
    <3>1. CASE pc' = pc
      BY <1>22, <3>1 DEF ErrorHandler
    <3>2. CASE Goto(t, "errSend")
      BY <1>22, <3>2, GotoType DEF ErrorHandler, ThreadsOK
    <3>3. QED
      BY <1>22, <3>1, <3>2 DEF ErrorHandler
  <2>3. programActions' \in 0..MaxProgramActions
    BY <1>22 DEF ErrorHandler
  <2>4. breakLock' \in LuaThreads \cup {CommandThread, Nobody}
    BY <1>22 DEF ErrorHandler
  <2>5. QED
    BY <1>22, <2>1, <2>2, <2>3, <2>4 DEF ErrorHandler
<1>23. CASE ErrorBreak(t)
  <2>1. ChannelTypeOK'
    <3>1. PICK i \in 0..Len(scripts) :
            Emit(<<[id |-> "Break", vm |-> t, index |-> i]>>)
      BY <1>23 DEF ErrorBreak
    <3>2. i \in Index
      BY DEF Index
    <3>3. QED
      BY <3>1, <3>2, EmitType, BreakEventType
  <2>2. QED
    BY <1>23, <2>1 DEF ErrorBreak
<1>24. CASE SendExceptionEvent(t)
  <2>1. ChannelTypeOK'
    BY <1>24, EmitType, ExceptionEventType DEF SendExceptionEvent, Index
  <2>2. QED
    BY <1>24, <2>1 DEF SendExceptionEvent
<1>25. CASE ErrorCrash(t)
  <2>1. ChannelTypeOK'
    BY <1>25, ChannelStutter DEF ErrorCrash
  <2>2. QED
    BY <1>25, <2>1 DEF ErrorCrash
<1>26. QED
  BY <1>1, <1>2, <1>3, <1>4, <1>5, <1>6, <1>7, <1>8, <1>9, <1>10, <1>11, <1>12, <1>13, <1>14, <1>15, <1>16, <1>17, <1>18, <1>19, <1>20, <1>21, <1>22, <1>23, <1>24, <1>25
  DEF ThreadStep, LoadStep, HookStep, ErrorStep

(* The command thread reads a command that is well typed, so that what it   *)
(* acts on is a state, a script, a line or an error of the session.         *)
LEMMA BooleanChoice ==
  ASSUME NEW P, NEW Q, NEW f \in [LuaThreads -> BOOLEAN]
  PROVE  [t \in LuaThreads |-> IF t \in vms THEN P \/ (Q /\ f[t]) ELSE f[t]]
           \in [LuaThreads -> BOOLEAN]
<1>1. \A t \in LuaThreads : f[t] \in BOOLEAN
  OBVIOUS
<1>2. \A b : (P \/ (Q /\ b)) \in BOOLEAN
  BY Zenon
<1>3. QED
  BY <1>1, <1>2, Zenon

LEMMA TypeInvCommand ==
  ASSUME TypeInv, CommandStep
  PROVE  TypeInv'
<1> USE ProtocolAssumption, BackendAssumption
    DEF TypeInv, TypeOK, EventsOK, CommandPlaces, HookModes, Modes,
        locks, threads, errors, hooks, vmFields, code, signals, command
<1>1. ASSUME \E c : NextCommand(c)
      PROVE  commands # <<>> /\ Head(commands) \in Command
  BY <1>1, HeadTailProperties DEF NextCommand, ChannelTypeOK
<1>2. CASE \E m \in Modes : Resume(m)
  <2>1. ChannelTypeOK'
    BY <1>2, ConsumeType DEF Resume, NextCommand
  <2>2. QED
    BY <1>2, <2>1 DEF Resume, ActiveLuaHookInAllVms
<1>3. CASE Break
  <2>1. ChannelTypeOK'
    BY <1>3, ConsumeType DEF Break, NextCommand
  <2>2. QED
    BY <1>3, <2>1 DEF Break
<1>4. CASE BreakHooks
  <2>1. ChannelTypeOK'
    BY <1>4, ChannelStutter DEF BreakHooks
  <2>2. QED
    BY <1>4, <2>1 DEF BreakHooks, ActiveLuaHookInAllVms
<1>5. CASE ToggleBreakpoint
  <2>1. PICK i \in DOMAIN scripts, l \in Lines, set \in BOOLEAN :
          /\ commands # <<>>
          /\ set = (l \notin breakpoints[scripts[i]])
          /\ breakpoints' = [breakpoints EXCEPT ![scripts[i]] =
                               IF set THEN @ \cup {l} ELSE @ \ {l}]
          /\ Write(<<[id |-> "SetBreakpoint", index |-> i, line |-> l,
                      set |-> set]>>)
    <3>1. PICK i \in DOMAIN scripts, l \in Lines :
            /\ commands # <<>>
            /\ breakpoints' = [breakpoints EXCEPT ![scripts[i]] =
                 IF l \notin breakpoints[scripts[i]] THEN @ \cup {l} ELSE @ \ {l}]
            /\ Write(<<[id |-> "SetBreakpoint", index |-> i, line |-> l,
                        set |-> l \notin breakpoints[scripts[i]]]>>)
      BY <1>5, Zenon DEF ToggleBreakpoint, NextCommand
    <3>2. (l \notin breakpoints[scripts[i]]) \in BOOLEAN
      OBVIOUS
    <3>3. QED
      BY <3>1, <3>2, Zenon
  <2>2. i \in Index /\ scripts[i] \in Scripts
    BY ElementOfSeq, LenProperties DEF Index
  <2>3. <<[id |-> "SetBreakpoint", index |-> i, line |-> l, set |-> set]>>
          \in Seq(Event)
    BY <2>2 DEF Event
  <2>4. events' \in Seq(Event)
    BY <2>1, <2>3, WriteType
  <2>5. commands' \in Seq(Command)
    BY <1>5, <2>1, HeadTailProperties DEF ToggleBreakpoint, ChannelTypeOK
  <2>6. ChannelTypeOK'
    BY <1>5, <2>4, <2>5, Zenon DEF ToggleBreakpoint, ChannelTypeOK, pipeEnds
  <2>7. breakpoints' \in [Scripts -> SUBSET Lines]
    BY <2>1, <2>2
  <2>8. haveActiveBreakpoints' \in [LuaThreads -> BOOLEAN]
    <3>1. PICK k \in DOMAIN scripts, m \in Lines :
            LET s     == scripts[k]
                on    == m \notin breakpoints[s]
                after == [breakpoints EXCEPT ![s] =
                            IF on THEN @ \cup {m} ELSE @ \ {m}]
                any   == \E j \in DOMAIN scripts : after[scripts[j]] # {}
            IN haveActiveBreakpoints' =
                 [t \in LuaThreads |->
                    IF t \in vms THEN on \/ (any /\ haveActiveBreakpoints[t])
                                 ELSE haveActiveBreakpoints[t]]
      BY ONLY <1>5, ZenonT(60) DEF ToggleBreakpoint
    <3>2. haveActiveBreakpoints \in [LuaThreads -> BOOLEAN]
      OBVIOUS
    <3>3. QED
      BY <3>1, <3>2, BooleanChoice
  <2>9. hookMode' \in [LuaThreads -> HookModes]
    BY <1>5 DEF ToggleBreakpoint, ActiveLuaHookInAllVms
  <2>10. QED
    BY <1>5, <2>6, <2>7, <2>8, <2>9 DEF ToggleBreakpoint
<1>6. CASE DeleteAllBreakpoints
  <2>1. ChannelTypeOK'
    BY <1>6, ConsumeType DEF DeleteAllBreakpoints, NextCommand
  <2>2. haveActiveBreakpoints' \in [LuaThreads -> BOOLEAN]
    BY <1>6, Zenon DEF DeleteAllBreakpoints
  <2>3. QED
    BY <1>6, <2>1, <2>2 DEF DeleteAllBreakpoints
<1>7. CASE LoadDone
  <2>1. ChannelTypeOK'
    BY <1>7, ConsumeType DEF LoadDone, NextCommand
  <2>2. QED
    BY <1>7, <2>1 DEF LoadDone
<1>8. CASE IgnoreException
  <2>1. ChannelTypeOK'
    BY <1>8, ConsumeType DEF IgnoreException, NextCommand
  <2>2. QED
    BY <1>8, <2>1 DEF IgnoreException
<1>9. CASE Evaluate
  <2>1. commands # <<>>
    BY <1>9 DEF Evaluate, NextCommand
  <2>2. commands' \in Seq(Command)
    <3>1. commands' = Tail(commands)
      BY <1>9, Zenon DEF Evaluate, Consume
    <3>2. commands \in Seq(Command)
      BY DEF ChannelTypeOK
    <3>3. QED
      BY <2>1, <3>1, <3>2, TailType
  <2>3. reply' \in BOOLEAN /\ UNCHANGED <<events, pipeEnds>>
    BY <1>9, Zenon DEF Evaluate, Consume, ChannelTypeOK
  <2>4. ChannelTypeOK'
    BY <2>2, <2>3, Zenon DEF ChannelTypeOK, pipeEnds
  <2>5. hookMode' \in [LuaThreads -> HookModes]
    BY <1>9 DEF Evaluate
  <2>6. \/ evalVm' \in LuaThreads /\ commandPc' = "evaluate"
        \/ UNCHANGED command
    BY <1>9, Zenon DEF Evaluate
  <2>7. UNCHANGED <<locks, threads, vms, newHookMode, vmFields, mode, code,
                    errors, signals>>
    BY <1>9, Zenon DEF Evaluate
  <2>8. QED
    BY <2>4, <2>5, <2>6, <2>7
<1>10. CASE EvaluateFails
  <2>1. ChannelTypeOK'
    BY <1>10, EmitType, VmEventType DEF EvaluateFails
  <2>2. QED
    BY <1>10, <2>1 DEF EvaluateFails
<1>11. CASE EvaluateStops
  <2>1. ChannelTypeOK'
    BY <1>11, ChannelStutter DEF EvaluateStops
  <2>2. QED
    BY <1>11, <2>1 DEF EvaluateStops
<1>12. CASE EvaluateReports
  <2>1. ChannelTypeOK'
    <3>1. PICK m \in Errors, i \in 0..Len(scripts) :
            Emit(<<[id |-> "Break", vm |-> evalVm, index |-> i],
                   [id |-> "Exception", vm |-> evalVm, error |-> m]>>)
      BY <1>12 DEF EvaluateReports
    <3>2. i \in Index /\ evalVm \in LuaThreads
      BY <1>12 DEF Index, EvaluateReports
    <3>3. QED
      BY <3>1, <3>2, EmitType, ExceptionEventType
  <2>2. QED
    BY <1>12, <2>1 DEF EvaluateReports
<1>13. CASE EvaluateGoesOn
  <2>1. ChannelTypeOK'
    BY <1>13, ChannelStutter DEF EvaluateGoesOn
  <2>2. QED
    BY <1>13, <2>1 DEF EvaluateGoesOn
<1>14. CASE EvaluateDone
  <2>1. ChannelTypeOK'
    BY <1>14, Zenon DEF EvaluateDone, ChannelTypeOK, pipeEnds
  <2>2. QED
    BY <1>14, <2>1 DEF EvaluateDone
<1>15. CASE Detach
  <2>1. ChannelTypeOK'
    BY <1>15, ConsumeType DEF Detach, NextCommand
  <2>2. /\ stepEvent' \in BOOLEAN /\ loadEvent' \in BOOLEAN
        /\ detachEvent' \in BOOLEAN
    BY <1>15 DEF Detach, SignalDetached
  <2>3. hookMode' \in [LuaThreads -> HookModes]
    BY <1>15 DEF Detach
  <2>4. commandPc' \in {"read", "cleanup"}
    BY <1>15 DEF Detach
  <2>5. QED
    BY <1>15, <2>1, <2>2, <2>3, <2>4 DEF Detach
<1>16. CASE ReadFails
  <2>1. ChannelTypeOK'
    BY <1>16, ChannelStutter DEF ReadFails
  <2>2. QED
    BY <1>16, <2>1 DEF ReadFails
<1>17. CASE Cleanup
  <2>1. ChannelTypeOK'
    BY <1>17, ChannelStutter DEF Cleanup
  <2>2. scripts' \in Seq(Scripts)
    BY <1>17, EmptySeq DEF Cleanup
  <2>3. breakpoints' \in [Scripts -> SUBSET Lines]
    BY <1>17 DEF Cleanup
  <2>4. vms' \subseteq LuaThreads /\ commandPc' \in CommandPlaces
    BY <1>17 DEF Cleanup
  <2>5. QED
    BY <1>17, <2>1, <2>2, <2>3, <2>4 DEF Cleanup
<1>18. QED
  BY <1>2, <1>3, <1>4, <1>5, <1>6, <1>7, <1>8, <1>9, <1>10, <1>11, <1>12,
     <1>13, <1>14, <1>15, <1>16, <1>17
  DEF CommandStep

LEMMA TypeInvNext == TypeInv /\ [Next]_vars => TypeInv'
<1> SUFFICES ASSUME TypeInv, [Next]_vars PROVE TypeInv'
  OBVIOUS
<1>1. CASE \E t \in LuaThreads : ThreadStep(t)
  BY <1>1, TypeInvThread
<1>2. CASE CommandStep
  BY <1>2, TypeInvCommand
<1>3. CASE Frontend
  <2>1. ChannelTypeOK'
    <3>1. events' \in Seq(Event)
      <4>1. events \in Seq(Event)
        BY DEF TypeInv, TypeOK, ChannelTypeOK
      <4>2. QED
        BY <1>3, <4>1, TailType DEF Frontend
    <3>2. QED
      BY <1>3, <3>1, Zenon DEF Frontend, TypeInv, TypeOK, ChannelTypeOK
  <2>2. QED
    BY <1>3, <2>1, Zenon
    DEF Frontend, TypeInv, TypeOK, EventsOK, backendVars, locks, threads,
        errors, hooks, vmFields, code, signals, command
<1>4. CASE UNCHANGED vars
  <2>1. ChannelTypeOK'
    BY <1>4, ChannelStutter DEF vars, TypeInv, TypeOK
  <2>2. QED
    BY <1>4, <2>1, Zenon
    DEF vars, TypeInv, TypeOK, EventsOK, backendVars, locks, threads,
        errors, hooks, vmFields, code, signals, command
<1>5. QED
  BY <1>1, <1>2, <1>3, <1>4 DEF Next, BackendNext

(* Every message the backend writes and every index, line and error it acts *)
(* on is one of the session, and callCount is never negative.               *)
THEOREM TypeCorrect == Spec => []TypeOK
<1>1. TypeInv => TypeOK
  BY DEF TypeInv
<1>2. QED
  BY <1>1, TypeInvInit, TypeInvNext, PTL DEF Spec

-----------------------------------------------------------------------------
(***************************************************************************)
(* The two locks.                                                          *)
(***************************************************************************)

(* The part of the type invariant that the locks need.                      *)
PlacesOK ==
  /\ pc \in [LuaThreads -> Places]
  /\ commandPc \in CommandPlaces

LockInv == PlacesOK /\ LocksMatchPlaces

(* Initially no lock is held and no thread is in a region.                  *)
LEMMA LockInvInit == Init => LockInv
BY ProtocolAssumption, BackendAssumption
DEF Init, BackendInit, LockInv, PlacesOK, LocksMatchPlaces, Places,
    CommandPlaces, HoldsCs, HoldsBreakLock, InHook, InLoad, InError

(* Every step of a thread takes and releases the locks its next place names.*)
LEMMA LockInvThread ==
  ASSUME LockInv, NEW t \in LuaThreads, ThreadStep(t)
  PROVE  LockInv'
<1> USE ProtocolAssumption, BackendAssumption
    DEF LockInv, PlacesOK, LocksMatchPlaces, Places, HoldsCs, HoldsBreakLock,
        InHook, InLoad, InError, locks, command, Goto, Return, FreeCs
<1>1. CASE AttachState(t)
  BY <1>1 DEF AttachState, threads
<1>2. CASE DetachState(t)
  BY <1>2 DEF DetachState, threads
<1>3. CASE HookInvoke(t)
  BY <1>3 DEF HookInvoke, threads
<1>4. CASE PostLoadRegister(t)
  BY <1>4 DEF PostLoadRegister, threads
<1>5. CASE PostLoadError(t)
  BY <1>5 DEF PostLoadError, threads
<1>6. CASE PostLoadReport(t)
  BY <1>6 DEF PostLoadReport, threads
<1>7. CASE PostLoadContinue(t)
  BY <1>7 DEF PostLoadContinue, threads
<1>8. CASE PostLoadWait(t)
  BY <1>8 DEF PostLoadWait, threads
<1>9. CASE HookAttach(t)
  BY <1>9 DEF HookAttach, threads
<1>10. CASE HookCrash(t)
  BY <1>10 DEF HookCrash, threads
<1>11. CASE HookRegister(t)
  BY <1>11 DEF HookRegister, threads, HookEntered
<1>12. CASE RegisterWait(t)
  BY <1>12 DEF RegisterWait, threads
<1>13. CASE HookLine(t)
  BY <1>13 DEF HookLine, threads, HookEntered, HookResumed, StopOrReturn
<1>14. CASE HookCallOrReturn(t)
  BY <1>14 DEF HookCallOrReturn, threads, HookEntered
<1>15. CASE UpdateHookMode(t)
  BY <1>15 DEF UpdateHookMode, threads, HookEntered, HookResumed
<1>16. CASE SetHookMode(t)
  BY <1>16 DEF SetHookMode, threads
<1>17. CASE BreakFromScript(t)
  BY <1>17 DEF BreakFromScript, threads
<1>18. CASE SendBreakEvent(t)
  BY <1>18 DEF SendBreakEvent, threads
<1>19. CASE WaitForContinue(t)
  BY <1>19 DEF WaitForContinue, threads
<1>20. CASE StaleVmCrash(t)
  BY <1>20 DEF StaleVmCrash, threads, HookResumed
<1>21. CASE ErrorBreak(t)
  BY <1>21 DEF ErrorBreak, threads
<1>22. CASE SendExceptionEvent(t)
  BY <1>22 DEF SendExceptionEvent, threads
<1>23. CASE ErrorCrash(t)
  BY <1>23 DEF ErrorCrash, threads
<1>24. CASE \E s \in Scripts : LoadBuffer(t, s)
  BY <1>24 DEF LoadBuffer, threads
<1>25. CASE \E m \in Errors : ErrorHandler(t, m)
  BY <1>25 DEF ErrorHandler, threads
<1>26. QED
  BY <1>1, <1>2, <1>3, <1>4, <1>5, <1>6, <1>7, <1>8, <1>9, <1>10, <1>11, <1>12, <1>13, <1>14, <1>15, <1>16, <1>17, <1>18, <1>19, <1>20, <1>21, <1>22, <1>23, <1>24, <1>25 DEF ThreadStep, LoadStep, HookStep, ErrorStep

(* The command thread holds m_breakLock only where it has stopped itself,   *)
(* and moves no other thread.                                               *)
LEMMA LockInvCommand ==
  ASSUME LockInv, CommandStep
  PROVE  LockInv'
<1> USE BackendAssumption
    DEF LockInv, PlacesOK, LocksMatchPlaces, CommandPlaces, locks, threads,
        command, NextCommand
<1>1. CASE \E m \in Modes : Resume(m)
  BY <1>1 DEF Resume
<1>2. CASE Break \/ BreakHooks
  BY <1>2 DEF Break, BreakHooks
<1>3. CASE ToggleBreakpoint \/ DeleteAllBreakpoints
  <2>1. UNCHANGED <<locks, threads, command>>
    BY <1>3, Zenon DEF ToggleBreakpoint, DeleteAllBreakpoints
  <2>2. QED
    BY <2>1
<1>4. CASE LoadDone \/ IgnoreException
  BY <1>4 DEF LoadDone, IgnoreException
<1>5. CASE Evaluate \/ EvaluateDone
  BY <1>5 DEF Evaluate, EvaluateDone
<1>6. CASE EvaluateFails
  BY <1>6 DEF EvaluateFails
<1>7. CASE EvaluateStops \/ EvaluateReports \/ EvaluateGoesOn
  BY <1>7, ProtocolAssumption DEF EvaluateStops, EvaluateReports, EvaluateGoesOn
<1>8. CASE Detach \/ ReadFails \/ Cleanup
  BY <1>8 DEF Detach, ReadFails, Cleanup
<1>9. QED
  BY <1>1, <1>2, <1>3, <1>4, <1>5, <1>6, <1>7, <1>8 DEF CommandStep

LEMMA LockInvNext == LockInv /\ [Next]_vars => LockInv'
<1> SUFFICES ASSUME LockInv, [Next]_vars PROVE LockInv'
  OBVIOUS
<1>1. CASE \E t \in LuaThreads : ThreadStep(t)
  BY <1>1, LockInvThread
<1>2. CASE CommandStep
  BY <1>2, LockInvCommand
<1>3. CASE UNCHANGED backendVars
  BY <1>3 DEF backendVars, locks, threads, command, LockInv, PlacesOK,
              LocksMatchPlaces
<1>4. QED
  BY <1>1, <1>2, <1>3 DEF Next, BackendNext, Frontend, vars

(* m_criticalSection and m_breakLock are held by the thread that is in one  *)
(* of their regions and by no other, for any number of threads.             *)
THEOREM LocksCorrect == Spec => []LocksMatchPlaces
<1>1. LockInv => LocksMatchPlaces
  BY DEF LockInv
<1>2. QED
  BY <1>1, LockInvInit, LockInvNext, PTL DEF Spec

(* Whatever the number of threads, at most one has reported a stop that it  *)
(* has not left.                                                            *)
THEOREM OneStopped == Spec => []OneThreadStopped
<1>1. LockInv => OneThreadStopped
  BY DEF LockInv, LocksMatchPlaces, OneThreadStopped
<1>2. QED
  BY <1>1, LockInvInit, LockInvNext, PTL DEF Spec

-----------------------------------------------------------------------------
(* The backend implements StopProtocol.  A step of a thread that is not     *)
(* stopped leaves the abstract state alone; the steps of a stopped thread,  *)
(* or of one that waits after a load error, each have an abstract action.   *)
Reported ==
  \/ breakLock \in LuaThreads /\ pc[breakLock] \in {"errEvent", "step", "crashed"}
  \/ breakLock = CommandThread /\ commandPc = "evalStep"

AbstractUnchanged ==
  UNCHANGED <<breakLock, stepEvent, detachEvent>> /\ Reported' = Reported

AbstractStep == Stops!Next \/ AbstractUnchanged

LEMMA StopsVars == AbstractUnchanged => UNCHANGED Stops!vars
BY DEF AbstractUnchanged, Reported, Stops!vars

(* A thread outside the regions of m_breakLock that stays outside of them.  *)
LEMMA NotStopped ==
  ASSUME LockInv, NEW t \in LuaThreads,
         pc[t] \notin HoldsBreakLock \cup {"crashed"},
         pc' = [pc EXCEPT ![t] = pc'[t]],
         UNCHANGED <<breakLock, commandPc, stepEvent, detachEvent>>
  PROVE  AbstractUnchanged
BY DEF LockInv, PlacesOK, LocksMatchPlaces, AbstractUnchanged, Reported

LEMMA StopsOfThread ==
  ASSUME LockInv, NEW t \in LuaThreads, ThreadStep(t)
  PROVE  AbstractStep
<1> USE DEF HoldsBreakLock, Goto, Return, locks, threads, command, signals
<1>1. ASSUME \/ AttachState(t) \/ DetachState(t) \/ HookInvoke(t)
             \/ \E s \in Scripts : LoadBuffer(t, s)
      PROVE  AbstractUnchanged
  BY <1>1, NotStopped DEF AttachState, DetachState, HookInvoke, LoadBuffer,
     LockInv, PlacesOK
<1>2. ASSUME \/ PostLoadRegister(t) \/ PostLoadError(t) \/ PostLoadReport(t)
             \/ PostLoadWait(t)
      PROVE  AbstractUnchanged
  BY <1>2, NotStopped DEF PostLoadRegister, PostLoadError, PostLoadReport,
     PostLoadWait, LockInv, PlacesOK
<1>3. CASE PostLoadContinue(t)
  <2>1. pc[t] = "loadErrStep" /\ pc' = [pc EXCEPT ![t] = pc'[t]]
    BY <1>3 DEF PostLoadContinue, LockInv, PlacesOK
  <2>2. Reported' = Reported
    BY <1>3, <2>1 DEF PostLoadContinue, Reported, LockInv, PlacesOK,
       LocksMatchPlaces
  <2>3. Stops!UsePermission
    BY <1>3, <2>2 DEF PostLoadContinue, Stops!UsePermission, Stops!MayGoOn,
       Reported
  <2>4. QED
    BY <2>3 DEF AbstractStep, Stops!Next
<1>4. ASSUME \/ HookAttach(t) \/ HookCrash(t) \/ HookRegister(t)
             \/ RegisterWait(t) \/ HookLine(t) \/ HookCallOrReturn(t)
             \/ UpdateHookMode(t) \/ SetHookMode(t)
      PROVE  AbstractUnchanged
  <2> USE DEF HookEntered, HookResumed, LockInv, PlacesOK
  <2>1. CASE HookAttach(t) \/ HookCrash(t)
    BY <2>1, NotStopped DEF HookAttach, HookCrash
  <2>2. CASE HookRegister(t) \/ RegisterWait(t)
    BY <2>2, NotStopped DEF HookRegister, RegisterWait
  <2>3. CASE HookLine(t) \/ HookCallOrReturn(t)
    BY <2>3, NotStopped DEF HookLine, HookCallOrReturn, StopOrReturn
  <2>4. CASE UpdateHookMode(t) \/ SetHookMode(t)
    BY <2>4, NotStopped DEF UpdateHookMode, SetHookMode
  <2>5. QED
    BY <1>4, <2>1, <2>2, <2>3, <2>4
<1>5. CASE BreakFromScript(t)
  <2>1. breakLock = Nobody /\ breakLock' = t /\ pc'[t] = "send"
    BY <1>5 DEF BreakFromScript, LockInv, PlacesOK
  <2>2. ~Reported /\ ~Reported'
    BY <2>1, ProtocolAssumption, BackendAssumption DEF Reported
  <2>3. Stops!Stop(t)
    BY <1>5, <2>1, <2>2 DEF BreakFromScript, Stops!Stop, Reported
  <2>4. QED
    BY <2>3 DEF AbstractStep, Stops!Next
<1>6. CASE SendBreakEvent(t) \/ ErrorBreak(t)
  <2>1. breakLock = t /\ breakLock' = t /\ pc'[t] \in {"step", "errEvent"}
    BY <1>6 DEF SendBreakEvent, ErrorBreak, LockInv, PlacesOK, LocksMatchPlaces
  <2>2. ~Reported /\ Reported' /\ breakLock # Nobody
    BY <1>6, <2>1, ProtocolAssumption, BackendAssumption
    DEF SendBreakEvent, ErrorBreak, Reported
  <2>3. Stops!Report
    BY <1>6, <2>1, <2>2 DEF SendBreakEvent, ErrorBreak, Stops!Report, Reported
  <2>4. QED
    BY <2>3 DEF AbstractStep, Stops!Next
<1>7. CASE WaitForContinue(t)
  <2>1. Reported /\ ~Reported'
    BY <1>7, ProtocolAssumption, BackendAssumption
    DEF WaitForContinue, Reported, LockInv, LocksMatchPlaces
  <2>2. Stops!GoOn
    BY <1>7, <2>1 DEF WaitForContinue, Stops!GoOn, Stops!MayGoOn, Reported
  <2>3. QED
    BY <2>2 DEF AbstractStep, Stops!Next
<1>8. CASE StaleVmCrash(t)
  <2>1. CASE pc[t] = "step"
    BY <1>8, <2>1 DEF StaleVmCrash, AbstractStep, AbstractUnchanged, Reported,
       LockInv, PlacesOK, LocksMatchPlaces
  <2>2. CASE HookResumed(t)
    BY <1>8, <2>2, NotStopped DEF StaleVmCrash, HookResumed, AbstractStep,
       LockInv, PlacesOK
  <2>3. QED
    BY <1>8, <2>1, <2>2 DEF StaleVmCrash
<1>9. CASE \E m \in Errors : ErrorHandler(t, m)
  <2>1. CASE breakLock' = breakLock /\ pc' = pc
    BY <1>9, <2>1 DEF ErrorHandler, AbstractStep, AbstractUnchanged, Reported
  <2>2. CASE breakLock = Nobody /\ breakLock' = t /\ Goto(t, "errSend")
    <3>1. ~Reported /\ ~Reported'
      BY <2>2, ProtocolAssumption, BackendAssumption
      DEF Reported, LockInv, PlacesOK
    <3>2. Stops!Stop(t)
      BY <1>9, <2>2, <3>1 DEF ErrorHandler, Stops!Stop, Reported
    <3>3. QED
      BY <3>2 DEF AbstractStep, Stops!Next
  <2>3. QED
    BY <1>9, <2>1, <2>2 DEF ErrorHandler
<1>10. CASE SendExceptionEvent(t)
  BY <1>10 DEF SendExceptionEvent, AbstractStep, AbstractUnchanged, Reported,
     LockInv, PlacesOK, LocksMatchPlaces
<1>11. CASE ErrorCrash(t)
  BY <1>11, NotStopped DEF ErrorCrash, AbstractStep, LockInv, PlacesOK
<1>12. QED
  BY <1>1, <1>2, <1>3, <1>4, <1>5, <1>6, <1>7, <1>8, <1>9, <1>10, <1>11
  DEF ThreadStep, LoadStep, HookStep, ErrorStep, AbstractStep

LEMMA StopsOfCommand ==
  ASSUME LockInv, CommandStep
  PROVE  AbstractStep
<1> USE DEF NextCommand, locks, threads, command, signals
<1>1. CASE \E m \in Modes : Resume(m)
  <2>1. Stops!Permit
    BY <1>1 DEF Resume, Stops!Permit
  <2>2. QED
    BY <2>1 DEF AbstractStep, Stops!Next
<1>2. CASE Detach
  <2>1. Stops!Detach
    BY <1>2 DEF Detach, SignalDetached, Stops!Detach, LockInv, LocksMatchPlaces
  <2>2. QED
    BY <2>1 DEF AbstractStep, Stops!Next
<1>3. CASE EvaluateStops
  <2>1. ~Reported /\ ~Reported'
    BY <1>3, ProtocolAssumption, BackendAssumption DEF EvaluateStops, Reported
  <2>2. Stops!Stop(CommandThread)
    BY <1>3, <2>1 DEF EvaluateStops, Stops!Stop, Reported
  <2>3. QED
    BY <2>2 DEF AbstractStep, Stops!Next
<1>4. CASE EvaluateReports
  <2>1. breakLock = CommandThread /\ ~Reported /\ Reported'
    BY <1>4, BackendAssumption
    DEF EvaluateReports, Reported, LockInv, LocksMatchPlaces
  <2>2. Stops!Report
    BY <1>4, <2>1, BackendAssumption
    DEF EvaluateReports, Stops!Report, Reported
  <2>3. QED
    BY <2>2 DEF AbstractStep, Stops!Next
<1>5. CASE EvaluateGoesOn
  <2>1. Reported /\ ~Reported'
    BY <1>5, ProtocolAssumption, BackendAssumption
    DEF EvaluateGoesOn, Reported, LockInv, LocksMatchPlaces
  <2>2. Stops!GoOn
    BY <1>5, <2>1 DEF EvaluateGoesOn, Stops!GoOn, Stops!MayGoOn, Reported
  <2>3. QED
    BY <2>2 DEF AbstractStep, Stops!Next
<1>6. CASE Break \/ BreakHooks \/ ToggleBreakpoint \/ DeleteAllBreakpoints
  <2>1. CASE Break \/ BreakHooks
    BY <1>6, <2>1, BackendAssumption
    DEF Break, BreakHooks, AbstractStep, AbstractUnchanged, Reported, LockInv,
        LocksMatchPlaces
  <2>2. CASE ToggleBreakpoint \/ DeleteAllBreakpoints
    <3>1. UNCHANGED <<locks, threads, signals, command>>
      BY ONLY <2>2, Zenon
      DEF ToggleBreakpoint, DeleteAllBreakpoints
    <3>2. QED
      BY ONLY <3>1 DEF locks, threads, signals, command, AbstractStep,
                       AbstractUnchanged, Reported
  <2>3. QED
    BY <1>6, <2>1, <2>2
<1>7. CASE LoadDone \/ IgnoreException \/ ReadFails \/ Cleanup
  BY <1>7, BackendAssumption
  DEF LoadDone, IgnoreException, ReadFails, Cleanup, AbstractStep,
      AbstractUnchanged, Reported, LockInv, LocksMatchPlaces
<1>8. CASE Evaluate \/ EvaluateFails \/ EvaluateDone
  BY <1>8, BackendAssumption
  DEF Evaluate, EvaluateFails, EvaluateDone, AbstractStep, AbstractUnchanged,
      Reported, LockInv, LocksMatchPlaces
<1>9. QED
  BY <1>1, <1>2, <1>3, <1>4, <1>5, <1>6, <1>7, <1>8 DEF CommandStep

(* A stop is reported before it ends and ends only with a permission or a   *)
(* detach, one stop after the other, for any number of threads.             *)
THEOREM BackendImplementsStops == Spec => StopsAreReported
<1>1. Init => Stops!Init
  BY ProtocolAssumption, BackendAssumption DEF Init, BackendInit, Stops!Init
<1>2. LockInv /\ [Next]_vars => [Stops!Next]_(Stops!vars)
  <2> SUFFICES ASSUME LockInv, [Next]_vars PROVE AbstractStep
    BY StopsVars DEF AbstractStep
  <2>1. CASE \E t \in LuaThreads : ThreadStep(t)
    BY <2>1, StopsOfThread
  <2>2. CASE CommandStep
    BY <2>2, StopsOfCommand
  <2>3. CASE UNCHANGED backendVars
    BY <2>3 DEF backendVars, locks, threads, command, signals, AbstractStep,
                AbstractUnchanged, Reported
  <2>4. QED
    BY <2>1, <2>2, <2>3 DEF Next, BackendNext, Frontend, vars
<1>3. QED
  BY <1>1, <1>2, LockInvInit, LockInvNext, PTL DEF Spec, StopsAreReported, Stops!Spec

=============================================================================
