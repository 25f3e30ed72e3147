---------------------------- MODULE SessionProofs ---------------------------
(***************************************************************************)
(* What holds of a debugging session for any number of threads, scripts,   *)
(* lines and errors and any capacity of the pipe.                          *)
(***************************************************************************)
EXTENDS Session, DebugBackendProofs, FiniteSetTheorems

(* The backend can still tell the frontend something.                       *)
Live == eventsOpen /\ commandPc # "done" /\ processAlive /\ ~Crashed

(* The event thread has given a script that waits for the UI an index of the*)
(* table, and ends after its last event, when the backend tells no more.    *)
PendingOK ==
  /\ \A k \in DOMAIN pending :
       /\ pending[k].id = "LoadScript"
            => pending[k] \in [id : {"LoadScript"}, index : 1..Len(frontendScripts)]
       /\ pending[k].id = "SessionEnd" => k = Len(pending) /\ eventThread = "ended"
  /\ eventThread = "ended" => ~Live

(* A thread past the entry of the backend works on a state that is known,   *)
(* until the cleanup; no thread crashes before.                             *)
PlacesInv ==
  /\ \A t \in LuaThreads :
       pc[t] \notin {"host", "lua", "hook", "crashed"}
         => t \in vms \/ commandPc = "done"
  /\ Crashed => detachEvent \/ commandPc = "done"

SessionInv == TypeInv /\ LockInv /\ FrontendTypeOK /\ PendingOK /\ PlacesInv

-----------------------------------------------------------------------------
(***************************************************************************)
(* What a step of the backend does to the tables and the pipes.            *)
(***************************************************************************)

(* The events that concern no table.                                        *)
Reports ==
  {es \in Seq(Event) :
     \A k \in DOMAIN es :
       /\ es[k].id \in {"Break", "LoadError", "Message", "Exception"}
       /\ es[k].id = "Break" => es[k].index \in 0..Len(scripts)}

Written(es) ==
  events' = IF eventsOpen /\ commandPc # "done" THEN events \o es ELSE events

Attaches(t) ==
  /\ vms' = vms \cup {t}
  /\ UNCHANGED code
  /\ Written(<<[id |-> "CreateVM", vm |-> t]>>)

Detaches(t) ==
  /\ t \in vms
  /\ vms' = vms \ {t}
  /\ UNCHANGED code
  /\ Written(<<[id |-> "DestroyVM", vm |-> t]>>)

Registers(t, s) ==
  /\ GetScriptIndex(s) = 0
  /\ scripts' = Append(scripts, s)
  /\ UNCHANGED <<vms, breakpoints>>
  /\ Written(<<[id |-> "LoadScript", vm |-> t, script |-> s]>>)

ReportsOnly ==
  /\ UNCHANGED <<vms, code>>
  /\ \E es \in Reports : Written(es)

ThreadEffect(t) ==
  /\ UNCHANGED <<command, detachEvent, mode, commands, pipeEnds>>
  /\ Attaches(t) \/ Detaches(t) \/ (\E s \in Scripts : Registers(t, s)) \/ ReportsOnly

Toggles(i, l) ==
  LET s   == scripts[i]
      set == l \notin breakpoints[s]
  IN /\ NextCommand([id |-> "ToggleBreakpoint", index |-> i, line |-> l])
     /\ breakpoints' = [breakpoints EXCEPT ![s] = IF set THEN @ \cup {l} ELSE @ \ {l}]
     /\ UNCHANGED <<vms, scripts>>
     /\ Written(<<[id |-> "SetBreakpoint", index |-> i, line |-> l, set |-> set]>>)

CommandEffect ==
  /\ commandPc # "done"
  /\ UNCHANGED <<threads, pipeEnds>>
  /\ detachEvent => detachEvent'
  /\ \/ commands' = commands
     \/ commands # <<>> /\ commands' = Tail(commands)
  /\ \/ \E i \in DOMAIN scripts, l \in Lines : Toggles(i, l)
     \/ /\ NextCommand([id |-> "DeleteAllBreakpoints"])
        /\ UNCHANGED <<vms, scripts, events>>
     \/ commandPc' = "done" /\ UNCHANGED events
     \/ ReportsOnly

LEMMA EmitWrites ==
  ASSUME NEW es, Write(es)
  PROVE  Written(es)
BY DEF Write, Written

LEMMA NoReport ==
  ASSUME TypeInv, UNCHANGED events
  PROVE  \E es \in Reports : Written(es)
<1>1. events \o <<>> = events
  BY ConcatEmptySeq DEF TypeInv, TypeOK, ChannelTypeOK
<1>2. <<>> \in Reports
  BY EmptySeq DEF Reports
<1>3. Written(<<>>)
  BY <1>1 DEF Written
<1> QED
  BY <1>2, <1>3

LEMMA IndexInTable ==
  ASSUME scripts \in Seq(Scripts), NEW s
  PROVE  GetScriptIndex(s) \in 0..Len(scripts)
BY DEF GetScriptIndex

LEMMA ReportsOfVm ==
  ASSUME TypeInv, NEW t \in LuaThreads
  PROVE  /\ <<[id |-> "Message", vm |-> t]>> \in Reports
         /\ \A i \in 0..Len(scripts) :
              /\ <<[id |-> "Break", vm |-> t, index |-> i]>> \in Reports
              /\ <<[id |-> "Break", vm |-> t, index |-> i],
                   [id |-> "LoadError", vm |-> t]>> \in Reports
         /\ \A m \in Errors :
              <<[id |-> "Exception", vm |-> t, error |-> m]>> \in Reports
         /\ \A m \in Errors, i \in 0..Len(scripts) :
              <<[id |-> "Break", vm |-> t, index |-> i],
                [id |-> "Exception", vm |-> t, error |-> m]>> \in Reports
<1>1. Len(scripts) \in Nat
  BY DEF TypeInv, TypeOK
<1> USE DEF Reports, Index
<1>2. <<[id |-> "Message", vm |-> t]>> \in Reports
  <2>1. <<[id |-> "Message", vm |-> t]>> \in Seq(Event)
    BY VmEventType
  <2> QED
    BY <2>1
<1>3. ASSUME NEW i \in 0..Len(scripts)
      PROVE  /\ <<[id |-> "Break", vm |-> t, index |-> i]>> \in Reports
             /\ <<[id |-> "Break", vm |-> t, index |-> i],
                  [id |-> "LoadError", vm |-> t]>> \in Reports
  BY <1>1, BreakEventType
<1>4. ASSUME NEW m \in Errors
      PROVE  <<[id |-> "Exception", vm |-> t, error |-> m]>> \in Reports
  <2>1. 0 \in Index
    OBVIOUS
  <2>2. <<[id |-> "Exception", vm |-> t, error |-> m]>> \in Seq(Event)
    BY <2>1, ExceptionEventType
  <2> QED
    BY <2>2
<1>5. ASSUME NEW m \in Errors, NEW i \in 0..Len(scripts)
      PROVE  <<[id |-> "Break", vm |-> t, index |-> i],
                [id |-> "Exception", vm |-> t, error |-> m]>> \in Reports
  BY <1>1, ExceptionEventType
<1> QED
  BY <1>2, <1>3, <1>4, <1>5

LEMMA ThreadEffects ==
  ASSUME TypeInv, NEW t \in LuaThreads, ThreadStep(t)
  PROVE  ThreadEffect(t)
<1> USE DEF locks, threads, errors, hooks, vmFields, code, signals, command, Emit
<1>0. scripts \in Seq(Scripts)
  BY DEF TypeInv, TypeOK
<1>1. ASSUME UNCHANGED <<vms, code, command, detachEvent, mode, channelVars>>
      PROVE  ThreadEffect(t)
  <2>1. UNCHANGED <<events, commands, pipeEnds>>
    BY <1>1 DEF channelVars
  <2> QED
    BY <1>1, <2>1, NoReport DEF ThreadEffect, ReportsOnly
<1>2. ASSUME NEW es \in Reports, Emit(es),
             UNCHANGED <<vms, code, command, detachEvent, mode>>
      PROVE  ThreadEffect(t)
  BY <1>2, EmitWrites DEF ThreadEffect, ReportsOnly
<1>3. ASSUME NEW s \in Scripts, GetScriptIndex(s) = 0, Register(t, s),
             UNCHANGED <<vms, breakpoints, command, detachEvent, mode>>
      PROVE  ThreadEffect(t)
  BY <1>3, EmitWrites DEF ThreadEffect, Registers, Register
<1>4. ASSUME AddVm(t), UNCHANGED <<code, command, detachEvent, mode>>
      PROVE  ThreadEffect(t)
  BY <1>4, EmitWrites DEF ThreadEffect, Attaches, AddVm
<1>5. CASE AttachState(t) \/ HookAttach(t)
  BY <1>4, <1>5 DEF AttachState, HookAttach
<1>6. CASE DetachState(t)
  <2>1. CASE t \in vms
    BY <1>6, <2>1, EmitWrites DEF DetachState, ThreadEffect, Detaches
  <2>2. CASE t \notin vms
    BY <1>1, <1>6, <2>2 DEF DetachState
  <2> QED
    BY <2>1, <2>2
<1>7. CASE PostLoadRegister(t)
  <2>1. ev[t].script \in Scripts
    BY <1>7 DEF PostLoadRegister, TypeInv, EventsOK
  <2> QED
    BY <1>1, <1>3, <1>7, <2>1 DEF PostLoadRegister
<1>8. CASE HookRegister(t)
  <2>1. ev[t].script \in Scripts
    BY <1>8 DEF HookRegister, TypeInv, TypeOK, EventsOK
  <2> QED
    BY <1>3, <1>8, <2>1 DEF HookRegister
<1>9. CASE PostLoadReport(t) \/ ErrorBreak(t) \/ SendBreakEvent(t)
  BY <1>0, <1>2, <1>9, ReportsOfVm, IndexInTable
  DEF PostLoadReport, ErrorBreak, SendBreakEvent
<1>10. CASE SendExceptionEvent(t)
  BY <1>2, <1>10, ReportsOfVm DEF SendExceptionEvent
<1>11. CASE \E m \in Errors : ErrorHandler(t, m)
  BY <1>1, <1>2, <1>11, ReportsOfVm DEF ErrorHandler
<1>12. CASE HookInvoke(t) \/ \E s \in Scripts : LoadBuffer(t, s)
  BY <1>1, <1>12 DEF HookInvoke, LoadBuffer
<1>13. CASE PostLoadError(t) \/ PostLoadContinue(t) \/ PostLoadWait(t)
  BY <1>1, <1>13 DEF PostLoadError, PostLoadContinue, PostLoadWait
<1>14. CASE HookCrash(t) \/ RegisterWait(t) \/ HookLine(t) \/ HookCallOrReturn(t)
  BY <1>1, <1>14 DEF HookCrash, RegisterWait, HookLine, HookCallOrReturn
<1>15. CASE UpdateHookMode(t) \/ SetHookMode(t) \/ BreakFromScript(t)
  BY <1>1, <1>15 DEF UpdateHookMode, SetHookMode, BreakFromScript
<1>16. CASE WaitForContinue(t) \/ StaleVmCrash(t) \/ ErrorCrash(t)
  BY <1>1, <1>16 DEF WaitForContinue, StaleVmCrash, ErrorCrash
<1> QED
  BY <1>5, <1>6, <1>7, <1>8, <1>9, <1>10, <1>11, <1>12, <1>13, <1>14, <1>15, <1>16
  DEF ThreadStep, LoadStep, HookStep, ErrorStep

LEMMA CommandEffects ==
  ASSUME TypeInv, CommandStep
  PROVE  CommandEffect
<1> USE DEF locks, threads, errors, hooks, vmFields, code, signals, command, Emit,
            NextCommand
<1>1. ASSUME commandPc # "done", Consume, commands # <<>>,
             UNCHANGED <<vms, code, threads>>, detachEvent => detachEvent'
      PROVE  CommandEffect
  BY <1>1, NoReport DEF Consume, CommandEffect, ReportsOnly
<1>2. ASSUME NEW es \in Reports, commandPc # "done", Emit(es),
             UNCHANGED <<vms, code, threads, detachEvent>>
      PROVE  CommandEffect
  BY <1>2, EmitWrites DEF CommandEffect, ReportsOnly
<1>3. ASSUME commandPc # "done", UNCHANGED <<vms, code, threads, detachEvent>>,
             UNCHANGED <<events, commands, pipeEnds>>
      PROVE  CommandEffect
  BY <1>3, NoReport DEF CommandEffect, ReportsOnly
<1>4. CASE \E m \in Modes : Resume(m)
  BY <1>1, <1>4 DEF Resume
<1>5. CASE Break \/ LoadDone \/ IgnoreException
  BY <1>1, <1>5 DEF Break, LoadDone, IgnoreException
<1>6. CASE BreakHooks \/ ReadFails
  BY <1>3, <1>6 DEF BreakHooks, ReadFails, channelVars
<1>7. CASE ToggleBreakpoint
  <2>1. PICK i \in DOMAIN scripts, l \in Lines :
          /\ Toggles(i, l)
          /\ commandPc = "read" /\ commands # <<>> /\ commands' = Tail(commands)
          /\ UNCHANGED <<threads, signals, pipeEnds>>
    BY <1>7, EmitWrites, Zenon DEF ToggleBreakpoint, Toggles
  <2> QED
    BY <2>1 DEF CommandEffect
<1>8. CASE DeleteAllBreakpoints
  BY <1>8 DEF DeleteAllBreakpoints, Consume, CommandEffect
<1>9. CASE Evaluate
  <2>1. /\ commandPc = "read" /\ commands # <<>> /\ commands' = Tail(commands)
        /\ UNCHANGED <<vms, code, events, threads, signals, pipeEnds>>
    BY <1>9 DEF Evaluate, Consume
  <2> QED
    BY <2>1, NoReport DEF CommandEffect, ReportsOnly
<1>10. CASE EvaluateFails
  <2>1. evalVm \in LuaThreads
    BY <1>10 DEF EvaluateFails, TypeInv, EventsOK
  <2> QED
    BY <1>2, <1>10, <2>1, ReportsOfVm DEF EvaluateFails
<1>11. CASE EvaluateReports
  <2>1. evalVm \in LuaThreads
    BY <1>11 DEF EvaluateReports, TypeInv, EventsOK
  <2> QED
    BY <1>2, <1>11, <2>1, ReportsOfVm DEF EvaluateReports
<1>12. CASE EvaluateStops \/ EvaluateGoesOn \/ EvaluateDone
  BY <1>3, <1>12 DEF EvaluateStops, EvaluateGoesOn, EvaluateDone, channelVars
<1>13. CASE Detach
  BY <1>1, <1>13 DEF Detach, SignalDetached
<1>14. CASE Cleanup
  BY <1>14 DEF Cleanup, CommandEffect, channelVars
<1> QED
  BY <1>4, <1>5, <1>6, <1>7, <1>8, <1>9, <1>10, <1>11, <1>12, <1>13, <1>14 DEF CommandStep

-----------------------------------------------------------------------------
(***************************************************************************)
(* Places.                                                                 *)
(***************************************************************************)

LEMMA PlacesThread ==
  ASSUME LockInv, PlacesInv, NEW t \in LuaThreads, ThreadStep(t), ~Crashed
  PROVE  PlacesInv'
<1> USE DEF PlacesInv, Crashed, LockInv, PlacesOK, Goto, Return, command, signals,
            GetIsAttached
<1>0. \A u \in LuaThreads : pc[u] # "crashed"
  OBVIOUS
<1>1. ASSUME NEW place, Goto(t, place), place # "crashed", t \in vms \/ commandPc = "done",
             UNCHANGED <<vms, command>>
      PROVE  PlacesInv'
  BY <1>0, <1>1
<1>2. ASSUME NEW place \in {"host", "lua", "hook"}, Goto(t, place),
             vms \ {t} \subseteq vms', UNCHANGED command
      PROVE  PlacesInv'
  BY <1>0, <1>2
<1>3. ASSUME Goto(t, "crashed"), detachEvent \/ commandPc = "done",
             UNCHANGED <<vms, command, detachEvent>>
      PROVE  PlacesInv'
  BY <1>0, <1>3
<1>4. CASE AttachState(t) \/ DetachState(t)
  BY <1>2, <1>4 DEF AttachState, DetachState, AddVm
<1>5. CASE HookInvoke(t)
  BY <1>2, <1>5 DEF HookInvoke
<1>6. CASE \E s \in Scripts : LoadBuffer(t, s)
  BY <1>1, <1>6 DEF LoadBuffer
<1>7. CASE PostLoadRegister(t) \/ PostLoadError(t) \/ PostLoadReport(t)
  BY <1>1, <1>2, <1>7 DEF PostLoadRegister, PostLoadError, PostLoadReport
<1>8. CASE PostLoadContinue(t) \/ PostLoadWait(t)
  BY <1>1, <1>2, <1>8 DEF PostLoadContinue, PostLoadWait
<1>9. CASE HookAttach(t)
  BY <1>0, <1>9 DEF HookAttach, AddVm
<1>10. CASE HookCrash(t) \/ ErrorCrash(t)
  BY <1>3, <1>10 DEF HookCrash, ErrorCrash
<1>11. CASE StaleVmCrash(t)
  BY <1>3, <1>11 DEF StaleVmCrash, HookResumed
<1>12. CASE HookRegister(t) \/ RegisterWait(t)
  BY <1>1, <1>12 DEF HookRegister, HookEntered, RegisterWait
<1>13. CASE HookLine(t)
  BY <1>1, <1>2, <1>13 DEF HookLine, StopOrReturn, HookEntered, HookResumed
<1>14. CASE HookCallOrReturn(t) \/ SetHookMode(t)
  BY <1>2, <1>14 DEF HookCallOrReturn, SetHookMode
<1>15. CASE UpdateHookMode(t)
  BY <1>1, <1>2, <1>15 DEF UpdateHookMode, HookEntered, HookResumed
<1>16. CASE BreakFromScript(t) \/ SendBreakEvent(t)
  BY <1>1, <1>16 DEF BreakFromScript, SendBreakEvent
<1>17. CASE WaitForContinue(t)
  BY <1>2, <1>17 DEF WaitForContinue
<1>18. CASE \E m \in Errors : ErrorHandler(t, m)
  BY <1>0, <1>1, <1>18 DEF ErrorHandler
<1>19. CASE ErrorBreak(t) \/ SendExceptionEvent(t)
  BY <1>1, <1>19 DEF ErrorBreak, SendExceptionEvent
<1> QED
  BY <1>4, <1>5, <1>6, <1>7, <1>8, <1>9, <1>10, <1>11, <1>12, <1>13, <1>14, <1>15,
     <1>16, <1>17, <1>18, <1>19 DEF ThreadStep, LoadStep, HookStep, ErrorStep

LEMMA PlacesCommand ==
  ASSUME PlacesInv, CommandEffect
  PROVE  PlacesInv'
BY DEF PlacesInv, CommandEffect, Crashed, threads, Toggles, ReportsOnly, code

(* What is lost stays lost.                                                 *)
LEMMA LiveBefore ==
  ASSUME TypeInv, [SessionNext]_sessionVars
  PROVE  Live' => Live
<1>1. CASE UNCHANGED <<vars, processAlive>>
  BY <1>1 DEF vars, backendVars, threads, command, channelVars, pipeEnds, Live, Crashed
<1>2. CASE BackendStep
  <2>1. ~Crashed /\ processAlive' = processAlive
    BY <1>2 DEF BackendStep, BackendNext, frontendVars
  <2>2. eventsOpen' = eventsOpen /\ (commandPc' # "done" => commandPc # "done")
    <3>1. CASE CommandStep
      BY <3>1, CommandEffects DEF CommandEffect, pipeEnds
    <3>2. CASE \E t \in LuaThreads : ThreadStep(t)
      BY <3>2, ThreadEffects DEF ThreadEffect, pipeEnds, command
    <3> QED
      BY <1>2, <3>1, <3>2 DEF BackendStep, BackendNext
  <2> QED
    BY <2>1, <2>2 DEF Live
<1>3. CASE FrontendStep
  <2>1. UNCHANGED <<pc, commandPc>>
    BY <1>3 DEF FrontendStep, backendVars, threads, command
  <2>2. eventsOpen' => eventsOpen
    BY <1>3 DEF FrontendStep, FrontendNext, EventThreadStep, ReadEvent, ReadEventFails,
       UiStep, HandleEvent, OnLoadScript, OnSetBreakpoint, OnCreateVM, OnDestroyVM,
       OnBreak, OnException, OnLoadError, OnMessage, OnSessionEnd, EvaluateReturns, SendResume,
       StopFlush, StopJoin, CloseDialog, Close, CloseException, CloseLoadError, UserStep, UserResume,
       UserBreak, UserToggleBreakpoint, UserDeleteAllBreakpoints, Stop, Die, Send,
       NoPipe, channelVars, pipeEnds
  <2>3. processAlive' => processAlive
    BY <1>3 DEF FrontendStep, FrontendNext, EventThreadStep, ReadEvent, ReadEventFails,
       UiStep, HandleEvent, OnLoadScript, OnSetBreakpoint, OnCreateVM, OnDestroyVM,
       OnBreak, OnException, OnLoadError, OnMessage, OnSessionEnd, EvaluateReturns, SendResume,
       StopFlush, StopJoin, CloseDialog, Close, CloseException, CloseLoadError, UserStep, UserResume,
       UserBreak, UserToggleBreakpoint, UserDeleteAllBreakpoints, Stop, Die, Handle, User
  <2> QED
    BY <2>1, <2>2, <2>3 DEF Live, Crashed
<1>4. CASE ProcessEnds
  BY <1>4 DEF ProcessEnds, Live
<1> QED
  BY <1>1, <1>2, <1>3, <1>4 DEF SessionNext, sessionVars, frontendVars

-----------------------------------------------------------------------------
(***************************************************************************)
(* What a step of the frontend does to the tables and the pipes.           *)
(***************************************************************************)

Sent(msgs) == commands' = IF commandsOpen THEN commands \o msgs ELSE commands

(* The commands that concern no table; the hooks are not touched either,    *)
(* unless the user may give a Break.                                        *)
Requests ==
  {msgs \in Seq(Command) :
     \A k \in DOMAIN msgs :
       /\ msgs[k].id \notin {"ToggleBreakpoint", "DeleteAllBreakpoints"}
       /\ msgs[k].id = "Break" => "Break" \in UserMay}

RequestsOnly == \E msgs \in Requests : Sent(msgs)

Pops(ids) ==
  /\ pending # <<>>
  /\ pending' = Tail(pending)
  /\ Head(pending).id \in ids

(* An event is handled that changes no table.                               *)
Tells ==
  /\ Pops({"Break", "Exception", "LoadError", "Message"})
  /\ UNCHANGED <<frontendScripts, events, project, vmList, eventThread>>
  /\ RequestsOnly

Ends ==
  /\ Pops({"SessionEnd"})
  /\ frontendScripts' = <<>>
  /\ fileScript' = [s \in Scripts |-> 0]
  /\ UNCHANGED <<events, eventThread, commands>>

TogglesFile(s, l) ==
  /\ UNCHANGED <<frontendScripts, pending, events, vmList, fileScript, eventThread>>
  /\ IF fileScript[s] # 0
     THEN /\ Sent(<<[id |-> "ToggleBreakpoint", index |-> fileScript[s], line |-> l]>>)
          /\ UNCHANGED fileBreakpoints
     ELSE /\ fileBreakpoints' = [fileBreakpoints EXCEPT ![s] = SymDiff(@, {l})]
          /\ UNCHANGED commands

NoTable ==
  /\ UNCHANGED <<frontendScripts, pending, events, project, vmList>>
  /\ eventThread' \in {eventThread, "ended"}
  /\ RequestsOnly

FrontendEffect ==
  \/ ReadEvent \/ ReadEventFails(BackendClosed)
  \/ OnLoadScript \/ OnSetBreakpoint \/ OnCreateVM \/ OnDestroyVM
  \/ Tells \/ Ends
  \/ \E s \in Scripts, l \in Lines : TogglesFile(s, l)
  \/ UserDeleteAllBreakpoints
  \/ NoTable

LEMMA SendSends ==
  ASSUME NEW msgs, Send(msgs)
  PROVE  Sent(msgs)
BY DEF Send, Sent

LEMMA NoRequest ==
  ASSUME ChannelTypeOK, UNCHANGED commands
  PROVE  RequestsOnly
<1>1. commands \o <<>> = commands
  BY ConcatEmptySeq DEF ChannelTypeOK
<1>2. <<>> \in Requests
  BY EmptySeq DEF Requests
<1> QED
  BY <1>1, <1>2 DEF RequestsOnly, Sent

(* The exception dialog shows a message an error may carry.                 *)
LEMMA ExceptionDialog ==
  ASSUME FrontendTypeOK, Close("Exception")
  PROVE  Head(dialog).error \in Errors
<1>1. dialog \in Seq(Dialog) /\ dialog # <<>> /\ Head(dialog).id = "Exception"
  BY DEF FrontendTypeOK, Close
<1>2. Head(dialog) \in Dialog
  BY <1>1
<1> QED
  BY <1>1, <1>2 DEF Dialog

LEMMA FrontendEffects ==
  ASSUME ChannelTypeOK, FrontendTypeOK, FrontendStep
  PROVE  FrontendEffect
<1> USE DEF FrontendEffect, NoPipe, channelVars
<1>0. RequestsOnly \/ commands' # commands
  BY NoRequest
<1>1. CASE EventThreadStep(BackendClosed)
  BY <1>1 DEF EventThreadStep
<1>2. CASE OnBreak
  <2>1. ASSUME NEW t \in LuaThreads
        PROVE  <<[id |-> "Evaluate", vm |-> t]>> \in Requests
    <3>1. <<[id |-> "Evaluate", vm |-> t]>> \in Seq(Command)
      BY DEF Command
    <3> QED
      BY <3>1 DEF Requests
  <2>2. Head(pending).vm \in LuaThreads
    <3>1. Head(pending) \in Queued /\ Head(pending).id = "Break"
      BY <1>2, HeadTailProperties DEF OnBreak, Handle, FrontendTypeOK
    <3> QED
      BY <3>1 DEF Queued, Event
  <2>3. RequestsOnly
    BY <1>0, <1>2, <2>1, <2>2, SendSends DEF OnBreak, RequestsOnly
  <2> QED
    BY <1>2, <2>3 DEF OnBreak, Handle, Send, Tells, Pops
<1>3. CASE OnException \/ OnLoadError \/ OnMessage
  BY <1>0, <1>3 DEF OnException, OnLoadError, OnMessage, Handle, Tells, Pops
<1>4. CASE OnSessionEnd
  BY <1>4 DEF OnSessionEnd, Handle, Ends, Pops
<1>5. CASE EvaluateReturns(BackendClosed) \/ StopFlush(BackendClosed) \/ StopJoin \/ Die
  BY <1>0, <1>5 DEF EvaluateReturns, StopFlush, StopJoin, Die, NoTable
<1>6. CASE SendResume
  <2>1. ResumeCommand \in Requests
    <3>1. ResumeCommand \in Seq(Command) /\ resume \in ResumeCommands
      BY DEF ResumeCommand, FrontendTypeOK, ResumeCommands, Command
    <3> QED
      BY <3>1 DEF Requests, ResumeCommand, ResumeCommands
  <2> QED
    BY <1>6, <2>1, SendSends DEF SendResume, NoTable, RequestsOnly, Send
<1>7. CASE CloseDialog
  <2>1. ASSUME NEW m \in Errors
        PROVE  <<[id |-> "IgnoreException", error |-> m]>> \in Requests
    <3>1. <<[id |-> "IgnoreException", error |-> m]>> \in Seq(Command)
      BY DEF Command
    <3> QED
      BY <3>1 DEF Requests
  <2>2. ASSUME NEW choice, CloseException(choice) PROVE RequestsOnly /\ NoTable
    <3>1. Head(dialog).error \in Errors
      BY <2>2, ExceptionDialog DEF CloseException
    <3>2. RequestsOnly
      BY <1>0, <2>1, <2>2, <3>1, SendSends DEF CloseException, RequestsOnly
    <3> QED
      BY <2>2, <3>2 DEF CloseException, Close, NoTable, Send
  <2>3. CloseLoadError => RequestsOnly /\ NoTable
    BY <1>0 DEF CloseLoadError, Close, NoTable
  <2> QED
    BY <1>7, <2>2, <2>3 DEF CloseDialog
<1>8. CASE \E m \in ResumeCommands : UserResume(m)
  BY <1>0, <1>8 DEF UserResume, User, NoTable
<1>9. CASE UserBreak
  <2>1. <<[id |-> "Break"]>> \in Requests
    <3>1. <<[id |-> "Break"]>> \in Seq(Command) /\ "Break" \in UserMay
      BY <1>9 DEF Command, UserBreak, User
    <3> QED
      BY <3>1 DEF Requests
  <2> QED
    BY <1>9, <2>1, SendSends DEF UserBreak, User, NoTable, RequestsOnly, Send
<1>10. CASE \E s \in Scripts, l \in Lines : UserToggleBreakpoint(s, l)
  BY <1>10, SendSends DEF UserToggleBreakpoint, User, TogglesFile, Send
<1>11. CASE \E kill \in BOOLEAN : Stop(kill)
  <2>1. PICK kill \in BOOLEAN : Stop(kill)
    BY <1>11
  <2> DEFINE msg == [id |-> "Detach", continueRunning |-> ~kill]
  <2>2. <<msg>> \in Requests
    <3>1. msg \in Command
      BY DEF Command
    <3>2. <<msg>> \in Seq(Command)
      BY <3>1
    <3> QED
      BY <3>2 DEF Requests
  <2>3. Append(commands, msg) = commands \o <<msg>>
    <3>1. commands \in Seq(Command) /\ msg \in Command
      BY DEF ChannelTypeOK, Command
    <3> HIDE DEF msg
    <3> QED
      BY <3>1, AppendIsConcat
  <2>4. RequestsOnly
    BY <2>1, <2>2, <2>3 DEF Stop, RequestsOnly, Sent
  <2> QED
    BY <2>1, <2>4 DEF Stop, User, NoTable
<1> QED
  BY <1>1, <1>2, <1>3, <1>4, <1>5, <1>6, <1>7, <1>8, <1>9, <1>10, <1>11
  DEF FrontendStep, FrontendNext, UiStep, HandleEvent, UserStep

-----------------------------------------------------------------------------
(***************************************************************************)
(* The frontend's types, and the pipes.                                    *)
(***************************************************************************)

(* A file has finitely many breakpoints, which are sent one by one.         *)
LEMMA LinesInSequence ==
  ASSUME NEW S \in SUBSET Lines
  PROVE  \E n \in Nat : SetToSeq(S) \in [1..n -> S]
<1>1. IsFiniteSet(S)
  BY FS_Subset, FrontendAssumption
<1>2. Cardinality(S) \in Nat /\ \E f \in [1..Cardinality(S) -> S] : IsInjective(f)
  BY <1>1, FS_CardinalityType DEF ExistsBijection, Bijection, Injection
<1>3. SetToSeq(S) \in [1..Cardinality(S) -> S]
  BY <1>2 DEF SetToSeq
<1> QED
  BY <1>2, <1>3

LEMMA ReplyType ==
  ASSUME NEW i \in Index, NEW S \in SUBSET Lines
  PROVE  LoadReply(i, SetToSeq(S)) \in Seq(Command)
<1> DEFINE lines == SetToSeq(S)
           toggles == [k \in DOMAIN lines |->
                         [id |-> "ToggleBreakpoint", index |-> i, line |-> lines[k]]]
<1>1. PICK n \in Nat : lines \in [1..n -> S]
  BY LinesInSequence
<1>4. toggles \in Seq(Command)
  <2>1. \A k \in DOMAIN lines :
          [id |-> "ToggleBreakpoint", index |-> i, line |-> lines[k]] \in Command
    BY <1>1 DEF Command
  <2>2. DOMAIN lines = 1..n
    BY <1>1
  <2>3. toggles \in [1..n -> Command]
    BY <2>1, <2>2
  <2> QED
    BY <1>1, <2>3
<1>5. [id |-> "LoadDone"] \in Command
  BY DEF Command
<1> HIDE DEF toggles
<1>6. Append(toggles, [id |-> "LoadDone"]) \in Seq(Command)
  BY <1>4, <1>5, AppendProperties
<1> QED
  BY <1>6 DEF toggles, LoadReply

(* The event the UI thread takes from its queue.                            *)
LEMMA NextPending ==
  ASSUME FrontendTypeOK, PendingOK, pending # <<>>
  PROVE  /\ Head(pending) \in Queued /\ Head(pending) = pending[1]
         /\ Tail(pending) \in Seq(Queued)
         /\ Len(pending) \in Nat \ {0} /\ DOMAIN pending = 1..Len(pending)
         /\ Len(Tail(pending)) = Len(pending) - 1
         /\ DOMAIN Tail(pending) = 1..Len(pending) - 1
         /\ \A k \in 1..Len(pending) - 1 : Tail(pending)[k] = pending[k + 1]
         /\ Head(pending).id = "LoadScript"
              => /\ Head(pending).index \in 1..Len(frontendScripts)
                 /\ frontendScripts[Head(pending).index] \in Scripts
         /\ Head(pending).id = "SessionEnd" => Len(pending) = 1
<1>1. pending \in Seq(Queued) /\ frontendScripts \in Seq(Scripts)
  BY DEF FrontendTypeOK
<1>2. /\ Head(pending) \in Queued /\ Head(pending) = pending[1]
      /\ Tail(pending) \in Seq(Queued)
      /\ Len(pending) \in Nat \ {0} /\ DOMAIN pending = 1..Len(pending)
      /\ Len(Tail(pending)) = Len(pending) - 1
      /\ DOMAIN Tail(pending) = 1..Len(pending) - 1
      /\ \A k \in 1..Len(pending) - 1 : Tail(pending)[k] = pending[k + 1]
  BY <1>1, EmptySeq, LenProperties, HeadTailProperties
<1>3. ASSUME Head(pending).id = "LoadScript"
      PROVE  /\ Head(pending).index \in 1..Len(frontendScripts)
             /\ frontendScripts[Head(pending).index] \in Scripts
  <2>1. pending[1] \in [id : {"LoadScript"}, index : 1..Len(frontendScripts)]
    BY <1>2, <1>3 DEF PendingOK
  <2> QED
    BY <1>1, <1>2, <2>1
<1>4. Head(pending).id = "SessionEnd" => Len(pending) = 1
  BY <1>2 DEF PendingOK
<1> QED
  BY <1>2, <1>3, <1>4

(* What a message of each kind carries.                                     *)
LEMMA QueuedFields ==
  ASSUME NEW e \in Queued
  PROVE  /\ e.id \in {"CreateVM", "DestroyVM", "LoadError", "Message", "LoadScript",
                      "Break", "Exception", "SetBreakpoint", "SessionEnd"}
         /\ e.id \in {"CreateVM", "DestroyVM", "Break"} => e.vm \in LuaThreads
         /\ e.id = "Exception" => e.error \in Errors
         /\ e.id = "SetBreakpoint" => e.index \in Nat /\ e.line \in Lines /\ e.set \in BOOLEAN
<1>1. ASSUME NEW f \in Event
      PROVE  /\ f.id \in {"CreateVM", "DestroyVM", "LoadError", "Message", "LoadScript",
                          "Break", "Exception", "SetBreakpoint"}
             /\ f.id \in {"CreateVM", "DestroyVM", "Break"} => f.vm \in LuaThreads
             /\ f.id = "Exception" => f.error \in Errors
             /\ f.id = "SetBreakpoint" => f.index \in Nat /\ f.line \in Lines /\ f.set \in BOOLEAN
  BY DEF Event, Index
<1> QED
  BY <1>1 DEF Queued

(* What the event thread puts in the UI thread's queue.                     *)
Translated(e) ==
  IF e.id = "LoadScript"
  THEN [id |-> "LoadScript", index |-> Len(frontendScripts) + 1] ELSE e

LEMMA NextEvent ==
  ASSUME ChannelTypeOK, FrontendTypeOK, events # <<>>
  PROVE  /\ Head(events) \in Event /\ Head(events) = events[1]
         /\ Head(events).id = "LoadScript" => Head(events).script \in Scripts
         /\ Translated(Head(events)) \in Queued
         /\ Head(events).id # "SessionEnd"
         /\ Tail(events) \in Seq(Event)
         /\ Len(events) \in Nat \ {0} /\ DOMAIN events = 1..Len(events)
         /\ Len(Tail(events)) = Len(events) - 1
         /\ DOMAIN Tail(events) = 1..Len(events) - 1
         /\ \A k \in 1..Len(events) - 1 : Tail(events)[k] = events[k + 1]
<1>1. events \in Seq(Event) /\ frontendScripts \in Seq(Scripts)
  BY DEF ChannelTypeOK, FrontendTypeOK
<1>2. /\ Head(events) \in Event /\ Head(events) = events[1]
      /\ Tail(events) \in Seq(Event)
      /\ Len(events) \in Nat \ {0} /\ DOMAIN events = 1..Len(events)
      /\ Len(Tail(events)) = Len(events) - 1
      /\ DOMAIN Tail(events) = 1..Len(events) - 1
      /\ \A k \in 1..Len(events) - 1 : Tail(events)[k] = events[k + 1]
  BY <1>1, EmptySeq, LenProperties, HeadTailProperties
<1>3. Head(events).id # "SessionEnd"
  BY <1>2 DEF Event
<1>4. Head(events).id = "LoadScript" => Head(events).script \in Scripts
  BY <1>2 DEF Event
<1>5. Translated(Head(events)) \in Queued
  <2>1. [id |-> "LoadScript", index |-> Len(frontendScripts) + 1] \in Queued
    BY <1>1 DEF Queued, Index
  <2>2. Head(events) \in Queued
    BY <1>2 DEF Queued
  <2> QED
    BY <2>1, <2>2 DEF Translated
<1> QED
  BY <1>2, <1>3, <1>4, <1>5

LEMMA PopKeeps ==
  ASSUME FrontendTypeOK, PendingOK, pending # <<>>, pending' = Tail(pending),
         UNCHANGED <<frontendScripts, eventThread>>, Live' => Live
  PROVE  pending' \in Seq(Queued) /\ PendingOK'
<1>1. pending' \in Seq(Queued)
  BY NextPending
<1>2. ASSUME NEW k \in DOMAIN pending'
      PROVE  /\ k + 1 \in DOMAIN pending /\ pending'[k] = pending[k + 1]
             /\ Len(pending') = Len(pending) - 1 /\ k \in Nat /\ Len(pending) \in Nat
  BY <1>2, NextPending
<1>3. PendingOK'
  BY <1>2 DEF PendingOK
<1> QED
  BY <1>1, <1>3

LEMMA AppendKeeps ==
  ASSUME FrontendTypeOK, PendingOK, NEW e \in Queued, pending' = Append(pending, e),
         eventThread = "reading",
         e.id = "SessionEnd" => eventThread' = "ended",
         e.id = "LoadScript"
           => e \in [id : {"LoadScript"}, index : 1..Len(frontendScripts')],
         Len(frontendScripts') \in Nat, Len(frontendScripts) <= Len(frontendScripts'),
         eventThread' = "ended" => ~Live'
  PROVE  pending' \in Seq(Queued) /\ PendingOK'
<1>0. pending \in Seq(Queued) /\ Len(frontendScripts) \in Nat
  BY DEF FrontendTypeOK
<1>1. pending' \in Seq(Queued)
  BY <1>0, AppendProperties
<1>2. /\ DOMAIN pending = 1..Len(pending) /\ Len(pending) \in Nat
      /\ DOMAIN pending' = 1..Len(pending) + 1 /\ Len(pending') = Len(pending) + 1
      /\ \A k \in 1..Len(pending) : pending'[k] = pending[k]
      /\ pending'[Len(pending) + 1] = e
  BY <1>0, AppendProperties
<1>3. ASSUME NEW k \in DOMAIN pending'
      PROVE  /\ pending'[k].id = "LoadScript"
                  => pending'[k] \in [id : {"LoadScript"}, index : 1..Len(frontendScripts')]
             /\ pending'[k].id = "SessionEnd"
                  => k = Len(pending') /\ eventThread' = "ended"
  <2>1. CASE k = Len(pending) + 1
    BY <1>2, <2>1
  <2>2. CASE k \in DOMAIN pending
    <3>1. pending'[k] = pending[k] /\ pending[k].id # "SessionEnd"
      BY <1>2, <2>2 DEF PendingOK
    <3>2. ASSUME pending[k].id = "LoadScript"
          PROVE  pending[k] \in [id : {"LoadScript"}, index : 1..Len(frontendScripts')]
      <4>1. pending[k] \in [id : {"LoadScript"}, index : 1..Len(frontendScripts)]
        BY <2>2, <3>2 DEF PendingOK
      <4>2. 1..Len(frontendScripts) \subseteq 1..Len(frontendScripts')
        BY <1>0
      <4> QED
        BY <4>1, <4>2
    <3> QED
      BY <3>1, <3>2
  <2> QED
    BY <1>2, <2>1, <2>2
<1>4. PendingOK'
  BY <1>3 DEF PendingOK
<1> QED
  BY <1>1, <1>4

LEMMA FrontendKeepsTypes ==
  ASSUME ChannelTypeOK, FrontendTypeOK, PendingOK, Live' => Live, FrontendStep
  PROVE  FrontendTypeOK' /\ PendingOK'
<1> USE ProtocolAssumption DEF Handle
<1>1. ASSUME frontendScripts' = frontendScripts, pending' = pending,
             \/ eventThread' = eventThread
             \/ eventThread' = "ended" /\ ~Live'
      PROVE  pending' \in Seq(Queued) /\ PendingOK'
  <2>1. pending' \in Seq(Queued)
    BY <1>1 DEF FrontendTypeOK
  <2>2. Len(pending') = Len(pending) /\ Len(frontendScripts') = Len(frontendScripts)
    BY <1>1
  <2>3. PendingOK'
    BY <1>1, <2>2 DEF PendingOK
  <2> QED
    BY <2>1, <2>3
<1>2. CASE ReadEvent
  <2> DEFINE e == Head(events)
  <2>1. /\ eventThread = "reading" /\ eventThread' = eventThread
        /\ pending' = Append(pending, Translated(e))
        /\ frontendScripts' = IF e.id = "LoadScript" THEN Append(frontendScripts, e.script)
                                                     ELSE frontendScripts
        /\ state' \in States
        /\ UNCHANGED <<ui, resume, dialog, vm, vmList, project, processAlive, userActions>>
    BY <1>2 DEF ReadEvent, Translated, States, FrontendTypeOK
  <2>2. /\ e \in Event /\ Translated(e) \in Queued /\ e.id # "SessionEnd"
        /\ e.id = "LoadScript" => e.script \in Scripts
    BY <1>2, NextEvent DEF ReadEvent
  <2>3. /\ frontendScripts' \in Seq(Scripts) /\ Len(frontendScripts') \in Nat
        /\ Len(frontendScripts) \in Nat
        /\ Len(frontendScripts') = IF e.id = "LoadScript" THEN Len(frontendScripts) + 1
                                                          ELSE Len(frontendScripts)
    BY <2>1, <2>2, AppendProperties DEF FrontendTypeOK
  <2>4. /\ Translated(e).id = "LoadScript"
            => Translated(e) \in [id : {"LoadScript"}, index : 1..Len(frontendScripts')]
        /\ Translated(e).id # "SessionEnd"
    BY <2>2, <2>3 DEF Translated
  <2>5. pending' \in Seq(Queued) /\ PendingOK'
    BY <2>1, <2>2, <2>3, <2>4, AppendKeeps
  <2> QED
    BY <2>1, <2>3, <2>5 DEF FrontendTypeOK, project
<1>3. CASE ReadEventFails(BackendClosed)
  <2>1. [id |-> "SessionEnd"] \in Queued
    BY DEF Queued
  <2>2. Len(frontendScripts) \in Nat /\ UNCHANGED frontendScripts
    BY <1>3 DEF ReadEventFails, FrontendTypeOK
  <2>3. ~Live'
    BY <1>3 DEF ReadEventFails, BackendClosed, Live
  <2>4. pending' \in Seq(Queued) /\ PendingOK'
    BY <1>3, <2>1, <2>2, <2>3, AppendKeeps DEF ReadEventFails
  <2> QED
    BY <1>3, <2>4 DEF ReadEventFails, FrontendTypeOK, project
<1>4. CASE HandleEvent /\ ~OnSessionEnd
  <2>1. /\ pending # <<>> /\ pending' = Tail(pending)
        /\ UNCHANGED <<frontendScripts, eventThread>>
    BY <1>4 DEF HandleEvent, OnLoadScript, OnSetBreakpoint, OnCreateVM, OnDestroyVM,
       OnBreak, OnException, OnLoadError, OnMessage
  <2>2. pending' \in Seq(Queued) /\ PendingOK'
    BY <2>1, PopKeeps
  <2>3. Head(pending) \in Queued
    BY <2>1, NextPending
  <2>4. CASE OnLoadScript
    BY <2>1, <2>2, <2>4, NextPending DEF OnLoadScript, FrontendTypeOK, Index
  <2>5. CASE OnSetBreakpoint
    <3>1. Head(pending).line \in Lines
      BY <2>3, <2>5, QueuedFields DEF OnSetBreakpoint
    <3>2. fileBreakpoints' \in [Scripts -> SUBSET Lines]
      BY <2>5, <3>1 DEF OnSetBreakpoint, WithBreakpoint, FrontendTypeOK
    <3> QED
      BY <2>2, <2>5, <3>2 DEF OnSetBreakpoint, FrontendTypeOK
  <2>6. CASE OnCreateVM \/ OnDestroyVM
    <3>1. Head(pending).vm \in LuaThreads
      BY <2>3, <2>6, QueuedFields DEF OnCreateVM, OnDestroyVM
    <3> QED
      BY <2>2, <2>6, <3>1 DEF OnCreateVM, OnDestroyVM, VmsWithout, FrontendTypeOK, project
  <2>7. CASE OnBreak
    <3>1. Head(pending).vm \in LuaThreads
      BY <2>3, <2>7, QueuedFields DEF OnBreak
    <3> QED
      BY <2>2, <2>7, <3>1 DEF OnBreak, FrontendTypeOK, project
  <2>8. CASE OnException \/ OnLoadError \/ OnMessage
    <3>1. OnException => Head(pending).error \in Errors
      BY <2>3, QueuedFields DEF OnException
    <3>2. dialog' \in Seq(Dialog)
      <4>1. dialog \in Seq(Dialog)
        BY DEF FrontendTypeOK
      <4>2. ASSUME NEW d \in Dialog PROVE <<d>> \o dialog \in Seq(Dialog)
        BY <4>1
      <4>3. OnException => [id |-> "Exception", error |-> Head(pending).error] \in Dialog
        BY <3>1 DEF Dialog
      <4>4. [id |-> "LoadError"] \in Dialog
        BY DEF Dialog
      <4> QED
        BY <2>8, <4>1, <4>2, <4>3, <4>4 DEF OnException, OnLoadError, OnMessage
    <3> QED
      BY <2>2, <2>8, <3>2 DEF OnException, OnLoadError, OnMessage, FrontendTypeOK, project
  <2> QED
    BY <1>4, <2>4, <2>5, <2>6, <2>7, <2>8 DEF HandleEvent
<1>5. CASE OnSessionEnd
  <2>1. Len(pending) = 1 /\ pending' = Tail(pending) /\ Len(Tail(pending)) = 0
        /\ Tail(pending) \in Seq(Queued)
    BY <1>5, NextPending DEF OnSessionEnd
  <2>2. pending' = <<>>
    BY <2>1, EmptySeq
  <2>3. PendingOK'
    BY <1>5, <2>2 DEF OnSessionEnd, PendingOK
  <2> QED
    BY <1>5, <2>2, <2>3 DEF OnSessionEnd, FrontendTypeOK, States, Index
<1>a. ASSUME UNCHANGED <<frontendScripts, pending, eventThread, vmList, fileScript>>,
             ui' \in {"idle", "resume", "evaluate", "flush", "flushKill", "join",
                      "joinKill", "dead"},
             state' \in States, resume' \in ResumeCommands, dialog' \in Seq(Dialog),
             vm' \in LuaThreads \cup {Nobody}, processAlive' \in BOOLEAN,
             fileBreakpoints' \in [Scripts -> SUBSET Lines],
             userActions' \in 0..MaxUserActions
      PROVE  FrontendTypeOK' /\ PendingOK'
  <2>1. pending' \in Seq(Queued) /\ PendingOK'
    BY <1>1, <1>a
  <2>2. /\ frontendScripts' \in Seq(Scripts) /\ eventThread' \in {"reading", "ended"}
        /\ vmList' \subseteq LuaThreads /\ fileScript' \in [Scripts -> Index]
    BY <1>a DEF FrontendTypeOK
  <2> QED
    BY <1>a, <2>1, <2>2, Zenon DEF FrontendTypeOK
<1>b. /\ ui \in {"idle", "resume", "evaluate", "flush", "flushKill", "join",
                 "joinKill", "dead"}
      /\ state \in States /\ resume \in ResumeCommands /\ dialog \in Seq(Dialog)
      /\ vm \in LuaThreads \cup {Nobody} /\ processAlive \in BOOLEAN
      /\ fileBreakpoints \in [Scripts -> SUBSET Lines]
      /\ userActions \in 0..MaxUserActions
  BY DEF FrontendTypeOK
<1>c. userActions > 0 /\ userActions' = userActions - 1 => userActions' \in 0..MaxUserActions
  BY <1>b, FrontendAssumption
<1>6. CASE EvaluateReturns(BackendClosed) \/ SendResume
  BY <1>a, <1>b, <1>6 DEF EvaluateReturns, SendResume, project
<1>7. CASE StopFlush(BackendClosed) \/ StopJoin
  <2>1. processAlive' \in BOOLEAN
    BY <1>b, <1>7, Zenon DEF StopFlush, StopJoin
  <2> QED
    BY <1>a, <1>b, <1>7, <2>1 DEF StopFlush, StopJoin, project
<1>8. CASE CloseDialog
  <2>1. dialog' \in Seq(Dialog)
    <3>1. dialog # <<>> /\ dialog' = Tail(dialog)
      BY <1>8 DEF CloseDialog, CloseException, CloseLoadError, Close
    <3> QED
      BY <1>b, <3>1
  <2> QED
    BY <1>a, <1>b, <1>8, <2>1 DEF CloseDialog, Close, CloseException, CloseLoadError,
       BeginResume, project, States, ResumeCommands
<1>9. CASE \E m \in ResumeCommands : UserResume(m)
  BY <1>a, <1>b, <1>c, <1>9 DEF UserResume, User, BeginResume, project, States
<1>10. CASE UserBreak \/ UserDeleteAllBreakpoints
  <2>1. fileBreakpoints' \in [Scripts -> SUBSET Lines]
    BY <1>b, <1>10 DEF UserBreak, UserDeleteAllBreakpoints, project
  <2> QED
    BY <1>a, <1>b, <1>c, <1>10, <2>1 DEF UserBreak, UserDeleteAllBreakpoints, User, project
<1>11. CASE \E s \in Scripts, l \in Lines : UserToggleBreakpoint(s, l)
  <2>1. PICK s \in Scripts, l \in Lines : UserToggleBreakpoint(s, l)
    BY <1>11
  <2>2. fileBreakpoints' \in [Scripts -> SUBSET Lines]
    BY <1>b, <2>1 DEF UserToggleBreakpoint, SymDiff
  <2> QED
    BY <1>a, <1>b, <1>c, <2>1, <2>2 DEF UserToggleBreakpoint, User
<1>12. CASE \E kill \in BOOLEAN : Stop(kill)
  BY <1>a, <1>b, <1>c, <1>12 DEF Stop, User, project
<1>13. CASE Die
  <2>1. ~Live'
    BY <1>13 DEF Die, Live
  <2> QED
    BY <1>1, <1>13, <2>1 DEF Die, FrontendTypeOK, project
<1> QED
  BY <1>2, <1>3, <1>4, <1>5, <1>6, <1>7, <1>8, <1>9, <1>10, <1>11, <1>12, <1>13
  DEF FrontendStep, FrontendNext, EventThreadStep, UiStep, HandleEvent, UserStep

LEMMA SentIsAllowed ==
  ASSUME ChannelTypeOK, NEW msgs \in Seq(Command), Sent(msgs)
  PROVE  /\ commands' \in Seq(Command)
         /\ Len(commands') >= Len(commands)
         /\ SubSeq(commands', 1, Len(commands)) = commands
<1>1. commands \in Seq(Command)
  BY DEF ChannelTypeOK
<1>2. commands \o msgs \in Seq(Command)
      /\ Len(commands \o msgs) = Len(commands) + Len(msgs)
      /\ SubSeq(commands \o msgs, 1, Len(commands)) = commands
  BY <1>1, ConcatProperties, SubSeqOfConcat1, SubSeqFull, LenProperties
<1>3. SubSeq(commands, 1, Len(commands)) = commands
  BY <1>1, SubSeqFull
<1> QED
  BY <1>1, <1>2, <1>3, LenProperties DEF Sent

(* The frontend only appends commands, takes the first event, takes an answer*)
(* and destroys its ends of the pipes.                                       *)
LEMMA FrontendAllowed ==
  ASSUME ChannelTypeOK, FrontendTypeOK, PendingOK, FrontendStep
  PROVE  Frontend
<1>1. \E msgs \in Seq(Command) : Sent(msgs)
  <2>1. ASSUME UNCHANGED commands PROVE \E msgs \in Seq(Command) : Sent(msgs)
    BY <2>1, NoRequest DEF RequestsOnly, Requests
  <2>2. ASSUME RequestsOnly PROVE \E msgs \in Seq(Command) : Sent(msgs)
    BY <2>2 DEF RequestsOnly, Requests
  <2>3. CASE OnLoadScript
    <3> DEFINE i == Head(pending).index
               s == frontendScripts[i]
    <3>1. i \in Index /\ fileBreakpoints[s] \subseteq Lines
      BY <2>3, NextPending DEF OnLoadScript, Handle, FrontendTypeOK, Index
    <3>2. LoadReply(i, SetToSeq(fileBreakpoints[s])) \in Seq(Command)
      BY <3>1, ReplyType
    <3>3. Sent(LoadReply(i, SetToSeq(fileBreakpoints[s])))
      BY <2>3, SendSends DEF OnLoadScript
    <3> QED
      BY <3>2, <3>3
  <2>4. CASE \E s \in Scripts, l \in Lines : TogglesFile(s, l)
    <3>1. PICK s \in Scripts, l \in Lines : TogglesFile(s, l)
      BY <2>4
    <3> DEFINE msg == [id |-> "ToggleBreakpoint", index |-> fileScript[s], line |-> l]
    <3>2. <<msg>> \in Seq(Command)
      <4>1. msg \in Command
        BY DEF FrontendTypeOK, Command
      <4> QED
        BY <4>1
    <3> QED
      BY <2>1, <3>1, <3>2 DEF TogglesFile
  <2>5. CASE UserDeleteAllBreakpoints
    <3>1. <<[id |-> "DeleteAllBreakpoints"]>> \in Seq(Command)
      BY DEF Command
    <3> QED
      BY <2>5, <3>1, SendSends DEF UserDeleteAllBreakpoints
  <2>6. CASE ReadEvent \/ ReadEventFails(BackendClosed) \/ OnSetBreakpoint \/ OnCreateVM
             \/ OnDestroyVM \/ Tells \/ Ends \/ NoTable
    BY <2>1, <2>2, <2>6 DEF ReadEvent, ReadEventFails, OnSetBreakpoint, OnCreateVM,
       OnDestroyVM, Tells, Ends, NoTable, NoPipe, channelVars
  <2> QED
    BY <2>3, <2>4, <2>5, <2>6, FrontendEffects DEF FrontendEffect
<1>2. /\ commands' \in Seq(Command)
      /\ Len(commands') >= Len(commands)
      /\ SubSeq(commands', 1, Len(commands)) = commands
  BY <1>1, SentIsAllowed
<1>3. /\ events' = events \/ (events # <<>> /\ events' = Tail(events))
      /\ reply' = reply \/ reply' = FALSE
      /\ eventsOpen' = eventsOpen \/ eventsOpen' = FALSE
      /\ commandsOpen' = commandsOpen \/ commandsOpen' = FALSE
  BY DEF FrontendStep, FrontendNext, EventThreadStep, ReadEvent, ReadEventFails,
     UiStep, HandleEvent, OnLoadScript, OnSetBreakpoint, OnCreateVM, OnDestroyVM,
     OnBreak, OnException, OnLoadError, OnMessage, OnSessionEnd, EvaluateReturns, SendResume,
     StopFlush, StopJoin, CloseDialog, Close, CloseException, CloseLoadError, UserStep, UserResume,
     UserBreak, UserToggleBreakpoint, UserDeleteAllBreakpoints, Stop, Die, Send,
     NoPipe, channelVars, pipeEnds
<1>4. UNCHANGED backendVars
  BY DEF FrontendStep
<1> QED
  BY <1>2, <1>3, <1>4 DEF Frontend

-----------------------------------------------------------------------------
LEMMA SessionInvInit == SessionInit => SessionInv
<1> SUFFICES ASSUME SessionInit PROVE SessionInv
  OBVIOUS
<1>1. TypeInv /\ LockInv
  BY TypeInvInit, LockInvInit DEF SessionInit
<1>2. \A t \in LuaThreads : pc[t] \in {"host", "lua"}
  BY DEF SessionInit, Init, BackendInit
<1>3. PlacesInv
  BY <1>2 DEF PlacesInv, Crashed
<1>4. frontendScripts = <<>> /\ pending = <<>> /\ eventThread = "reading"
  BY DEF SessionInit, FrontendInit
<1>5. PendingOK
  BY <1>4 DEF PendingOK
<1>6. FrontendTypeOK
  <2>1. <<>> \in Seq(Scripts) /\ <<>> \in Seq(Queued)
    BY EmptySeq
  <2>2. /\ fileScript \in [Scripts -> Index]
        /\ fileBreakpoints \in [Scripts -> SUBSET Lines]
        /\ userActions \in 0..MaxUserActions
        /\ state \in States /\ resume \in ResumeCommands
    BY FrontendAssumption
    DEF SessionInit, FrontendInit, Index, States, ResumeCommands
  <2>3. processAlive \in BOOLEAN
    BY Zenon DEF SessionInit, FrontendInit
  <2> QED
    BY <1>4, <2>1, <2>2, <2>3 DEF SessionInit, FrontendInit, FrontendTypeOK
<1> QED
  BY <1>1, <1>3, <1>5, <1>6 DEF SessionInv

LEMMA SessionInvNext == SessionInv /\ [SessionNext]_sessionVars => SessionInv'
<1> SUFFICES ASSUME SessionInv, [SessionNext]_sessionVars PROVE SessionInv'
  OBVIOUS
<1> USE DEF SessionInv
<1>0. ChannelTypeOK /\ (Live' => Live)
  BY LiveBefore DEF TypeInv, TypeOK
<1>1. ASSUME UNCHANGED frontendVars PROVE FrontendTypeOK' /\ PendingOK'
  <2>1. FrontendTypeOK'
    BY <1>1, Zenon DEF frontendVars, project, FrontendTypeOK
  <2>2. PendingOK'
    BY <1>0, <1>1 DEF frontendVars, PendingOK
  <2> QED
    BY <2>1, <2>2
<1>2. ASSUME UNCHANGED vars PROVE TypeInv' /\ LockInv' /\ PlacesInv'
  <2>1. TypeInv' /\ LockInv'
    BY <1>2, TypeInvNext, LockInvNext
  <2>2. PlacesInv'
    BY <1>2 DEF vars, backendVars, threads, command, signals, PlacesInv, Crashed
  <2> QED
    BY <2>1, <2>2
<1>3. CASE UNCHANGED sessionVars
  BY <1>1, <1>2, <1>3 DEF sessionVars
<1>4. CASE BackendStep
  <2>1. BackendNext /\ ~Crashed
    BY <1>4 DEF BackendStep, BackendNext
  <2>2. TypeInv' /\ LockInv'
    BY <2>1, TypeInvNext, LockInvNext DEF Next
  <2>3. PlacesInv'
    BY <2>1, PlacesThread, PlacesCommand, CommandEffects DEF BackendNext
  <2> QED
    BY <1>1, <1>4, <2>2, <2>3 DEF BackendStep
<1>5. CASE FrontendStep
  <2>1. FrontendTypeOK' /\ PendingOK'
    BY <1>0, <1>5, FrontendKeepsTypes
  <2>2. Frontend
    BY <1>0, <1>5, FrontendAllowed
  <2>3. TypeInv' /\ LockInv'
    BY <2>2, TypeInvNext, LockInvNext DEF Next
  <2>4. PlacesInv'
    BY <2>2 DEF Frontend, backendVars, threads, command, signals, PlacesInv, Crashed
  <2> QED
    BY <2>1, <2>3, <2>4
<1>6. CASE ProcessEnds
  <2>1. FrontendTypeOK'
    BY <1>6, Zenon DEF ProcessEnds, project, FrontendTypeOK
  <2>2. PendingOK'
    BY <1>0, <1>6 DEF ProcessEnds, PendingOK
  <2> QED
    BY <1>2, <1>6, <2>1, <2>2 DEF ProcessEnds
<1> QED
  BY <1>3, <1>4, <1>5, <1>6 DEF SessionNext

LEMMA SessionInvariant == SessionSpec => []SessionInv
BY SessionInvInit, SessionInvNext, PTL DEF SessionSpec

(* The frontend keeps its types: the events it handles carry what the       *)
(* handlers read, a script's index is one of its table, and it never counts *)
(* a user's action it does not have.                                        *)
THEOREM FrontendTypes == SessionSpec => []FrontendTypeOK
<1>1. SessionInv => FrontendTypeOK
  BY DEF SessionInv
<1> QED
  BY <1>1, SessionInvariant, PTL

(* In a session the backend lives with a frontend it expects: every step of *)
(* the frontend is one Frontend allows, so that what is proved of the       *)
(* backend with any frontend holds of the backend in every session.         *)
THEOREM SessionImplementsBackend == SessionSpec => BackendUnderSession
<1>1. SessionInit => Init
  BY DEF SessionInit
<1>2. SessionInv /\ [SessionNext]_sessionVars => [Next]_vars
  <2> SUFFICES ASSUME SessionInv, [SessionNext]_sessionVars PROVE [Next]_vars
    OBVIOUS
  <2>1. CASE FrontendStep
    <3>1. Frontend
      BY <2>1, FrontendAllowed DEF SessionInv, TypeInv, TypeOK
    <3> QED
      BY <3>1 DEF Next
  <2>2. CASE BackendStep
    BY <2>2 DEF BackendStep, Next
  <2>3. CASE ProcessEnds \/ UNCHANGED sessionVars
    BY <2>3 DEF ProcessEnds, sessionVars
  <2> QED
    BY <2>1, <2>2, <2>3 DEF SessionNext
<1> QED
  BY <1>1, <1>2, SessionInvariant, PTL DEF SessionSpec, BackendUnderSession, Spec

-----------------------------------------------------------------------------
(***************************************************************************)
(* Stepping.                                                               *)
(***************************************************************************)

(* A Break is neither on its way nor half done.                             *)
NoBreak ==
  /\ commandPc # "break"
  /\ \A k \in DOMAIN commands : commands[k].id # "Break"

(* While the user steps every hook is full, except the one that is off for  *)
(* an evaluation; the one that a thread is about to install is full too.    *)
StepInv ==
  /\ NoBreak
  /\ commandPc = "read" => evalVm = Nobody
  /\ mode # "Continue" =>
       /\ \A t \in LuaThreads : pc[t] = "setHook" => newHookMode = "Full"
       /\ GetIsAttached => \A t \in vms \ {evalVm} : hookMode[t] = "Full"

(* What is sent without a Break leaves the pipe without one.                *)
LEMMA SentWithoutBreak ==
  ASSUME ChannelTypeOK, NoBreak, NEW msgs \in Seq(Command), Sent(msgs),
         \A k \in DOMAIN msgs : msgs[k].id # "Break", commandPc' = commandPc
  PROVE  NoBreak'
<1>1. ASSUME NEW k \in DOMAIN (commands \o msgs)
      PROVE  (commands \o msgs)[k].id # "Break"
  <2>1. commands \in Seq(Command)
    BY DEF ChannelTypeOK
  <2>2. k \in 1..(Len(commands) + Len(msgs))
    BY <1>1, <2>1
  <2>3. CASE k <= Len(commands)
    BY <2>1, <2>2, <2>3 DEF NoBreak
  <2>4. CASE k > Len(commands)
    BY <2>1, <2>2, <2>4
  <2> QED
    BY <2>1, <2>2, <2>3, <2>4
<1> QED
  BY <1>1 DEF NoBreak, Sent

(* The frontend sends a Break only when the user asks for one.              *)
LEMMA FrontendSendsNoBreak ==
  ASSUME "Break" \notin UserMay, SessionInv, NoBreak, FrontendStep
  PROVE  NoBreak'
<1>0. ChannelTypeOK /\ FrontendTypeOK /\ commandPc' = commandPc
  BY DEF SessionInv, TypeInv, TypeOK, FrontendStep, backendVars, command
<1>1. CASE RequestsOnly
  <2>1. PICK msgs \in Requests : Sent(msgs)
    BY <1>1 DEF RequestsOnly
  <2> QED
    BY <1>0, <2>1, SentWithoutBreak DEF Requests
<1>2. CASE UNCHANGED commands
  BY <1>0, <1>2 DEF NoBreak
<1>3. CASE OnLoadScript
  <2> DEFINE i == Head(pending).index
             S == fileBreakpoints[frontendScripts[i]]
  <2>1. Sent(LoadReply(i, SetToSeq(S)))
    BY <1>3, SendSends DEF OnLoadScript
  <2>2. i \in Index /\ S \in SUBSET Lines
    <3>1. i \in 1..Len(frontendScripts) /\ frontendScripts \in Seq(Scripts)
      BY <1>0, <1>3, NextPending DEF SessionInv, PendingOK, OnLoadScript, Handle,
         FrontendTypeOK
    <3>2. frontendScripts[i] \in Scripts /\ i \in Nat
      BY <3>1
    <3> QED
      BY <1>0, <3>2 DEF FrontendTypeOK, Index
  <2> HIDE DEF i, S
  <2>3. LoadReply(i, SetToSeq(S)) \in Seq(Command)
    BY <2>2, ReplyType
  <2>4. \A k \in DOMAIN LoadReply(i, SetToSeq(S)) :
          LoadReply(i, SetToSeq(S))[k].id # "Break"
    <3>1. PICK n \in Nat : SetToSeq(S) \in [1..n -> S]
      BY <2>2, LinesInSequence
    <3> DEFINE lines == SetToSeq(S)
    <3> HIDE DEF lines
    <3> QED
      BY <3>1 DEF LoadReply, lines
  <2> QED
    BY <1>0, <2>1, <2>3, <2>4, SentWithoutBreak
<1>4. CASE \E s \in Scripts, l \in Lines : TogglesFile(s, l)
  <2>1. PICK s \in Scripts, l \in Lines : TogglesFile(s, l)
    BY <1>4
  <2>2. CASE fileScript[s] # 0
    <3> DEFINE msgs == <<[id |-> "ToggleBreakpoint", index |-> fileScript[s], line |-> l]>>
    <3>1. fileScript[s] \in Index
      BY <1>0 DEF FrontendTypeOK, Index
    <3>2. msgs \in Seq(Command)
      BY <3>1 DEF Command
    <3>3. Sent(msgs)
      BY <2>1, <2>2 DEF TogglesFile
    <3>4. \A k \in DOMAIN msgs : msgs[k].id # "Break"
      OBVIOUS
    <3> HIDE DEF msgs
    <3> QED
      BY <1>0, <3>2, <3>3, <3>4, SentWithoutBreak
  <2>3. CASE fileScript[s] = 0
    BY <1>2, <2>1, <2>3 DEF TogglesFile
  <2> QED
    BY <2>2, <2>3
<1>5. CASE UserDeleteAllBreakpoints
  <2> DEFINE msgs == <<[id |-> "DeleteAllBreakpoints"]>>
  <2>1. msgs \in Seq(Command)
    BY DEF Command
  <2>2. Sent(msgs)
    BY <1>5, SendSends DEF UserDeleteAllBreakpoints
  <2>3. \A k \in DOMAIN msgs : msgs[k].id # "Break"
    OBVIOUS
  <2> HIDE DEF msgs
  <2> QED
    BY <1>0, <2>1, <2>2, <2>3, SentWithoutBreak
<1> QED
  BY <1>0, <1>1, <1>2, <1>3, <1>4, <1>5, FrontendEffects
  DEF FrontendEffect, Tells, Ends, NoTable, ReadEvent, ReadEventFails, OnSetBreakpoint,
      OnCreateVM, OnDestroyVM, NoPipe, channelVars

(* A thread leaves the hooks full while the user steps: it installs a full  *)
(* one, or the state is gone from the backend.                              *)
LEMMA StepInvThread ==
  ASSUME TypeInv, LockInv, StepInv, NEW t \in LuaThreads, ThreadStep(t)
  PROVE  StepInv'
<1> USE DEF StepInv, NoBreak, GetIsAttached
<1>0. /\ UNCHANGED <<commandPc, evalVm, detachEvent, mode, commands>>
      /\ pc \in [LuaThreads -> Places] /\ hookMode \in [LuaThreads -> HookModes]
      /\ vms \subseteq LuaThreads
      /\ \A u \in LuaThreads : pc[u] = "setHook" => cs = u
  BY ThreadEffects
  DEF ThreadEffect, command, LockInv, LocksMatchPlaces, HoldsCs, TypeInv, TypeOK
<1>1. ASSUME NEW place, pc' = [pc EXCEPT ![t] = place], place # "setHook",
             vms' \ {t} \subseteq vms,
             hookMode' = hookMode \/ hookMode' = [hookMode EXCEPT ![t] = "Full"],
             t \in vms' => t \in vms \/ hookMode'[t] = "Full",
             newHookMode' = newHookMode
      PROVE  StepInv'
  <2>1. \A u \in LuaThreads : pc'[u] = "setHook" => pc[u] = "setHook"
    BY <1>0, <1>1
  <2>2. ASSUME NEW u \in vms' \ {evalVm}, u = t \/ u \in vms, mode # "Continue",
               GetIsAttached
        PROVE  hookMode'[u] = "Full"
    <3>1. u \notin vms => u = t /\ hookMode'[u] = "Full"
      BY <1>1, <2>2
    <3>2. CASE u \in vms
      <4>1. hookMode[u] = "Full"
        BY <2>2, <3>2
      <4>2. hookMode'[u] = hookMode[u] \/ (u = t /\ hookMode'[t] = "Full")
        <5>1. u \in LuaThreads
          BY <1>0, <3>2
        <5>2. CASE hookMode' = hookMode
          BY <5>2
        <5>3. CASE hookMode' = [hookMode EXCEPT ![t] = "Full"]
          BY <1>0, <5>1, <5>3
        <5> QED
          BY <1>1, <5>2, <5>3
      <4> QED
        BY <4>1, <4>2
    <3> QED
      BY <3>1, <3>2
  <2>3. \A u \in vms' \ {evalVm} : u = t \/ u \in vms
    BY <1>1
  <2> QED
    BY <1>0, <1>1, <2>1, <2>2, <2>3
<1>2. ASSUME UNCHANGED <<vms, hooks>>,
             \A u \in LuaThreads : pc'[u] = "setHook" => pc[u] = "setHook"
      PROVE  StepInv'
  BY <1>0, <1>2 DEF hooks
<1>3. CASE AttachState(t) \/ HookAttach(t)
  BY <1>0, <1>1, <1>3 DEF AttachState, HookAttach, AddVm, Goto
<1>4. CASE DetachState(t)
  BY <1>0, <1>4 DEF DetachState, Goto
<1>5. CASE HookInvoke(t) \/ \E s \in Scripts : LoadBuffer(t, s)
  BY <1>0, <1>2, <1>5 DEF HookInvoke, LoadBuffer, Goto
<1>6. CASE PostLoadRegister(t) \/ PostLoadError(t) \/ PostLoadReport(t)
  BY <1>0, <1>2, <1>6 DEF PostLoadRegister, PostLoadError, PostLoadReport, Goto, Return
<1>7. CASE PostLoadContinue(t) \/ PostLoadWait(t)
  BY <1>0, <1>2, <1>7 DEF PostLoadContinue, PostLoadWait, Goto, Return
<1>8. CASE HookCrash(t) \/ ErrorCrash(t) \/ StaleVmCrash(t) \/ RegisterWait(t)
  BY <1>0, <1>2, <1>8 DEF HookCrash, ErrorCrash, StaleVmCrash, RegisterWait, Goto
<1>9. CASE BreakFromScript(t) \/ SendBreakEvent(t) \/ WaitForContinue(t)
  BY <1>0, <1>2, <1>9 DEF BreakFromScript, SendBreakEvent, WaitForContinue, Goto, Return
<1>10. CASE ErrorBreak(t) \/ SendExceptionEvent(t)
  BY <1>0, <1>2, <1>10 DEF ErrorBreak, SendExceptionEvent, Goto
<1>11. CASE \E m \in Errors : ErrorHandler(t, m)
  BY <1>0, <1>2, <1>11 DEF ErrorHandler, Goto
<1>12. CASE HookRegister(t) \/ HookLine(t) \/ HookCallOrReturn(t)
  BY <1>0, <1>1, <1>12
  DEF HookRegister, HookLine, HookCallOrReturn, ForceFullHook, StopOrReturn, Goto, Return
<1>13. CASE UpdateHookMode(t)
  <2>1. UNCHANGED <<vms, hookMode>>
    BY <1>13 DEF UpdateHookMode
  <2>2. CASE UNCHANGED newHookMode /\ Return(t)
    BY <1>0, <1>2, <2>1, <2>2 DEF Return, Goto, hooks
  <2>3. CASE Goto(t, "setHook") /\ (mode # "Continue" => newHookMode' = "Full")
    <3>1. \A u \in LuaThreads : pc'[u] = "setHook" => u = t \/ pc[u] = "setHook"
      BY <1>0, <2>3 DEF Goto
    <3>2. mode # "Continue" => newHookMode' = "Full"
      BY <2>3
    <3> QED
      BY <1>0, <2>1, <3>1, <3>2
  <2> QED
    BY <1>13, <2>2, <2>3 DEF UpdateHookMode
<1>14. CASE SetHookMode(t)
  <2>1. UNCHANGED vms /\ hookMode' = [hookMode EXCEPT ![t] = newHookMode]
    BY <1>14 DEF SetHookMode
  <2>2. \A u \in LuaThreads : pc'[u] # "setHook"
    BY <1>0, <1>14 DEF SetHookMode, Return, Goto
  <2>3. mode # "Continue" => newHookMode = "Full"
    BY <1>14 DEF SetHookMode
  <2> QED
    BY <1>0, <2>1, <2>2, <2>3
<1> QED
  BY <1>3, <1>4, <1>5, <1>6, <1>7, <1>8, <1>9, <1>10, <1>11, <1>12, <1>13, <1>14
  DEF ThreadStep, LoadStep, HookStep, ErrorStep

(* A command that starts a step makes every hook full, and finds no thread  *)
(* about to install another: it waits for cs.                               *)
LEMMA StepInvCommand ==
  ASSUME TypeInv, LockInv, StepInv, CommandStep
  PROVE  StepInv'
<1> USE DEF StepInv, NoBreak, GetIsAttached
<1>0. /\ pc' = pc
      /\ vms \subseteq LuaThreads /\ hookMode \in [LuaThreads -> HookModes]
      /\ cs = Nobody => \A u \in LuaThreads : pc[u] # "setHook"
  BY CommandEffects, ProtocolAssumption
  DEF CommandEffect, threads, LockInv, LocksMatchPlaces, HoldsCs, TypeInv, TypeOK
<1>1. \A k \in DOMAIN commands' : commands'[k].id # "Break"
  <2>1. commands \in Seq(Command)
    BY DEF TypeInv, TypeOK, ChannelTypeOK
  <2>2. CASE commands # <<>> /\ commands' = Tail(commands)
    BY <2>1, <2>2
  <2> QED
    BY <2>2, CommandEffects DEF CommandEffect
<1>2. ASSUME commandPc' # "break", commandPc' # "read" \/ commandPc = "read",
             UNCHANGED <<vms, hooks, mode, evalVm>>, detachEvent => detachEvent'
      PROVE  StepInv'
  BY <1>0, <1>1, <1>2 DEF hooks
<1>3. CASE \E m \in Modes : Resume(m)
  <2>1. PICK m \in Modes : Resume(m)
    BY <1>3
  <2>2. cs = Nobody /\ mode' = m /\ commandPc = "read"
    BY <2>1 DEF Resume, FreeCs, NextCommand
  <2>3. UNCHANGED <<commandPc, evalVm, vms>>
    BY <2>1 DEF Resume, command
  <2>4. m # "Continue" => \A t \in vms : hookMode'[t] = "Full"
    BY <1>0, <2>1 DEF Resume, ActiveLuaHookInAllVms
  <2> QED
    BY <1>0, <1>1, <2>2, <2>3, <2>4
<1>4. CASE Break
  <2>1. commands # <<>> /\ commands[1].id = "Break"
    BY <1>4 DEF Break, NextCommand
  <2>2. 1 \in DOMAIN commands
    BY <2>1 DEF TypeInv, TypeOK, ChannelTypeOK
  <2> QED
    BY <2>1, <2>2
<1>5. CASE BreakHooks
  BY <1>5 DEF BreakHooks
<1>6. CASE ToggleBreakpoint
  <2>1. /\ UNCHANGED <<vms, newHookMode, mode, commandPc, evalVm, detachEvent>>
        /\ commandPc = "read"
        /\ hookMode' = hookMode
             \/ hookMode' = [t \in LuaThreads |-> IF t \in vms THEN "Full" ELSE hookMode[t]]
    BY <1>6, Zenon
    DEF ToggleBreakpoint, ActiveLuaHookInAllVms, NextCommand, command, signals
  <2> QED
    BY <1>0, <1>1, <2>1
<1>7. CASE DeleteAllBreakpoints \/ LoadDone \/ IgnoreException
  BY <1>2, <1>7
  DEF DeleteAllBreakpoints, LoadDone, IgnoreException, NextCommand, command, signals
<1>8. CASE Evaluate
  <2>1. UNCHANGED <<vms, newHookMode, mode, detachEvent>> /\ commandPc = "read"
    BY <1>8 DEF Evaluate, signals, NextCommand
  <2>2. \/ UNCHANGED <<hookMode, commandPc, evalVm>>
        \/ \E t \in vms : /\ hookMode' = [hookMode EXCEPT ![t] = "None"]
                          /\ commandPc' = "evaluate" /\ evalVm' = t
    BY <1>8 DEF Evaluate, command
  <2>3. CASE UNCHANGED <<hookMode, commandPc, evalVm>>
    BY <1>0, <1>1, <2>1, <2>3
  <2>4. ASSUME NEW t \in vms, hookMode' = [hookMode EXCEPT ![t] = "None"],
               commandPc' = "evaluate", evalVm' = t
        PROVE  StepInv'
    <3>1. evalVm \notin vms
      BY <1>0, <2>1, ProtocolAssumption
    <3>2. \A u \in vms \ {t} : hookMode'[u] = hookMode[u]
      BY <1>0, <2>4
    <3> QED
      BY <1>0, <1>1, <2>1, <2>4, <3>1, <3>2
  <2> QED
    BY <2>2, <2>3, <2>4
<1>9. CASE EvaluateFails \/ EvaluateStops \/ EvaluateReports \/ EvaluateGoesOn
  BY <1>2, <1>9
  DEF EvaluateFails, EvaluateStops, EvaluateReports, EvaluateGoesOn, command, signals
<1>10. CASE EvaluateDone
  <2>1. /\ UNCHANGED <<vms, newHookMode, mode, detachEvent>>
        /\ hookMode' = [hookMode EXCEPT ![evalVm] = "Full"]
        /\ commandPc' = "read" /\ evalVm' = Nobody /\ evalVm \in LuaThreads
    BY <1>10 DEF EvaluateDone, signals, TypeInv, EventsOK
  <2> QED
    BY <1>0, <1>1, <2>1
<1>11. CASE Detach
  <2>1. /\ detachEvent' /\ UNCHANGED <<newHookMode, mode, evalVm>>
        /\ commandPc' \in {"read", "cleanup"} /\ commandPc = "read"
    BY <1>11 DEF Detach, SignalDetached, NextCommand
  <2> QED
    BY <1>0, <1>1, <2>1
<1>12. CASE ReadFails
  BY <1>2, <1>12 DEF ReadFails, signals
<1>13. CASE Cleanup
  BY <1>0, <1>1, <1>13 DEF Cleanup, hooks
<1> QED
  BY <1>3, <1>4, <1>5, <1>6, <1>7, <1>8, <1>9, <1>10, <1>11, <1>12, <1>13 DEF CommandStep

LEMMA StepInvNext ==
  ASSUME "Break" \notin UserMay, SessionInv, StepInv, [SessionNext]_sessionVars
  PROVE  StepInv'
<1>1. CASE BackendStep
  BY <1>1, StepInvThread, StepInvCommand DEF SessionInv, BackendStep, BackendNext
<1>2. CASE FrontendStep
  <2>1. NoBreak'
    BY <1>2, FrontendSendsNoBreak DEF StepInv
  <2>2. UNCHANGED <<commandPc, evalVm, mode, pc, newHookMode, hookMode, vms, detachEvent>>
    BY <1>2 DEF FrontendStep, backendVars, command, threads, hooks, signals
  <2> QED
    BY <2>1, <2>2 DEF StepInv, GetIsAttached
<1>3. CASE ProcessEnds \/ UNCHANGED sessionVars
  <2>1. UNCHANGED <<commandPc, evalVm, mode, pc, newHookMode, hookMode, vms,
                    detachEvent, commands>>
    BY <1>3 DEF ProcessEnds, sessionVars, vars, backendVars, channelVars, command,
       threads, hooks, signals
  <2> QED
    BY <2>1 DEF StepInv, NoBreak, GetIsAttached
<1> QED
  BY <1>1, <1>2, <1>3 DEF SessionNext

(* While the user steps every known state reports every line, so that a     *)
(* step ends at the next line whichever state runs it.  Break is left out:  *)
(* it takes no lock, and its hook may be lost to a thread that is about to  *)
(* install the hook it chose before (UpdateHookMode).                       *)
THEOREM StepsSeeLines ==
  ASSUME "Break" \notin UserMay
  PROVE  SessionSpec => []SteppingSeesEveryLine
<1>1. SessionInit => StepInv
  BY DEF SessionInit, Init, BackendInit, ChannelInit, StepInv, NoBreak
<1>2. SessionInv /\ StepInv /\ [SessionNext]_sessionVars => StepInv'
  BY StepInvNext
<1>3. SessionInv /\ StepInv => SteppingSeesEveryLine
  BY ProtocolAssumption
  DEF StepInv, SteppingSeesEveryLine, Connected, SessionInv, TypeInv, TypeOK
<1> QED
  BY <1>1, <1>2, <1>3, SessionInvariant, PTL DEF SessionSpec

-----------------------------------------------------------------------------
(***************************************************************************)
(* One stop and its continuation.                                          *)
(***************************************************************************)

Of(s, ids)   == {k \in DOMAIN s : s[k].id \in ids}
Lone(s, ids) == \A j, k \in Of(s, ids) : j = k

Waiting   == \E t \in LuaThreads : pc[t] \in WaitsForStep
StopReported  == Of(events, {"Break"}) # {}
Requested == Of(commands, ResumeCommands) # {}

(* A thread that waits has one token: its Break event, then the state the   *)
(* frontend shows, then what the user chose, then the command, and last the *)
(* step event that lets it go on.  There is no token without such a thread. *)
TokenInv ==
  /\ Lone(events, {"Break"}) /\ Lone(commands, ResumeCommands)
  /\ Waiting <=> StopReported \/ state = "Broken" \/ ui = "resume" \/ Requested \/ stepEvent
  /\ StopReported         => state # "Broken" /\ ui # "resume" /\ ~Requested /\ ~stepEvent
  /\ state = "Broken" => ui # "resume" /\ ~Requested /\ ~stepEvent
  /\ ui = "resume"    => ~Requested /\ ~stepEvent
  /\ Requested        => ~stepEvent

(* Without Lua errors no thread is in their handler.                        *)
NoErrorPlace ==
  /\ \A t \in LuaThreads : pc[t] \notin InError
  /\ commandPc \notin {"evalSend", "evalStep"}
  /\ \A t \in LuaThreads :
       pc[t] \in {"loadErr", "loadErrLock", "loadErrStep"} => FailingScripts # {}

StopInv == NoErrorPlace /\ (Connected => TokenInv)

LEMMA OfNone ==
  \A ids : Of(<<>>, ids) = {}
BY DOMAIN <<>> = {} DEF Of

(* What is written behind a sequence, and what is read from its front.      *)
LEMMA OfConcat ==
  ASSUME NEW S, NEW a \in Seq(S), NEW b \in Seq(S), NEW ids
  PROVE  /\ Of(b, ids) = {} => (Of(a \o b, ids) = Of(a, ids))
         /\ Of(a, ids) = {} /\ Lone(b, ids) => Lone(a \o b, ids)
         /\ Of(b, ids) # {} => Of(a \o b, ids) # {}
<1>1. /\ DOMAIN a = 1..Len(a) /\ DOMAIN b = 1..Len(b)
      /\ Len(a) \in Nat /\ Len(b) \in Nat
      /\ DOMAIN (a \o b) = 1..Len(a) + Len(b)
      /\ \A k \in 1..Len(a) : (a \o b)[k] = a[k]
      /\ \A k \in 1..Len(b) : (a \o b)[Len(a) + k] = b[k]
  BY ConcatProperties, LenProperties
<1> DEFINE ab == a \o b
           n  == Len(a)
           m  == Len(b)
<1> HIDE DEF ab, n, m
<1>2. /\ DOMAIN a = 1..n /\ DOMAIN b = 1..m /\ n \in Nat /\ m \in Nat
      /\ DOMAIN ab = 1..n + m
      /\ \A k \in 1..n : ab[k] = a[k]
      /\ \A k \in 1..m : ab[n + k] = b[k]
  BY <1>1 DEF ab, n, m
<1>3. \A k \in DOMAIN ab : k \notin DOMAIN a => k - n \in DOMAIN b /\ ab[k] = b[k - n]
  <2> SUFFICES ASSUME NEW k \in DOMAIN ab, k \notin DOMAIN a
               PROVE  k - n \in DOMAIN b /\ ab[k] = b[k - n]
    OBVIOUS
  <2>1. k - n \in 1..m /\ n + (k - n) = k
    BY <1>2
  <2> QED
    BY <1>2, <2>1
<1>4. \A k \in DOMAIN a : k \in DOMAIN ab /\ ab[k] = a[k]
  BY <1>2
<1>5. \A k \in DOMAIN b : n + k \in DOMAIN ab /\ ab[n + k] = b[k]
  BY <1>2
<1>6. Of(b, ids) = {} => Of(ab, ids) = Of(a, ids)
  BY <1>3, <1>4 DEF Of
<1>7. ASSUME Of(a, ids) = {}, Lone(b, ids) PROVE Lone(ab, ids)
  <2> SUFFICES ASSUME NEW j \in Of(ab, ids), NEW k \in Of(ab, ids) PROVE j = k
    BY DEF Lone
  <2>1. j - n \in Of(b, ids) /\ k - n \in Of(b, ids)
    BY <1>3, <1>4, <1>7 DEF Of
  <2>2. j - n = k - n
    BY <1>7, <2>1 DEF Lone
  <2>3. j \in Int /\ k \in Int
    BY <1>2 DEF Of
  <2> QED
    BY <1>2, <2>2, <2>3
<1>8. Of(b, ids) # {} => Of(ab, ids) # {}
  BY <1>5 DEF Of
<1> QED
  BY <1>6, <1>7, <1>8 DEF ab

LEMMA OfTail ==
  ASSUME NEW S, NEW s \in Seq(S), s # <<>>, NEW ids
  PROVE  /\ Lone(s, ids) => Lone(Tail(s), ids)
         /\ Head(s).id \notin ids => (Of(Tail(s), ids) = {} <=> Of(s, ids) = {})
         /\ Head(s).id \in ids => Of(s, ids) # {}
         /\ Head(s).id \in ids /\ Lone(s, ids) => Of(Tail(s), ids) = {}
<1>1. /\ Len(s) \in Nat \ {0} /\ DOMAIN s = 1..Len(s) /\ Head(s) = s[1]
      /\ DOMAIN Tail(s) = 1..Len(s) - 1
      /\ \A k \in 1..Len(s) - 1 : Tail(s)[k] = s[k + 1]
  BY EmptySeq, LenProperties, HeadTailProperties
<1> DEFINE r == Tail(s)
           n == Len(s)
           h == Head(s)
<1> HIDE DEF r, n, h
<1>2. /\ n \in Nat \ {0} /\ DOMAIN s = 1..n /\ h = s[1]
      /\ DOMAIN r = 1..n - 1 /\ \A k \in 1..n - 1 : r[k] = s[k + 1]
  BY <1>1 DEF r, n, h
<1>3. \A k \in Of(r, ids) : k + 1 \in Of(s, ids) /\ k \in Nat \ {0}
  BY <1>2 DEF Of
<1>4. \A k \in Of(s, ids) : k # 1 => k - 1 \in Of(r, ids)
  <2> SUFFICES ASSUME NEW k \in Of(s, ids), k # 1 PROVE k - 1 \in Of(r, ids)
    OBVIOUS
  <2>1. k - 1 \in 1..n - 1 /\ (k - 1) + 1 = k
    BY <1>2 DEF Of
  <2>2. r[k - 1] = s[k]
    BY <1>2, <2>1
  <2> QED
    BY <1>2, <2>1, <2>2 DEF Of
<1>5. h.id \in ids <=> 1 \in Of(s, ids)
  BY <1>2 DEF Of
<1>6. Lone(s, ids) => Lone(r, ids)
  <2> SUFFICES ASSUME Lone(s, ids), NEW j \in Of(r, ids), NEW k \in Of(r, ids) PROVE j = k
    BY DEF Lone
  <2>1. j + 1 = k + 1
    BY <1>3 DEF Lone
  <2> QED
    BY <1>3, <2>1
<1>7. h.id \notin ids => (Of(r, ids) = {} <=> Of(s, ids) = {})
  BY <1>3, <1>4, <1>5
<1>8. h.id \in ids /\ Lone(s, ids) => Of(r, ids) = {}
  <2> SUFFICES ASSUME h.id \in ids, Lone(s, ids), NEW k \in Of(r, ids) PROVE FALSE
    OBVIOUS
  <2>1. k + 1 = 1
    BY <1>3, <1>5 DEF Lone
  <2> QED
    BY <1>3, <2>1
<1> QED
  BY <1>5, <1>6, <1>7, <1>8 DEF r, h

(* Two halves that are connected are both alive.                            *)
LEMMA ConnectedIsLive ==
  ASSUME SessionInv, Connected
  PROVE  Live
BY DEF SessionInv, PlacesInv, Connected, Live, GetIsAttached

(* A session that has begun to end does not come back.                      *)
LEMMA ConnectedBefore ==
  ASSUME SessionInv, [SessionNext]_sessionVars, Connected'
  PROVE  Connected
<1>0. Live
  <2>1. SessionInv'
    BY SessionInvNext
  <2>2. Live'
    BY <2>1 DEF SessionInv, PlacesInv, Connected, Live, GetIsAttached, Crashed
  <2> QED
    BY <2>2, LiveBefore DEF SessionInv
<1> USE DEF Connected, Live, GetIsAttached, SessionInv
<1>1. CASE BackendStep
  <2>1. ASSUME NEW t \in LuaThreads, ThreadStep(t) PROVE Connected
    BY <1>0, <2>1, ThreadEffects DEF ThreadEffect, command, pipeEnds
  <2>2. CASE CommandStep
    <3>1. pipeEnds' = pipeEnds /\ (detachEvent => detachEvent')
      BY <2>2, CommandEffects DEF CommandEffect
    <3>2. commandPc # "cleanup"
      BY <2>2 DEF CommandStep, Resume, Break, BreakHooks, ToggleBreakpoint,
         DeleteAllBreakpoints, LoadDone, IgnoreException, Evaluate, EvaluateFails,
         EvaluateStops, EvaluateReports, EvaluateGoesOn, EvaluateDone, Detach, ReadFails,
         Cleanup, NextCommand
    <3> QED
      BY <1>0, <3>1, <3>2 DEF pipeEnds
  <2> QED
    BY <1>1, <2>1, <2>2 DEF BackendStep, BackendNext
<1>2. CASE FrontendStep
  <2>1. Frontend
    BY <1>2, FrontendAllowed DEF TypeInv, TypeOK
  <2> QED
    BY <1>0, <2>1 DEF Frontend, backendVars, command, signals
<1>3. CASE ProcessEnds
  BY <1>3 DEF ProcessEnds
<1>4. CASE UNCHANGED sessionVars
  <2>1. UNCHANGED <<commandsOpen, detachEvent, commandPc>>
    BY <1>4 DEF sessionVars, vars, backendVars, channelVars, pipeEnds, command, signals
  <2> QED
    BY <1>0, <2>1
<1> QED
  BY <1>1, <1>2, <1>3, <1>4 DEF SessionNext

(* Nothing is written or read that stands for a token.                      *)
Mute(es) == es \in Seq(Event) /\ Of(es, {"Break"}) = {}

Unasked ==
  \/ commands' = commands
  \/ /\ commands # <<>> /\ commands' = Tail(commands)
     /\ Head(commands).id \notin ResumeCommands

LEMMA TokenStays ==
  ASSUME ChannelTypeOK, TokenInv, Waiting' <=> Waiting, UNCHANGED <<state, ui, stepEvent>>,
         events' = events \/ \E es : Mute(es) /\ events' = events \o es, Unasked
  PROVE  TokenInv'
<1>1. Of(events', {"Break"}) = Of(events, {"Break"})
      /\ (Lone(events, {"Break"}) => Lone(events', {"Break"}))
  <2>1. CASE events' = events
    BY <2>1
  <2>2. ASSUME NEW es, Mute(es), events' = events \o es
        PROVE  Of(events', {"Break"}) = Of(events, {"Break"})
    BY <2>2, OfConcat DEF Mute, ChannelTypeOK
  <2> QED
    BY <2>1, <2>2 DEF Lone
<1>2. (Of(commands', ResumeCommands) = {} <=> Of(commands, ResumeCommands) = {})
      /\ (Lone(commands, ResumeCommands) => Lone(commands', ResumeCommands))
  <2>1. CASE commands' = commands
    BY <2>1
  <2>2. CASE commands # <<>> /\ commands' = Tail(commands)
             /\ Head(commands).id \notin ResumeCommands
    BY <2>2, OfTail DEF ChannelTypeOK
  <2> QED
    BY <2>1, <2>2 DEF Unasked
<1> QED
  BY <1>1, <1>2 DEF TokenInv, StopReported, Requested

(* A stop is reported while nothing else waits.                             *)
LEMMA TokenAppears ==
  ASSUME ChannelTypeOK, TokenInv, ~Waiting, Waiting', UNCHANGED <<state, ui, stepEvent, commands>>,
         NEW es \in Seq(Event), events' = events \o es,
         Of(es, {"Break"}) # {}, Lone(es, {"Break"})
  PROVE  TokenInv'
<1>1. Of(events, {"Break"}) = {}
  BY DEF TokenInv, StopReported
<1>2. Of(events', {"Break"}) # {} /\ Lone(events', {"Break"})
  BY <1>1, OfConcat DEF ChannelTypeOK
<1> QED
  BY <1>2 DEF TokenInv, StopReported, Requested

(* The thread that waited takes the step event with it.                     *)
LEMMA TokenTaken ==
  ASSUME TokenInv, stepEvent, stepEvent' = FALSE, ~Waiting',
         UNCHANGED <<state, ui, events, commands>>
  PROVE  TokenInv'
BY DEF TokenInv, StopReported, Requested

LEMMA MuteEvents ==
  ASSUME NEW t \in LuaThreads
  PROVE  /\ \A id \in {"CreateVM", "DestroyVM"} : Mute(<<[id |-> id, vm |-> t]>>)
         /\ \A s \in Scripts : Mute(<<[id |-> "LoadScript", vm |-> t, script |-> s]>>)
         /\ \A i \in Index, l \in Lines, set \in BOOLEAN :
              Mute(<<[id |-> "SetBreakpoint", index |-> i, line |-> l, set |-> set]>>)
<1>1. ASSUME NEW e, e.id # "Break", e \in Event PROVE Mute(<<e>>)
  BY <1>1 DEF Mute, Of
<1>2. /\ \A id \in {"CreateVM", "DestroyVM"} : [id |-> id, vm |-> t] \in Event
      /\ \A s \in Scripts : [id |-> "LoadScript", vm |-> t, script |-> s] \in Event
      /\ \A i \in Index, l \in Lines, set \in BOOLEAN :
           [id |-> "SetBreakpoint", index |-> i, line |-> l, set |-> set] \in Event
  BY DEF Event
<1> QED
  BY <1>1, <1>2

LEMMA LoneBreak ==
  ASSUME NEW t \in LuaThreads, NEW i \in Index
  PROVE  LET one == <<[id |-> "Break", vm |-> t, index |-> i]>>
             two == <<[id |-> "Break", vm |-> t, index |-> i], [id |-> "LoadError", vm |-> t]>>
         IN /\ one \in Seq(Event) /\ Of(one, {"Break"}) # {} /\ Lone(one, {"Break"})
            /\ two \in Seq(Event) /\ Of(two, {"Break"}) # {} /\ Lone(two, {"Break"})
<1> DEFINE b   == [id |-> "Break", vm |-> t, index |-> i]
           e   == [id |-> "LoadError", vm |-> t]
<1>1. b.id = "Break" /\ e.id # "Break" /\ <<b>> \in Seq(Event) /\ <<b, e>> \in Seq(Event)
  BY BreakEventType
<1> HIDE DEF b, e
<1>2. Of(<<b>>, {"Break"}) = {1} /\ Of(<<b, e>>, {"Break"}) = {1}
  BY <1>1 DEF Of
<1>3. \A s : Of(s, {"Break"}) = {1} => Of(s, {"Break"}) # {} /\ Lone(s, {"Break"})
  BY DEF Lone
<1> QED
  BY <1>1, <1>2, <1>3 DEF b, e

LEMMA NoErrorThread ==
  ASSUME Errors = {}, TypeInv, NoErrorPlace, NEW t \in LuaThreads, ThreadStep(t)
  PROVE  NoErrorPlace'
<1> USE DEF NoErrorPlace, InError, Goto, Return
<1>0. UNCHANGED commandPc /\ pc \in [LuaThreads -> Places]
  BY ThreadEffects DEF ThreadEffect, command, TypeInv, TypeOK
<1>1. ASSUME NEW place, pc' = pc \/ pc' = [pc EXCEPT ![t] = place], place \notin InError,
             place \in {"loadErr", "loadErrLock", "loadErrStep"} => FailingScripts # {}
      PROVE  NoErrorPlace'
  BY <1>0, <1>1
<1>2. CASE AttachState(t) \/ DetachState(t) \/ HookInvoke(t) \/ \E s \in Scripts : LoadBuffer(t, s)
  BY <1>1, <1>2, SMTT(30) DEF AttachState, DetachState, HookInvoke, LoadBuffer
<1>3. CASE PostLoadRegister(t)
  BY <1>1, <1>3 DEF PostLoadRegister
<1>4. CASE PostLoadContinue(t) \/ PostLoadWait(t)
  BY <1>1, <1>4 DEF PostLoadContinue, PostLoadWait
<1>9. CASE PostLoadError(t) \/ PostLoadReport(t)
  <2>1. FailingScripts # {}
    BY <1>9 DEF PostLoadError, PostLoadReport
  <2>2. pc' = [pc EXCEPT ![t] = "loadErrLock"] \/ pc' = [pc EXCEPT ![t] = "loadErrStep"]
    BY <1>9 DEF PostLoadError, PostLoadReport
  <2> QED
    BY <1>1, <2>1, <2>2
<1>5. CASE HookAttach(t) \/ HookCrash(t) \/ HookRegister(t) \/ RegisterWait(t)
  BY <1>1, <1>5 DEF HookAttach, HookCrash, HookRegister, RegisterWait
<1>6. CASE HookLine(t) \/ HookCallOrReturn(t) \/ UpdateHookMode(t) \/ SetHookMode(t)
  BY <1>1, <1>6 DEF HookLine, HookCallOrReturn, UpdateHookMode, SetHookMode, StopOrReturn
<1>7. CASE BreakFromScript(t) \/ SendBreakEvent(t) \/ WaitForContinue(t) \/ StaleVmCrash(t)
  <2>1. \/ pc' = [pc EXCEPT ![t] = "send"] \/ pc' = [pc EXCEPT ![t] = "step"]
        \/ pc' = [pc EXCEPT ![t] = "lua"] \/ pc' = [pc EXCEPT ![t] = "crashed"]
    BY <1>7 DEF BreakFromScript, SendBreakEvent, WaitForContinue, StaleVmCrash
  <2> QED
    BY <1>1, <2>1
<1>8. CASE ErrorStep(t)
  BY <1>1, <1>8 DEF ErrorStep, ErrorHandler, ErrorBreak, SendExceptionEvent, ErrorCrash
<1> QED
  BY <1>2, <1>3, <1>4, <1>5, <1>6, <1>7, <1>8, <1>9 DEF ThreadStep, LoadStep, HookStep

LEMMA NoErrorCommand ==
  ASSUME Errors = {}, NoErrorPlace, CommandStep
  PROVE  NoErrorPlace'
<1> USE DEF NoErrorPlace, threads, command
<1>1. UNCHANGED pc
  BY DEF CommandStep, Resume, Break, BreakHooks, ToggleBreakpoint,
     DeleteAllBreakpoints, LoadDone, IgnoreException, Evaluate, EvaluateFails,
     EvaluateStops, EvaluateReports, EvaluateGoesOn, EvaluateDone, Detach, ReadFails, Cleanup
<1>2. commandPc' \notin {"evalSend", "evalStep"}
  BY DEF CommandStep, Resume, Break, BreakHooks, ToggleBreakpoint,
     DeleteAllBreakpoints, LoadDone, IgnoreException, Evaluate, EvaluateFails,
     EvaluateStops, EvaluateReports, EvaluateGoesOn, EvaluateDone, Detach, ReadFails, Cleanup
<1> QED
  BY <1>1, <1>2

(* Only one thread can be stopped.                                          *)
LEMMA OneWaits ==
  ASSUME LockInv, NoErrorPlace, FailingScripts = {} \/ \E t : LuaThreads = {t},
         NEW t \in LuaThreads, pc[t] \in {"step", "send", "loadErrLock", "loadErrStep"},
         NEW u \in LuaThreads, pc[u] \in WaitsForStep
  PROVE  t = u
<1>1. CASE \E v : LuaThreads = {v}
  BY <1>1
<1>2. CASE FailingScripts = {}
  <2>1. pc[t] \in {"step", "send"} /\ pc[u] = "step"
    BY <1>2 DEF NoErrorPlace, WaitsForStep
  <2>2. breakLock = t /\ breakLock = u
    BY <2>1 DEF LockInv, LocksMatchPlaces, HoldsBreakLock
  <2> QED
    BY <2>2
<1> QED
  BY <1>1, <1>2

LEMMA TokenOfThread ==
  ASSUME Errors = {}, FailingScripts = {} \/ \E t : LuaThreads = {t},
         SessionInv, NoErrorPlace, Connected, TokenInv,
         UNCHANGED frontendVars, NEW t \in LuaThreads, ThreadStep(t)
  PROVE  TokenInv'
<1> USE DEF WaitsForStep, Goto, Return
<1>0. /\ TypeInv /\ LockInv /\ ChannelTypeOK /\ pc \in [LuaThreads -> Places]
      /\ eventsOpen /\ commandPc # "done" /\ ~detachEvent
      /\ UNCHANGED <<state, ui, commands>>
      /\ scripts \in Seq(Scripts)
      /\ events \in Seq(Event)
  BY ThreadEffects DEF SessionInv, TypeInv, TypeOK, ThreadEffect, Connected, GetIsAttached,
     frontendVars, ChannelTypeOK
<1>1. \A es : Write(es) => events' = events \o es
  BY <1>0 DEF Write
<1>2. ASSUME \A u \in LuaThreads : pc'[u] \in WaitsForStep <=> pc[u] \in WaitsForStep,
             UNCHANGED stepEvent,
             \/ events' = events
             \/ \E es : Mute(es) /\ Write(es)
      PROVE  TokenInv'
  <2>1. Waiting' <=> Waiting
    BY <1>2 DEF Waiting
  <2>2. events' = events \/ \E es : Mute(es) /\ events' = events \o es
    BY <1>1, <1>2
  <2>3. Unasked
    BY <1>0 DEF Unasked
  <2>4. ChannelTypeOK /\ UNCHANGED <<state, ui, stepEvent>>
    BY <1>0, <1>2
  <2> QED
    BY <2>1, <2>2, <2>3, <2>4, TokenStays
<1>3. ASSUME \E place : pc' = [pc EXCEPT ![t] = place] /\ place \notin WaitsForStep,
             pc[t] \notin WaitsForStep,
             UNCHANGED stepEvent,
             \/ events' = events
             \/ \E es : Mute(es) /\ Write(es)
      PROVE  TokenInv'
  <2>1. \A u \in LuaThreads : pc'[u] \in WaitsForStep <=> pc[u] \in WaitsForStep
    BY <1>0, <1>3
  <2> QED
    BY <1>2, <1>3, <2>1
<1>4. ASSUME NEW place \in WaitsForStep, pc' = [pc EXCEPT ![t] = place],
             pc[t] \in {"send", "loadErrLock"}, UNCHANGED stepEvent, NEW es \in Seq(Event),
             Write(es), Of(es, {"Break"}) # {}, Lone(es, {"Break"})
      PROVE  TokenInv'
  <2>1. ~Waiting
    BY <1>0, <1>4, OneWaits DEF Waiting
  <2>2. Waiting'
    BY <1>0, <1>4 DEF Waiting
  <2>3. events' = events \o es
    BY <1>1, <1>4
  <2> QED
    BY <1>0, <1>4, <2>1, <2>2, <2>3, TokenAppears
<1>5. ASSUME pc[t] \in WaitsForStep, NEW place, pc' = [pc EXCEPT ![t] = place],
             place \notin WaitsForStep, stepEvent, stepEvent' = FALSE, UNCHANGED events
      PROVE  TokenInv'
  <2>1. ~Waiting'
    BY <1>0, <1>5, OneWaits DEF Waiting
  <2> QED
    BY <1>0, <1>5, <2>1, TokenTaken
<1>6. CASE AttachState(t) \/ HookAttach(t) \/ DetachState(t)
  BY <1>3, <1>6, MuteEvents DEF AttachState, HookAttach, DetachState, AddVm, Emit, signals,
     channelVars
<1>7. CASE HookInvoke(t) \/ \E s \in Scripts : LoadBuffer(t, s)
  BY <1>3, <1>7 DEF HookInvoke, LoadBuffer, signals, channelVars
<1>8. CASE PostLoadRegister(t)
  <2>1. ev[t].script \in Scripts
    BY <1>0, <1>8 DEF PostLoadRegister, TypeInv, EventsOK
  <2> QED
    <3>1. events' = events \/ \E es : Mute(es) /\ Write(es)
      BY <1>8, <2>1, MuteEvents DEF PostLoadRegister, Register, Emit, channelVars
    <3>2. /\ pc[t] = "load" /\ UNCHANGED stepEvent
          /\ \E place \in {"loadErr", "lua", "loadWait"} : pc' = [pc EXCEPT ![t] = place]
      BY <1>8 DEF PostLoadRegister, signals
    <3> QED
      BY <1>3, <3>1, <3>2
<1>9. CASE HookRegister(t)
  <2>1. ev[t].script \in Scripts
    BY <1>0, <1>9 DEF HookRegister, TypeInv, TypeOK, EventsOK
  <2> QED
    <3>1. \E es : Mute(es) /\ Write(es)
      BY <1>9, <2>1, MuteEvents DEF HookRegister, Register, Emit
    <3>2. /\ pc[t] \in {"hook", "attached"} /\ UNCHANGED stepEvent
          /\ \E place \in {"regWait"} : pc' = [pc EXCEPT ![t] = place]
      BY <1>9 DEF HookRegister, HookEntered, signals
    <3> QED
      BY <1>3, <3>1, <3>2
<1>10. CASE PostLoadError(t) \/ PostLoadWait(t) \/ HookCrash(t) \/ RegisterWait(t)
  BY <1>3, <1>10 DEF PostLoadError, PostLoadWait, HookCrash, RegisterWait, signals, channelVars
<1>11. CASE PostLoadReport(t)
  <2>1. PICK i \in 0..Len(scripts) :
          Write(<<[id |-> "Break", vm |-> t, index |-> i], [id |-> "LoadError", vm |-> t]>>)
    BY <1>11 DEF PostLoadReport, Emit
  <2>2. i \in Index
    BY <1>0 DEF Index
  <2>3. pc[t] = "loadErrLock" /\ pc' = [pc EXCEPT ![t] = "loadErrStep"] /\ UNCHANGED stepEvent
    BY <1>11 DEF PostLoadReport, signals
  <2> QED
    BY <1>4, <2>1, <2>2, <2>3, LoneBreak
<1>12. CASE SendBreakEvent(t)
  <2> DEFINE i == GetScriptIndex(ev[t].script)
  <2>1. Write(<<[id |-> "Break", vm |-> t, index |-> i]>>)
    BY <1>12 DEF SendBreakEvent, Emit
  <2>2. i \in Index
    BY <1>0, IndexIsNat
  <2>3. pc[t] = "send" /\ pc' = [pc EXCEPT ![t] = "step"] /\ UNCHANGED stepEvent
    BY <1>12 DEF SendBreakEvent, signals
  <2> HIDE DEF i
  <2> QED
    BY <1>4, <2>1, <2>2, <2>3, LoneBreak
<1>13. CASE PostLoadContinue(t) \/ WaitForContinue(t)
  <2>1. stepEvent /\ stepEvent' = FALSE /\ UNCHANGED events /\ pc[t] \in WaitsForStep
        /\ pc' \in {[pc EXCEPT ![t] = "lua"], [pc EXCEPT ![t] = "loadWait"]}
    BY <1>0, <1>13 DEF PostLoadContinue, WaitForContinue, channelVars
  <2> QED
    BY <1>5, <2>1
<1>14. CASE HookLine(t) \/ HookCallOrReturn(t)
  BY <1>3, <1>14 DEF HookLine, HookCallOrReturn, HookEntered, HookResumed, StopOrReturn,
     signals, channelVars
<1>15. CASE UpdateHookMode(t) \/ SetHookMode(t)
  BY <1>3, <1>15 DEF UpdateHookMode, SetHookMode, HookEntered, HookResumed, signals, channelVars
<1>16. CASE BreakFromScript(t)
  <2>1. /\ pc[t] = "break" /\ UNCHANGED <<stepEvent, events>>
        /\ \E place \in {"send"} : pc' = [pc EXCEPT ![t] = place]
    BY <1>16 DEF BreakFromScript, signals, channelVars
  <2> QED
    BY <1>3, <2>1
<1>17. CASE StaleVmCrash(t)
  <2>1. /\ pc[t] = "regLock" /\ UNCHANGED <<stepEvent, events>>
        /\ \E place \in {"crashed"} : pc' = [pc EXCEPT ![t] = place]
    BY <1>0, <1>17 DEF StaleVmCrash, HookResumed, signals, channelVars
  <2> QED
    BY <1>3, <2>1
<1>18. CASE ErrorStep(t)
  BY <1>3, <1>18 DEF ErrorStep, ErrorHandler, ErrorBreak, SendExceptionEvent, ErrorCrash,
     NoErrorPlace, InError
<1> QED
  BY <1>6, <1>7, <1>8, <1>9, <1>10, <1>11, <1>12, <1>13, <1>14, <1>15, <1>16, <1>17, <1>18
  DEF ThreadStep, LoadStep, HookStep

LEMMA TokenOfCommand ==
  ASSUME Errors = {}, SessionInv, NoErrorPlace, Connected, Connected', TokenInv,
         UNCHANGED frontendVars, CommandStep
  PROVE  TokenInv'
<1>0. /\ TypeInv /\ ChannelTypeOK /\ pc' = pc
      /\ eventsOpen /\ commandPc # "done" /\ ~detachEvent'
      /\ UNCHANGED <<state, ui>>
      /\ scripts \in Seq(Scripts)
      /\ commands \in Seq(Command)
  BY CommandEffects DEF SessionInv, TypeInv, TypeOK, CommandEffect, threads, Connected,
     GetIsAttached, frontendVars, ChannelTypeOK
<1>1. ASSUME UNCHANGED stepEvent, Unasked,
             events' = events \/ \E es : Mute(es) /\ events' = events \o es
      PROVE  TokenInv'
  <2>1. Waiting' <=> Waiting
    BY <1>0 DEF Waiting
  <2> QED
    BY <1>0, <1>1, <2>1, TokenStays
<1>2. CASE \E m \in Modes : Resume(m)
  <2>1. PICK m \in Modes : Resume(m)
    BY <1>2
  <2>2. /\ commands # <<>> /\ commands' = Tail(commands) /\ Head(commands).id \in ResumeCommands
        /\ stepEvent' = TRUE /\ events' = events
    <3>1. Head(commands) = [id |-> m] /\ m \in ResumeCommands
      BY <2>1 DEF Resume, NextCommand, Modes, ResumeCommands
    <3>2. commands # <<>> /\ commands' = Tail(commands) /\ stepEvent' = TRUE /\ events' = events
      BY <2>1 DEF Resume, NextCommand, Consume
    <3> QED
      BY <3>1, <3>2
  <2>3. Requested /\ ~Requested' /\ Lone(commands', ResumeCommands)
    BY <1>0, <2>2, OfTail DEF TokenInv, Requested
  <2>4. Waiting' <=> Waiting
    BY <1>0 DEF Waiting
  <2>5. (StopReported' <=> StopReported) /\ (Lone(events', {"Break"}) <=> Lone(events, {"Break"}))
    BY <2>2 DEF StopReported
  <2> QED
    BY <1>0, <2>2, <2>3, <2>4, <2>5 DEF TokenInv
<1>3. CASE Break \/ DeleteAllBreakpoints \/ LoadDone \/ IgnoreException
  BY <1>1, <1>3 DEF Break, DeleteAllBreakpoints, LoadDone, IgnoreException, NextCommand,
     Consume, Unasked, ResumeCommands, signals
<1>4. CASE BreakHooks \/ ReadFails
  BY <1>1, <1>4 DEF BreakHooks, ReadFails, Unasked, signals, channelVars
<1>5. CASE ToggleBreakpoint
  <2>1. PICK i \in DOMAIN scripts, l \in Lines, set \in BOOLEAN :
          /\ Write(<<[id |-> "SetBreakpoint", index |-> i, line |-> l, set |-> set]>>)
          /\ NextCommand([id |-> "ToggleBreakpoint", index |-> i, line |-> l])
          /\ commands' = Tail(commands)
          /\ UNCHANGED stepEvent
    <3>1. PICK i \in DOMAIN scripts, l \in Lines :
            /\ Write(<<[id |-> "SetBreakpoint", index |-> i, line |-> l,
                        set |-> l \notin breakpoints[scripts[i]]]>>)
            /\ NextCommand([id |-> "ToggleBreakpoint", index |-> i, line |-> l])
            /\ commands' = Tail(commands)
            /\ UNCHANGED stepEvent
      BY <1>5, Zenon DEF ToggleBreakpoint, signals
    <3>2. (l \notin breakpoints[scripts[i]]) \in BOOLEAN
      OBVIOUS
    <3> QED
      BY <3>1, <3>2
  <2> DEFINE es == <<[id |-> "SetBreakpoint", index |-> i, line |-> l, set |-> set]>>
  <2>2. Mute(es)
    <3>1. i \in Index
      BY <1>0 DEF Index
    <3>2. Index # {} /\ \E t : t \in LuaThreads \/ LuaThreads = {}
      BY DEF Index
    <3>3. es \in Seq(Event)
      BY <3>1 DEF Event
    <3>4. Of(es, {"Break"}) = {}
      BY DEF Of
    <3> QED
      BY <3>3, <3>4 DEF Mute
  <2>3. events' = events \o es
    BY <1>0, <2>1 DEF Write
  <2>4. Unasked
    BY <2>1 DEF Unasked, NextCommand, ResumeCommands
  <2> HIDE DEF es
  <2> QED
    BY <1>1, <2>1, <2>2, <2>3, <2>4
<1>6. CASE Evaluate
  <2>1. UNCHANGED <<stepEvent, events>>
    BY <1>6 DEF Evaluate, Consume, signals
  <2>2. Unasked
    BY <1>6 DEF Evaluate, Consume, NextCommand, Unasked, ResumeCommands
  <2> QED
    BY <1>1, <2>1, <2>2
<1>7. CASE EvaluateFails \/ EvaluateStops \/ EvaluateReports \/ EvaluateGoesOn
  BY <1>7 DEF EvaluateFails, EvaluateStops, EvaluateReports, EvaluateGoesOn, NoErrorPlace
<1>8. CASE EvaluateDone
  BY <1>1, <1>8 DEF EvaluateDone, Unasked, signals
<1>9. CASE Detach \/ Cleanup
  BY <1>0, <1>9 DEF Detach, SignalDetached, Cleanup, Connected
<1> QED
  BY <1>2, <1>3, <1>4, <1>5, <1>6, <1>7, <1>8, <1>9 DEF CommandStep

(* What the frontend does to the tokens while it is connected.              *)
Begins ==
  /\ state = "Broken" /\ state' = "Running"
  /\ ui # "resume" /\ ui' = "resume"
  /\ UNCHANGED <<events, commands>>

Asks ==
  /\ ui = "resume" /\ ui' # "resume"
  /\ UNCHANGED <<events, state>>
  /\ \E m \in ResumeCommands : Sent(<<[id |-> m]>>)

Reads ==
  /\ events # <<>> /\ events' = Tail(events)
  /\ state' = IF Head(events).id = "Break" THEN "Broken" ELSE state
  /\ UNCHANGED <<ui, commands>>

Others ==
  /\ ui # "resume" /\ ui' # "resume"
  /\ UNCHANGED <<events, state>>
  /\ \E msgs \in Seq(Command) : Sent(msgs) /\ Of(msgs, ResumeCommands) = {}

LEMMA FrontendTokens ==
  ASSUME Errors = {}, SessionInv, Connected, Connected', FrontendStep
  PROVE  Begins \/ Asks \/ Reads \/ Others
<1>0. /\ ChannelTypeOK /\ FrontendTypeOK /\ PendingOK
      /\ Live /\ eventThread # "ended"
      /\ eventsOpen' /\ commandsOpen /\ commandsOpen'
  BY ConnectedIsLive DEF SessionInv, TypeInv, TypeOK, FrontendTypeOK, PendingOK, Connected
<1> USE DEF NoPipe, channelVars
<1>1. ASSUME ui # "resume", ui' # "resume", UNCHANGED <<events, state, commands>>
      PROVE  Others
  <2>1. commands \o <<>> = commands
    BY <1>0, ConcatEmptySeq DEF ChannelTypeOK
  <2>2. <<>> \in Seq(Command) /\ Of(<<>>, ResumeCommands) = {}
    BY DEF Of
  <2> QED
    BY <1>1, <2>1, <2>2 DEF Others, Sent
<1>2. ASSUME ui # "resume", ui' # "resume", UNCHANGED <<events, state>>,
             NEW msg \in Command, msg.id \notin ResumeCommands, Sent(<<msg>>)
      PROVE  Others
  <2>1. <<msg>> \in Seq(Command) /\ Of(<<msg>>, ResumeCommands) = {}
    BY <1>2 DEF Of
  <2> QED
    BY <1>2, <2>1 DEF Others
<1>3. CASE ReadEvent
  BY <1>3 DEF ReadEvent, Reads
<1>4. CASE ReadEventFails(BackendClosed)
  BY <1>0, <1>4 DEF ReadEventFails, BackendClosed, Live, Connected
<1>5. CASE OnLoadScript
  <2> DEFINE i == Head(pending).index
             S == fileBreakpoints[frontendScripts[i]]
             msgs == LoadReply(i, SetToSeq(S))
  <2>1. Sent(msgs) /\ ui = "idle" /\ UNCHANGED <<ui, events, state>>
    BY <1>5, SendSends DEF OnLoadScript, Handle, Send
  <2>2. i \in Index /\ S \in SUBSET Lines
    <3>1. i \in 1..Len(frontendScripts) /\ frontendScripts[i] \in Scripts
      BY <1>0, <1>5, NextPending DEF OnLoadScript, Handle
    <3>2. frontendScripts \in Seq(Scripts) /\ fileBreakpoints \in [Scripts -> SUBSET Lines]
      BY <1>0 DEF FrontendTypeOK
    <3> QED
      BY <3>1, <3>2 DEF Index
  <2> HIDE DEF i, S
  <2>3. msgs \in Seq(Command)
    BY <2>2, ReplyType
  <2>4. Of(msgs, ResumeCommands) = {}
    <3>1. PICK n \in Nat : SetToSeq(S) \in [1..n -> S]
      BY <2>2, LinesInSequence
    <3> DEFINE lines == SetToSeq(S)
    <3> HIDE DEF lines
    <3> QED
      BY <3>1 DEF LoadReply, lines, Of, ResumeCommands
  <2> QED
    BY <2>1, <2>3, <2>4 DEF Others
<1>6. CASE OnSetBreakpoint \/ OnCreateVM \/ OnDestroyVM \/ OnException \/ OnLoadError \/ OnMessage
  BY <1>1, <1>6 DEF OnSetBreakpoint, OnCreateVM, OnDestroyVM, OnException, OnLoadError, OnMessage, Handle
<1>7. CASE OnBreak
  <2>1. Head(pending).vm \in LuaThreads
    <3>1. Head(pending) \in Queued /\ Head(pending).id = "Break"
      BY <1>0, <1>7, NextPending DEF OnBreak, Handle
    <3> QED
      BY <3>1 DEF Queued, Event
  <2> DEFINE msg == [id |-> "Evaluate", vm |-> vm']
  <2>2. msg \in Command /\ msg.id \notin ResumeCommands
    BY <1>7, <2>1 DEF Command, OnBreak, ResumeCommands
  <2>3. ui = "idle" /\ ui' \in {"idle", "evaluate"} /\ UNCHANGED <<events, state>>
        /\ (Sent(<<msg>>) \/ commands' = commands)
    BY <1>7, SendSends DEF OnBreak, Handle, Send
  <2> HIDE DEF msg
  <2> QED
    BY <1>1, <1>2, <2>2, <2>3
<1>8. CASE OnSessionEnd
  BY <1>0, <1>8, NextPending DEF OnSessionEnd, Handle, PendingOK
<1>9. CASE EvaluateReturns(BackendClosed)
  BY <1>1, <1>9 DEF EvaluateReturns
<1>10. CASE SendResume
  <2>1. Sent(<<[id |-> resume]>>) /\ resume \in ResumeCommands
    BY <1>0, <1>10, SendSends DEF SendResume, ResumeCommand, FrontendTypeOK
  <2> QED
    BY <1>10, <2>1 DEF SendResume, Send, Asks
<1>11. CASE StopFlush(BackendClosed) \/ StopJoin \/ Die \/ \E kill \in BOOLEAN : Stop(kill)
  BY <1>0, <1>11 DEF StopFlush, StopJoin, Die, Stop
<1>12. CASE CloseDialog
  <2>1. ~\E choice : CloseException(choice)
    BY <1>0, ExceptionDialog DEF CloseException
  <2> QED
    BY <1>1, <1>12, <2>1 DEF CloseDialog, CloseLoadError, Close
<1>13. CASE \E m \in ResumeCommands : UserResume(m)
  BY <1>13 DEF UserResume, User, BeginResume, MayResume, Begins
<1>14. CASE UserBreak
  <2>1. [id |-> "Break"] \in Command
    BY DEF Command
  <2> QED
    BY <1>2, <1>14, <2>1, SendSends DEF UserBreak, User, Send, ResumeCommands
<1>15. CASE UserDeleteAllBreakpoints
  <2>1. [id |-> "DeleteAllBreakpoints"] \in Command
    BY DEF Command
  <2> QED
    BY <1>2, <1>15, <2>1, SendSends DEF UserDeleteAllBreakpoints, User, Send, ResumeCommands
<1>16. ASSUME NEW s \in Scripts, NEW l \in Lines, UserToggleBreakpoint(s, l) PROVE Others
  <2> DEFINE msg == [id |-> "ToggleBreakpoint", index |-> fileScript[s], line |-> l]
  <2>1. fileScript[s] \in Index
    BY <1>0 DEF FrontendTypeOK
  <2>2. msg \in Command /\ msg.id \notin ResumeCommands
    BY <2>1 DEF Command, ResumeCommands
  <2>3. ui = "idle" /\ ui' = "idle" /\ UNCHANGED <<events, state>>
        /\ (Sent(<<msg>>) \/ commands' = commands)
    BY <1>16, SendSends DEF UserToggleBreakpoint, User, Send
  <2> HIDE DEF msg
  <2> QED
    BY <1>1, <1>2, <2>2, <2>3
<1> QED
  BY <1>3, <1>4, <1>5, <1>6, <1>7, <1>8, <1>9, <1>10, <1>11, <1>12, <1>13, <1>14, <1>15, <1>16
  DEF FrontendStep, FrontendNext, EventThreadStep, UiStep, HandleEvent, UserStep

LEMMA TokenOfFrontend ==
  ASSUME Errors = {}, SessionInv, Connected, Connected', TokenInv, FrontendStep
  PROVE  TokenInv'
<1>0. /\ ChannelTypeOK /\ commandsOpen
      /\ pc' = pc /\ stepEvent' = stepEvent
  BY DEF SessionInv, TypeInv, TypeOK, FrontendTypeOK, Connected, FrontendStep, backendVars,
     threads, signals
<1>1. Waiting' <=> Waiting
  BY <1>0 DEF Waiting
<1>2. CASE Begins
  BY <1>0, <1>1, <1>2 DEF Begins, TokenInv, StopReported, Requested
<1>3. CASE Asks
  <2>1. PICK m \in ResumeCommands : commands' = commands \o <<[id |-> m]>>
    BY <1>0, <1>3 DEF Asks, Sent
  <2> DEFINE msgs == <<[id |-> m]>>
  <2>2. msgs \in Seq(Command) /\ Of(msgs, ResumeCommands) = {1}
    <3>1. [id |-> m] \in Command
      BY DEF Command, ResumeCommands
    <3> QED
      BY <3>1 DEF Of
  <2> HIDE DEF msgs
  <2>3. Lone(msgs, ResumeCommands) /\ Of(msgs, ResumeCommands) # {}
    BY <2>2 DEF Lone
  <2>4. Of(commands, ResumeCommands) = {}
    BY <1>3 DEF Asks, TokenInv, Requested
  <2>5. commands' = commands \o msgs
    BY <2>1 DEF msgs
  <2>6. Lone(commands', ResumeCommands) /\ Requested'
    <3>1. /\ Lone(commands \o msgs, ResumeCommands)
          /\ Of(commands \o msgs, ResumeCommands) # {}
      BY <1>0, <2>2, <2>3, <2>4, OfConcat DEF ChannelTypeOK
    <3> QED
      BY <2>5, <3>1 DEF Requested
  <2>7. /\ ui = "resume" /\ ui' # "resume" /\ state' = state
        /\ (StopReported' <=> StopReported)
        /\ (Lone(events', {"Break"}) <=> Lone(events, {"Break"}))
    BY <1>3 DEF Asks, StopReported
  <2> QED
    BY <1>0, <1>1, <2>6, <2>7 DEF TokenInv
<1>4. CASE Reads
  <2>1. /\ (ui' = ui) /\ (Requested' <=> Requested)
        /\ (Lone(commands', ResumeCommands) <=> Lone(commands, ResumeCommands))
    BY <1>4 DEF Reads, Requested
  <2>2. Lone(events', {"Break"})
    BY <1>0, <1>4, OfTail DEF Reads, TokenInv, ChannelTypeOK
  <2>3. CASE Head(events).id = "Break"
    <3>1. StopReported /\ ~StopReported' /\ state' = "Broken"
      BY <1>0, <1>4, <2>3, OfTail DEF Reads, TokenInv, ChannelTypeOK, StopReported
    <3> QED
      BY <1>0, <1>1, <2>1, <2>2, <3>1 DEF TokenInv
  <2>4. CASE Head(events).id # "Break"
    <3>1. (StopReported' <=> StopReported) /\ state' = state
      BY <1>0, <1>4, <2>4, OfTail DEF Reads, ChannelTypeOK, StopReported
    <3> QED
      BY <1>0, <1>1, <2>1, <2>2, <3>1 DEF TokenInv
  <2> QED
    BY <2>3, <2>4
<1>5. CASE Others
  <2>1. PICK msgs \in Seq(Command) : Sent(msgs) /\ Of(msgs, ResumeCommands) = {}
    BY <1>5 DEF Others
  <2>2. commands' = commands \o msgs
    BY <1>0, <2>1 DEF Sent
  <2>3. Of(commands', ResumeCommands) = Of(commands, ResumeCommands)
    BY <1>0, <2>1, <2>2, OfConcat DEF ChannelTypeOK
  <2>4. Requested' <=> Requested
    BY <2>3 DEF Requested
  <2>5. Lone(commands, ResumeCommands) => Lone(commands', ResumeCommands)
    BY <2>3 DEF Lone
  <2>6. /\ ui # "resume" /\ ui' # "resume" /\ state' = state
        /\ (StopReported' <=> StopReported)
        /\ (Lone(events', {"Break"}) <=> Lone(events, {"Break"}))
    BY <1>5 DEF Others, StopReported
  <2> QED
    BY <1>0, <1>1, <2>4, <2>5, <2>6 DEF TokenInv
<1> QED
  BY <1>2, <1>3, <1>4, <1>5, FrontendTokens

LEMMA StopInvNext ==
  ASSUME Errors = {}, FailingScripts = {} \/ \E t : LuaThreads = {t},
         SessionInv, StopInv, [SessionNext]_sessionVars
  PROVE  StopInv'
<1>1. CASE BackendStep
  <2>1. UNCHANGED frontendVars
    BY <1>1 DEF BackendStep
  <2>2. ASSUME NEW t \in LuaThreads, ThreadStep(t) PROVE StopInv'
    <3>1. NoErrorPlace'
      BY <2>2, NoErrorThread DEF SessionInv, StopInv
    <3>2. Connected' => TokenInv'
      BY <2>1, <2>2, ConnectedBefore, TokenOfThread DEF StopInv
    <3> QED
      BY <3>1, <3>2 DEF StopInv
  <2>3. CASE CommandStep
    <3>1. NoErrorPlace'
      BY <2>3, NoErrorCommand DEF StopInv
    <3>2. Connected' => TokenInv'
      BY <2>1, <2>3, ConnectedBefore, TokenOfCommand DEF StopInv
    <3> QED
      BY <3>1, <3>2 DEF StopInv
  <2> QED
    BY <1>1, <2>2, <2>3 DEF BackendStep, BackendNext
<1>2. CASE FrontendStep
  <2>1. pc' = pc /\ commandPc' = commandPc
    BY <1>2 DEF FrontendStep, backendVars, threads, command
  <2>2. NoErrorPlace'
    BY <2>1 DEF StopInv, NoErrorPlace
  <2>3. Connected' => TokenInv'
    BY <1>2, ConnectedBefore, TokenOfFrontend DEF StopInv
  <2> QED
    BY <2>2, <2>3 DEF StopInv
<1>3. CASE ProcessEnds
  <2>1. pc' = pc /\ commandPc' = commandPc /\ ~processAlive'
    BY <1>3 DEF ProcessEnds, vars, backendVars, threads, command
  <2> QED
    BY <2>1 DEF StopInv, NoErrorPlace, Connected
<1>4. CASE UNCHANGED sessionVars
  <2>1. /\ pc' = pc /\ commandPc' = commandPc
        /\ events' = events /\ commands' = commands
        /\ state' = state /\ ui' = ui /\ stepEvent' = stepEvent
    BY <1>4 DEF sessionVars, vars, backendVars, threads, command, channelVars, signals,
       frontendVars
  <2>2. Connected' => Connected
    BY <1>4, ConnectedBefore
  <2> QED
    BY <2>1, <2>2 DEF StopInv, NoErrorPlace, TokenInv, Waiting, StopReported, Requested
<1> QED
  BY <1>1, <1>2, <1>3, <1>4 DEF SessionNext

LEMMA StopInvariant ==
  ASSUME Errors = {}, FailingScripts = {} \/ \E t : LuaThreads = {t}
  PROVE  SessionSpec => [](SessionInv /\ StopInv)
<1>1. SessionInit => StopInv
  <2> SUFFICES ASSUME SessionInit PROVE StopInv
    OBVIOUS
  <2>1. /\ \A t \in LuaThreads : pc[t] \in {"host", "lua"}
        /\ commandPc = "read" /\ ~stepEvent
        /\ events = <<>> /\ commands = <<>> /\ state = "Running" /\ ui = "idle"
    BY DEF SessionInit, Init, BackendInit, ChannelInit, FrontendInit
  <2>2. Of(events, {"Break"}) = {} /\ Of(commands, ResumeCommands) = {}
    BY <2>1, OfNone
  <2> QED
    BY <2>1, <2>2 DEF StopInv, NoErrorPlace, InError, TokenInv, Waiting, WaitsForStep, Lone,
       StopReported, Requested
<1>2. SessionInv /\ StopInv /\ [SessionNext]_sessionVars => StopInv'
  BY StopInvNext
<1> QED
  BY <1>1, <1>2, SessionInvariant, PTL DEF SessionSpec

(* The frontend shows the program as broken exactly when a thread waits to  *)
(* be continued: no stop is lost on its way to the user, and none is shown  *)
(* twice.  Lua errors are left out, because an exception dialog that is     *)
(* closed late continues the stop after it; so are scripts that fail to load*)
(* in a program with several threads, where the report of the failure gives *)
(* the locks away before it waits and a second thread can stop meanwhile.   *)
THEOREM StateOfStop ==
  ASSUME Errors = {}, FailingScripts = {} \/ \E t : LuaThreads = {t}
  PROVE  SessionSpec => []StateAgrees
<1>1. SessionInv /\ StopInv => StateAgrees
  <2> SUFFICES ASSUME StopInv, Quiet, ~stepEvent
               PROVE  state = "Broken" <=>
                        \E t \in LuaThreads : pc[t] \in WaitsForStep \cup {"errEvent"}
    BY DEF StateAgrees
  <2>1. ~StopReported /\ ~Requested
    BY OfNone DEF Quiet, StopReported, Requested
  <2>2. Waiting <=> state = "Broken"
    BY <2>1 DEF Quiet, StopInv, TokenInv
  <2> QED
    BY <2>2 DEF Waiting, StopInv, NoErrorPlace, InError
<1> QED
  BY <1>1, StopInvariant, PTL

(* A Continue or Step is used up by the stop it was given for: while the    *)
(* step event is set there is a thread that waits for it.  Under the same   *)
(* assumptions as StateOfStop, and for the same reasons.                    *)
THEOREM StepEventTaken ==
  ASSUME Errors = {}, FailingScripts = {} \/ \E t : LuaThreads = {t}
  PROVE  SessionSpec => []StepEventHasTaker
<1>1. SessionInv /\ StopInv => StepEventHasTaker
  BY DEF StepEventHasTaker, StopInv, TokenInv, Waiting
<1> QED
  BY <1>1, StopInvariant, PTL

=============================================================================
