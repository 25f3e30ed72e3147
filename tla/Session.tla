------------------------------- MODULE Session ------------------------------
(***************************************************************************)
(* A debugging session: the backend inside the debugged process and the    *)
(* frontend, joined by the event and the command pipe, from the moment the *)
(* pipes are connected until both sides have let go of them.               *)
(***************************************************************************)
EXTENDS DebugBackend, DebugFrontend

sessionVars == <<vars, frontendVars>>

(* The backend's ends of the pipes are closed: by its cleanup, or because   *)
(* its process is gone.                                                     *)
BackendClosed == commandPc = "done" \/ ~processAlive \/ Crashed

(* The debugged process ends at any moment, by itself or because it is      *)
(* killed: its threads stop where they are and its ends of the pipes close. *)
ProcessEnds ==
  /\ processAlive
  /\ processAlive' = FALSE
  /\ UNCHANGED <<vars, state, frontendScripts, pending, eventThread, ui, resume,
                 dialog, vm, vmList, project, userActions>>

BackendStep == processAlive /\ BackendNext /\ UNCHANGED frontendVars
FrontendStep == FrontendNext(BackendClosed) /\ UNCHANGED backendVars

SessionInit == Init /\ FrontendInit
SessionNext == BackendStep \/ FrontendStep \/ ProcessEnds
SessionSpec == SessionInit /\ [][SessionNext]_sessionVars

(* The frontend does nothing to the pipes that the backend does not expect  *)
(* of a frontend, and touches no state of the backend: what is proved of the*)
(* backend with any frontend holds in a session.                            *)
BackendUnderSession == Spec

-----------------------------------------------------------------------------
(* Neither half has begun to let go of the other.                           *)
Connected ==
  eventsOpen /\ commandsOpen /\ GetIsAttached /\ processAlive
    /\ commandPc \notin {"cleanup", "done"}

Has(msgs, id) == \E k \in DOMAIN msgs : msgs[k].id = id

(* How many of the first k events that the frontend has not read announce a *)
(* script.                                                                  *)
Announced(k) == Cardinality({j \in 1..k : events[j].id = "LoadScript"})

(* The frontend numbers the scripts in the order their events arrive, the   *)
(* backend in the order it registers them; every index that crosses a pipe  *)
(* relies on the two tables being the same one.                             *)
ScriptTablesAgree ==
  Connected =>
    /\ Len(scripts) = Len(frontendScripts) + Announced(Len(events))
    /\ \A i \in DOMAIN frontendScripts : scripts[i] = frontendScripts[i]
    /\ \A k \in DOMAIN events :
         events[k].id = "LoadScript"
           => scripts[Len(frontendScripts) + Announced(k)] = events[k].script

(* When the frontend reads a Break event it knows the script it names: the  *)
(* assertion in EventThreadProc.                                            *)
BreakNamesKnownScript ==
  Connected =>
    \A k \in DOMAIN events :
      events[k].id = "Break"
        => events[k].index <= Len(frontendScripts) + Announced(k)

(* A LoadScript event never finds its file taken by an earlier script: the  *)
(* assertion in OnDebugEvent.                                               *)
FileHasNoScriptYet ==
  \A k \in DOMAIN pending :
    pending[k].id = "LoadScript" /\ frontendScripts # <<>>
      => fileScript[frontendScripts[pending[k].index]] = 0

(* Nothing is under way that concerns the breakpoints.                      *)
BreakpointsSettled ==
  /\ Connected
  /\ ~\E id \in {"ToggleBreakpoint", "DeleteAllBreakpoints"} : Has(commands, id)
  /\ ~Has(events, "SetBreakpoint") /\ ~Has(pending, "SetBreakpoint")

(* Once the messages about breakpoints have arrived, the breakpoints the    *)
(* user sees are those the backend stops at.                                *)
BreakpointsAgree ==
  BreakpointsSettled =>
    \A s \in Scripts : fileScript[s] # 0 => fileBreakpoints[s] = breakpoints[s]

(* A new script does not run before the breakpoints of its file are set:    *)
(* when a thread leaves the wait for LoadDone, the frontend has handled the *)
(* script and none of its breakpoints is still on the way.                  *)
BreakpointsBeforeFirstLine ==
  [][\A t \in LuaThreads :
       /\ pc[t] \in WaitsForLoad
       /\ pc'[t] \notin WaitsForLoad
       /\ Connected
       => /\ fileScript[ev[t].script] = GetScriptIndex(ev[t].script)
          /\ \A k \in DOMAIN commands :
               commands[k].id = "ToggleBreakpoint"
                 => commands[k].index # GetScriptIndex(ev[t].script)]_sessionVars

(* The backend is at rest as far as the frontend's state goes: all has been *)
(* read on both sides, and the user has pressed nothing.                    *)
Quiet ==
  /\ Connected
  /\ events = <<>> /\ commands = <<>>
  /\ commandPc = "read" /\ ui = "idle"

(* The frontend shows the program as broken exactly when a thread waits to  *)
(* be continued.                                                            *)
StateAgrees ==
  Quiet /\ ~stepEvent =>
           (state = "Broken" <=>
              \E t \in LuaThreads : pc[t] \in WaitsForStep \cup {"errEvent"})

(* A Continue or Step is used up by the stop it was given for; a step event *)
(* left over would let the program run through a later stop.                *)
StepEventHasTaker ==
  Connected /\ stepEvent =>
    \E t \in LuaThreads : pc[t] \in WaitsForStep \cup {"errEvent"}

(* While the user steps, every known state reports every line, so that the  *)
(* step cannot end late.                                                    *)
SteppingSeesEveryLine ==
  Connected /\ mode # "Continue" /\ commandPc = "read" =>
    \A t \in vms : hookMode[t] = "Full"

(* A state whose hook is removed while its script runs would never stop     *)
(* again: that happens only when there is no breakpoint to stop at.         *)
BreakpointKeepsHook ==
  Connected /\ commandPc = "read" /\ (\E s \in Scripts : breakpoints[s] # {}) =>
    \A t \in vms : hookMode[t] # "None"

(* The virtual machines the user sees are those of the backend.             *)
VmListAgrees ==
  Connected /\ pending = <<>> /\ events = <<>> => vmList = vms

(* A thread that reports a script's error while it holds cs never waits for *)
(* a thread that only a command can release: Continue and Detach need cs.   *)
NoCircularWait ==
  ~\E t, u \in LuaThreads :
     /\ pc[t] = "loadErrLock"
     /\ breakLock = u /\ pc[u] = "step"
     /\ ~stepEvent /\ GetIsAttached

(* The debugger does not bring the program down.                            *)
ProgramSurvives == ~Crashed

-----------------------------------------------------------------------------
(* What each thread of the two processes does when it is scheduled.  What   *)
(* the program does with Lua (AttachState, DetachState, HookInvoke,         *)
(* LoadBuffer, an error) and what the user does is not scheduled by the     *)
(* debugger, and nothing is assumed of it, except that a dialog is closed.  *)
InBackend(t) ==
  \/ PostLoadRegister(t) \/ PostLoadError(t) \/ PostLoadReport(t)
  \/ PostLoadContinue(t) \/ PostLoadWait(t)
  \/ HookStep(t) \/ ErrorBreak(t) \/ SendExceptionEvent(t)

(* Every thread is scheduled; entering a lock that is free again and again  *)
(* succeeds at last, as Windows critical sections let a waiter in.          *)
Fairness ==
  /\ \A t \in LuaThreads : SF_sessionVars(
       processAlive /\ ~Crashed /\ InBackend(t) /\ UNCHANGED frontendVars)
  /\ SF_sessionVars(
       processAlive /\ ~Crashed /\ CommandStep /\ UNCHANGED frontendVars)
  /\ WF_sessionVars(EventThreadStep(BackendClosed) /\ UNCHANGED backendVars)
  /\ WF_sessionVars(UiStep(BackendClosed) /\ UNCHANGED backendVars)
  /\ WF_sessionVars(CloseDialog /\ UNCHANGED backendVars)

FairSpec == SessionSpec /\ Fairness

-----------------------------------------------------------------------------
Gone == ~processAlive \/ Crashed

(* A thread that waits for its script's breakpoints goes on: the answer to  *)
(* its LoadScript event comes, or the debugger detaches.                    *)
LoadWaitEnds ==
  \A t \in LuaThreads : pc[t] \in WaitsForLoad ~> (pc[t] \notin WaitsForLoad \/ Gone)

(* The thread that is stopped when the user resumes the program runs on.    *)
ResumeReleases ==
  \A t \in LuaThreads :
    (ui = "resume" /\ pc[t] = "step") ~> (pc[t] # "step" \/ Gone)

(* A Detach that is on its way releases every thread that waits.            *)
DetachReleases ==
  \A t \in LuaThreads :
    (Has(commands, "Detach") /\ pc[t] \in WaitsForStep \cup WaitsForLoad)
      ~> (pc[t] \notin WaitsForStep \cup WaitsForLoad \/ Gone)

(* The UI never hangs: what it waits for (an answer, a pipe to drain, the   *)
(* event thread) comes.                                                     *)
UiComesBack == ui # "idle" ~> ui \in {"idle", "dead"}

(* Closing the pipe ends the session.                                       *)
SessionEnds == ~eventsOpen ~> (state = "Inactive" \/ ui = "dead")

=============================================================================
