---------------------------- MODULE DebugFrontend ---------------------------
(***************************************************************************)
(* The half of the debugger that is the IDE: the event thread, which reads *)
(* the event pipe and hands each event to the UI thread's queue, and the UI*)
(* thread, which handles queued events one at a time and, when no modal    *)
(* dialog is open, what the user does.  The event thread changes the state *)
(* of the debugger (m_state) and the table of scripts as it reads; the UI  *)
(* handles the event later.                                                *)
(*                                                                         *)
(* A script is matched with one project file, which carries its name here; *)
(* the file is unchanged since the script was loaded, so that its lines are*)
(* the script's lines.                                                     *)
(***************************************************************************)
EXTENDS Protocol, FiniteSets, SequencesExt

CONSTANTS
  Watching,         (* the watch window has an expression                   *)
  UserMay,          (* the things the user may do                           *)
  MaxUserActions    (* bound: how often the user does something             *)

ASSUME FrontendAssumption ==
  /\ Watching \in BOOLEAN
  /\ UserMay \subseteq {"Continue", "StepOver", "StepInto", "Break", "Toggle",
                        "DeleteAll", "Detach", "Stop", "Die"}
  /\ MaxUserActions \in Nat
  /\ IsFiniteSet(Lines)

VARIABLES
  state,             \* m_state
  frontendScripts,   \* m_scripts, in the order their events arrived
  pending,           \* the events queued for the UI thread
  eventThread,       \* "reading" or "ended"
  ui,                \* what the UI thread is doing
  resume,            \* the command a Continue, StepOver or StepInto will send
  dialog,            \* the modal dialogs that are open, the last one first
  vm,                \* m_vm, the virtual machine the user looks at, or Nobody
  vmList,            \* m_vms, the list of virtual machines
  fileScript,        \* fileScript[s]: the scriptIndex of the project file of s
  fileBreakpoints,   \* fileBreakpoints[s]: its breakpoints
  processAlive,      \* the debugged process runs
  userActions        \* how often the user may still do something

project == <<fileScript, fileBreakpoints>>
frontendVars == <<state, frontendScripts, pending, eventThread, ui, resume,
                  dialog, vm, vmList, project, processAlive, userActions>>

ResumeCommands == {"Continue", "StepOver", "StepInto"}
States == {"Inactive", "Running", "Broken"}

(* SessionEnd is made by the event thread and never travels.  A LoadScript  *)
(* event is queued with the index the event thread gave the script.         *)
Queued ==
  Event \cup [id : {"SessionEnd"}] \cup [id : {"LoadScript"}, index : Index]

(* An exception dialog, and the message box of a load error.                 *)
Dialog == [id : {"Exception"}, error : Errors] \cup [id : {"LoadError"}]

FrontendTypeOK ==
  /\ state \in States
  /\ frontendScripts \in Seq(Scripts)
  /\ pending \in Seq(Queued)
  /\ eventThread \in {"reading", "ended"}
  /\ ui \in {"idle", "resume", "evaluate", "flush", "flushKill", "join",
             "joinKill", "dead"}
  /\ resume \in ResumeCommands
  /\ dialog \in Seq(Dialog)
  /\ processAlive \in BOOLEAN
  /\ vm \in LuaThreads \cup {Nobody}
  /\ vmList \subseteq LuaThreads
  /\ fileScript \in [Scripts -> Index]
  /\ fileBreakpoints \in [Scripts -> SUBSET Lines]
  /\ userActions \in 0..MaxUserActions

(* The state after InitializeBackend.  The project may have breakpoints from*)
(* earlier sessions.                                                        *)
FrontendInit ==
  /\ state = "Running"
  /\ frontendScripts = <<>> /\ pending = <<>> /\ eventThread = "reading"
  /\ ui = "idle" /\ resume = "Continue" /\ dialog = <<>>
  /\ vm = Nobody /\ vmList = {}
  /\ fileScript = [s \in Scripts |-> 0]
  /\ fileBreakpoints \in [Scripts -> SUBSET Lines]
  /\ processAlive = TRUE /\ userActions = MaxUserActions

-----------------------------------------------------------------------------
(* Mutant of Send: what the backend has not read yet is overwritten.        *)
SendOver(msgs) ==
  /\ commands' = IF commandsOpen THEN msgs ELSE commands
  /\ UNCHANGED <<events, reply, eventsOpen, commandsOpen>>

(* Commands are written by the UI thread only.  A write to a destroyed pipe *)
(* fails and its result is ignored.                                         *)
Send(msgs) ==
  /\ commands' = IF commandsOpen THEN commands \o msgs ELSE commands
  /\ UNCHANGED <<events, reply, eventsOpen, commandsOpen>>

NoPipe == UNCHANGED channelVars

-----------------------------------------------------------------------------
(* EventThreadProc.  The script of a LoadScript event gets the next index;  *)
(* a Break event changes the state at once.                                 *)
ReadEvent ==
  /\ eventThread = "reading"
  /\ eventsOpen
  /\ events # <<>>
  /\ LET e == Head(events) IN
       /\ frontendScripts' = IF e.id = "LoadScript"
                             THEN Append(frontendScripts, e.script)
                             ELSE frontendScripts
       /\ state' = IF e.id = "Break" THEN "Broken" ELSE state
       /\ pending' = Append(pending,
            IF e.id = "LoadScript"
            THEN [id |-> "LoadScript", index |-> Len(frontendScripts) + 1]
            ELSE e)
  /\ events' = Tail(events)
  /\ UNCHANGED <<commands, reply, eventsOpen, commandsOpen, eventThread, ui,
                 resume, dialog, vm, vmList, project, processAlive,
                 userActions>>

(* Mutant of ReadEventFails: a pipe that is destroyed here is not noticed.  *)
ReadEventFailsFarEnd(backendClosed) ==
  /\ eventThread = "reading"
  /\ eventsOpen /\ backendClosed /\ events = <<>>
  /\ eventThread' = "ended"
  /\ pending' = Append(pending, [id |-> "SessionEnd"])
  /\ NoPipe
  /\ UNCHANGED <<state, frontendScripts, ui, resume, dialog, vm, vmList,
                 project, processAlive, userActions>>

(* The pipe was closed, here or by the backend.                             *)
ReadEventFails(backendClosed) ==
  /\ eventThread = "reading"
  /\ ~eventsOpen \/ (backendClosed /\ events = <<>>)
  /\ eventThread' = "ended"
  /\ pending' = Append(pending, [id |-> "SessionEnd"])
  /\ NoPipe
  /\ UNCHANGED <<state, frontendScripts, ui, resume, dialog, vm, vmList,
                 project, processAlive, userActions>>

-----------------------------------------------------------------------------
(* OnDebugEvent.  A modal dialog runs the event loop, so that other events  *)
(* are handled, and further dialogs opened over it, while it is open.       *)
Handle(id) ==
  /\ ui = "idle"
  /\ pending # <<>>
  /\ Head(pending).id = id
  /\ pending' = Tail(pending)
  /\ UNCHANGED <<eventThread, resume, processAlive, userActions>>

FileForScript(i) == {s \in Scripts : fileScript[s] = i}

(* Mutants of LoadReply: LoadDone overtakes the breakpoints; a script       *)
(* without breakpoints is not answered.                                     *)
LoadReplyEarly(i, lines) ==
  <<[id |-> "LoadDone"]>> \o
    [k \in DOMAIN lines |->
       [id |-> "ToggleBreakpoint", index |-> i, line |-> lines[k]]]
LoadReplyIfAny(i, lines) ==
  IF lines = <<>> THEN <<>>
  ELSE Append([k \in DOMAIN lines |->
                 [id |-> "ToggleBreakpoint", index |-> i, line |-> lines[k]]],
              [id |-> "LoadDone"])

(* The commands that answer a LoadScript event.                             *)
LoadReply(i, lines) ==
  Append([k \in DOMAIN lines |->
            [id |-> "ToggleBreakpoint", index |-> i, line |-> lines[k]]],
         [id |-> "LoadDone"])

(* The file's breakpoints are forgotten and sent to the backend, which sets *)
(* them and says so; then the backend is told that the load is processed.   *)
OnLoadScript ==
  /\ Handle("LoadScript")
  /\ LET i == Head(pending).index
         s == frontendScripts[i]
     IN /\ fileScript' = [fileScript EXCEPT ![s] = i]
        /\ fileBreakpoints' = [fileBreakpoints EXCEPT ![s] = {}]
        /\ Send(LoadReply(i, SetToSeq(fileBreakpoints[s])))
  /\ UNCHANGED <<state, frontendScripts, ui, dialog, vm, vmList>>

(* Mutant of WithBreakpoint: a breakpoint that was removed stays.           *)
WithBreakpointAdded(lines, line, set) == lines \cup {line}

WithBreakpoint(lines, line, set) ==
  IF set THEN lines \cup {line} ELSE lines \ {line}

OnSetBreakpoint ==
  /\ Handle("SetBreakpoint")
  /\ LET e == Head(pending) IN
       fileBreakpoints' = [s \in Scripts |->
         IF s \in FileForScript(e.index)
         THEN WithBreakpoint(fileBreakpoints[s], e.line, e.set)
         ELSE fileBreakpoints[s]]
  /\ NoPipe
  /\ UNCHANGED <<state, frontendScripts, ui, dialog, vm, vmList, fileScript>>

OnCreateVM ==
  /\ Handle("CreateVM")
  /\ vmList' = vmList \cup {Head(pending).vm}
  /\ NoPipe
  /\ UNCHANGED <<state, frontendScripts, ui, dialog, vm, project>>

(* Mutant of VmsWithout: the list keeps the state.                          *)
VmsAsTheyAre(t) == vmList

VmsWithout(t) == vmList \ {t}

OnDestroyVM ==
  /\ Handle("DestroyVM")
  /\ vmList' = VmsWithout(Head(pending).vm)
  /\ NoPipe
  /\ UNCHANGED <<state, frontendScripts, ui, dialog, vm, project>>

(* OnBreak selects the VM the event came from and has the watched expression*)
(* evaluated in it, whatever the state has become since the event was read. *)
OnBreak ==
  /\ Handle("Break")
  /\ vm' = Head(pending).vm
  /\ IF Watching /\ commandsOpen
     THEN Send(<<[id |-> "Evaluate", vm |-> vm']>>) /\ ui' = "evaluate"
     ELSE NoPipe /\ UNCHANGED ui
  /\ UNCHANGED <<state, frontendScripts, dialog, vmList, project>>

(* Mutant of AnswerOrClosed: the far end's death is not noticed.            *)
AnswerOnly(backendClosed) == reply

AnswerOrClosed(backendClosed) == reply \/ backendClosed

(* Evaluate blocks the UI thread until the answer is there.                 *)
EvaluateReturns(backendClosed) ==
  /\ ui = "evaluate"
  /\ AnswerOrClosed(backendClosed)
  /\ reply' = FALSE
  /\ ui' = "idle"
  /\ UNCHANGED <<events, commands, eventsOpen, commandsOpen, state,
                 frontendScripts, pending, eventThread, resume, dialog, vm,
                 vmList, project, processAlive, userActions>>

OnException ==
  /\ Handle("Exception")
  /\ dialog' = <<[id |-> "Exception", error |-> Head(pending).error]>> \o dialog
  /\ NoPipe
  /\ UNCHANGED <<state, frontendScripts, ui, vm, vmList, project>>

OnLoadError ==
  /\ Handle("LoadError")
  /\ dialog' = <<[id |-> "LoadError"]>> \o dialog
  /\ NoPipe
  /\ UNCHANGED <<state, frontendScripts, ui, vm, vmList, project>>

(* OnMessage only writes to the output window.                              *)
OnMessage ==
  /\ Handle("Message")
  /\ NoPipe
  /\ UNCHANGED <<state, frontendScripts, ui, dialog, vm, vmList, project>>

OnSessionEnd ==
  /\ Handle("SessionEnd")
  /\ state' = "Inactive"
  /\ frontendScripts' = <<>>
  /\ fileScript' = [s \in Scripts |-> 0]
  /\ vm' = Nobody /\ vmList' = {}
  /\ NoPipe
  /\ UNCHANGED <<ui, dialog, fileBreakpoints>>

-----------------------------------------------------------------------------
(* Mutant of BeginResume: the state is not changed.                         *)
BeginResumeUnmarked(m) == resume' = m /\ ui' = "resume" /\ UNCHANGED state

(* Continue, StepOver and StepInto: the state is changed first,             *)
BeginResume(m) ==
  /\ state' = "Running"
  /\ resume' = m
  /\ ui' = "resume"

(* Mutant of ResumeCommand: nothing is sent unless the state is Broken.     *)
ResumeCommandIfBroken == IF state = "Broken" THEN <<[id |-> resume]>> ELSE <<>>

ResumeCommand == <<[id |-> resume]>>

(* then the command is written, and the UI shows the state there is by then.*)
SendResume ==
  /\ ui = "resume"
  /\ Send(ResumeCommand)
  /\ ui' = "idle"
  /\ vm' = IF state = "Broken" THEN vm ELSE Nobody
  /\ UNCHANGED <<state, frontendScripts, pending, eventThread, resume, dialog,
                 vmList, project, processAlive, userActions>>

(* The user closes the last dialog opened; those under it are disabled.     *)
Close(id) ==
  /\ ui = "idle"
  /\ dialog # <<>>
  /\ Head(dialog).id = id
  /\ dialog' = Tail(dialog)

CloseLoadError ==
  /\ Close("LoadError")
  /\ NoPipe
  /\ UNCHANGED <<state, frontendScripts, pending, eventThread, ui, resume, vm,
                 vmList, project, processAlive, userActions>>

(* Ignore and Ignore Always continue the program, Break leaves it stopped.  *)
CloseException(choice) ==
  /\ Close("Exception")
  /\ IF choice = "IgnoreAlways"
     THEN Send(<<[id |-> "IgnoreException", error |-> Head(dialog).error]>>)
     ELSE NoPipe
  /\ IF choice = "Break" THEN UNCHANGED <<state, resume, ui>>
                         ELSE BeginResume("Continue")
  /\ UNCHANGED <<frontendScripts, pending, eventThread, vm, vmList, project,
                 processAlive, userActions>>

(* What the user does from the menus, when no dialog is open.               *)
User(action) ==
  /\ action \in UserMay
  /\ ui = "idle"
  /\ dialog = <<>>
  /\ userActions > 0
  /\ userActions' = userActions - 1
  /\ UNCHANGED <<pending, eventThread, dialog, vm, vmList, processAlive,
                 frontendScripts>>

(* Mutant of MayResume: Continue is offered whenever there is a session.    *)
MayResumeAlways == state # "Inactive"

MayResume == state = "Broken"

UserResume(m) ==
  /\ MayResume
  /\ User(m)
  /\ BeginResume(m)
  /\ NoPipe
  /\ UNCHANGED project

UserBreak ==
  /\ state = "Running"
  /\ User("Break")
  /\ Send(<<[id |-> "Break"]>>)
  /\ UNCHANGED <<state, ui, resume, project>>

(* ToggleBreakpoint: a file that has a script in the backend is left to the *)
(* backend, whose SetBreakpoint event will change it.                       *)
UserToggleBreakpoint(s, l) ==
  /\ User("Toggle")
  /\ IF fileScript[s] # 0
     THEN /\ Send(<<[id |-> "ToggleBreakpoint", index |-> fileScript[s], line |-> l]>>)
          /\ UNCHANGED fileBreakpoints
     ELSE /\ fileBreakpoints' = [fileBreakpoints EXCEPT ![s] = SymDiff(@, {l})]
          /\ NoPipe
  /\ UNCHANGED <<state, ui, resume, fileScript>>

UserDeleteAllBreakpoints ==
  /\ User("DeleteAll")
  /\ fileBreakpoints' = [s \in Scripts |-> {}]
  /\ Send(<<[id |-> "DeleteAllBreakpoints"]>>)
  /\ UNCHANGED <<state, ui, resume, fileScript>>

(* Stop: the backend is told to detach, and the event pipe is destroyed;    *)
Stop(kill) ==
  /\ state # "Inactive"
  /\ User(IF kill THEN "Stop" ELSE "Detach")
  /\ commands' = IF commandsOpen
                 THEN Append(commands, [id |-> "Detach", continueRunning |-> ~kill])
                 ELSE commands
  /\ eventsOpen' = FALSE
  /\ ui' = IF kill THEN "flushKill" ELSE "flush"
  /\ UNCHANGED <<events, reply, commandsOpen, state, resume, project>>

(* destroying the command pipe first waits until the backend has read all;  *)
StopFlush(backendClosed) ==
  /\ ui \in {"flush", "flushKill"}
  /\ commands = <<>> \/ backendClosed
  /\ commandsOpen' = FALSE
  /\ ui' = IF ui = "flush" THEN "join" ELSE "joinKill"
  /\ UNCHANGED <<events, commands, reply, eventsOpen, state, frontendScripts,
                 pending, eventThread, resume, dialog, vm, vmList, project,
                 processAlive, userActions>>

(* last, the event thread is joined and the process is terminated.          *)
StopJoin ==
  /\ ui \in {"join", "joinKill"}
  /\ eventThread = "ended"
  /\ processAlive' = (processAlive /\ ui = "join")
  /\ ui' = "idle"
  /\ NoPipe
  /\ UNCHANGED <<state, frontendScripts, pending, eventThread, resume, dialog,
                 vm, vmList, project, userActions>>

(* The IDE's process ends without a Stop.                                   *)
Die ==
  /\ "Die" \in UserMay
  /\ ui # "dead"
  /\ ui' = "dead"
  /\ eventThread' = "ended"
  /\ eventsOpen' = FALSE /\ commandsOpen' = FALSE
  /\ UNCHANGED <<events, commands, reply, state, frontendScripts, pending,
                 resume, dialog, vm, vmList, project, processAlive, userActions>>

-----------------------------------------------------------------------------
HandleEvent ==
  \/ OnLoadScript \/ OnSetBreakpoint \/ OnCreateVM \/ OnDestroyVM
  \/ OnBreak \/ OnException \/ OnLoadError \/ OnMessage \/ OnSessionEnd

UserStep ==
  \/ \E m \in ResumeCommands : UserResume(m)
  \/ UserBreak
  \/ \E s \in Scripts, l \in Lines : UserToggleBreakpoint(s, l)
  \/ UserDeleteAllBreakpoints
  \/ \E kill \in BOOLEAN : Stop(kill)
  \/ Die

EventThreadStep(backendClosed) == ReadEvent \/ ReadEventFails(backendClosed)

CloseDialog ==
  \/ \E choice \in {"Ignore", "IgnoreAlways", "Break"} : CloseException(choice)
  \/ CloseLoadError

UiStep(backendClosed) ==
  \/ HandleEvent
  \/ EvaluateReturns(backendClosed)
  \/ SendResume
  \/ StopFlush(backendClosed) \/ StopJoin

FrontendNext(backendClosed) ==
  EventThreadStep(backendClosed) \/ UiStep(backendClosed) \/ CloseDialog \/ UserStep

=============================================================================
