--------------------------- MODULE SourceControl ---------------------------
(***************************************************************************)
(* Source control in the IDE: a plug-in that wants its calls from one      *)
(* thread, a command thread that makes them, a background thread that asks *)
(* for the status of the project's files, and the window that starts both  *)
(* and shows the answers (SourceControl.cpp, FileStatusThread.cpp and the  *)
(* handlers of MainFrame.cpp that use them).                               *)
(*                                                                         *)
(* The window runs one handler at a time; "ui" holds the steps its handler *)
(* has still to make.  While it waits for the command thread it handles no *)
(* event; only a dialog does.  The plug-in is external: a command changes  *)
(* the repository or not, and a query that fails leaves its buffer as it   *)
(* was, uninitialized.                                                     *)
(***************************************************************************)
EXTENDS Naturals, Sequences, FiniteSets

CONSTANTS
    Files,         \* the files projects are made of
    Capabilities,  \* whether the plug-ins answer queries from any thread
    PluginFails,   \* whether a query of a plug-in may fail
    MaxOperations, \* bound: operations the user starts
    None           \* a null pointer

ASSUME SourceControlAssumption ==
    /\ Capabilities \subseteq BOOLEAN
    /\ PluginFails \in BOOLEAN
    /\ MaxOperations \in Nat

Clients == {"window", "status"}
\* SourceControl::Status and Project::Status; an answer of None is Status_Error
Statuses == {"None", "CheckedIn", "CheckedOut", "CheckedOutByUser"}
FileStatuses == {"None", "CheckedIn", "CheckedOut"}
NoFiles == {}

CommandKinds == {"Initialize", "Uninitialize", "OpenProject", "CloseProject",
                 "CheckOut", "CheckIn", "UndoCheckOut", "AddFiles", "Show",
                 "Query", "Requery"}
Steps == CommandKinds \cup
         {"Shutdown", "Stop", "Join", "CreateThread", "WaitForThread",
          "Dialog", "UpdateAll", "WaitForStatus", "Gone"}

Answers == [ok : BOOLEAN, of : [Files -> Statuses \cup {None}]]
Commands == [by : Clients, kind : CommandKinds, names : SUBSET Files]
StatusThreads == [started : BOOLEAN, names : SUBSET Files,
                  found : [Files -> Statuses \cup {None}],
                  late : SUBSET Files]

ASSUME NoneIsNoValue ==
    None \notin Commands /\ None \notin StatusThreads /\ None \notin Statuses

VARIABLES
    ui,          \* the steps the window's handler has still to make
    operations,  \* how many the user started
    plugin,      \* "none" (m_hModule is NULL), "loaded" or "ready"
    handle,      \* m_hCommandThread and its two events exist
    initialized, \* m_initialized
    projectOpen, \* m_projectOpen
    shutdown,    \* m_shutdown
    multi,       \* m_supportsMultiThreadedQueryInfo
    queue,       \* m_commandQueue
    available,   \* m_hCommandAvailableEvent is signalled
    thread,      \* where the command thread is
    done,        \* its local done
    running,     \* its local command
    at,          \* where each client is in DispatchCommand
    answer,      \* the result in the command of each client
    slot,        \* m_fileStatusThread
    events,      \* ThreadEvents pending for the window
    files,       \* the files of m_project
    status,      \* Project::File::status
    repository,  \* what the repository says of each file
    overtaken    \* history: files a status older than a single update reached

windowVars == <<ui, operations, files, status, overtaken>>
moduleVars == <<plugin, handle, initialized, projectOpen, shutdown, multi>>
threadVars == <<thread, done, running>>
callVars == <<queue, available, at, answer>>
statusVars == <<slot, events>>
vars == <<windowVars, moduleVars, threadVars, callVars, statusVars, repository>>

NoAnswer == [ok |-> FALSE, of |-> [f \in Files |-> None]]

Init ==
    /\ ui = <<>> /\ operations = 0
    /\ plugin = "none" /\ handle = FALSE
    /\ initialized = FALSE /\ projectOpen = FALSE /\ shutdown = FALSE
    /\ multi = FALSE
    /\ queue = <<>> /\ available = FALSE
    /\ thread = "none" /\ done = FALSE /\ running = None
    /\ at = [c \in Clients |-> "idle"]
    /\ answer = [c \in Clients |-> NoAnswer]
    /\ slot = [i \in 0 .. 1 |-> None] /\ events = 0
    /\ files = {}
    /\ status = [f \in Files |-> "None"]
    /\ repository \in [Files -> {"None", "CheckedIn", "CheckedOut"}]
    /\ overtaken = {}

-----------------------------------------------------------------------------
(* What the plug-in answers. *)

\* MainFrame::SetFileStatus
FileStatus(s) ==
    CASE s = "CheckedOutByUser" -> "CheckedOut"
      [] s \in {"CheckedIn", "CheckedOut"} -> "CheckedIn"
      [] OTHER -> "None"

Known(names) == [f \in Files |-> IF f \in names THEN repository[f] ELSE None]

\* GetFilesStatusCommand::Run: the result is a comparison and never negative,
\* so the answer of a query that failed is whatever its buffer held.  With no
\* plug-in the call through NULL is an exception, the only failure reported.
QueryAnswers(names) ==
    IF plugin = "none" THEN {NoAnswer}
    ELSE {[ok |-> TRUE, of |-> Known(names)]} \cup
         IF PluginFails \/ plugin = "loaded"
         THEN {[ok |-> TRUE, of |-> g] :
                 g \in {h \in [Files -> Statuses \cup {None}] :
                          \A f \in Files : (h[f] = None) <=> (f \notin names)}}
         ELSE {}

\* The repository after a command on some files: each of them that is in the
\* state "from" may move to the state "to".  What another user has checked out
\* stays his.
Moved(names, from, to) ==
    {[f \in Files |-> IF f \in moved THEN to ELSE repository[f]] :
        moved \in SUBSET {f \in names : repository[f] = from}}

-----------------------------------------------------------------------------
(* DispatchCommand, which the window and the status thread call. *)

Push(c, kind, names) ==
    /\ at[c] = "idle"
    /\ queue' = Append(queue, [by |-> c, kind |-> kind, names |-> names])
    /\ at' = [at EXCEPT ![c] = "pushed"]
    /\ answer' = [answer EXCEPT ![c] = NoAnswer]
    /\ UNCHANGED available

\* SetEvent on the available event, of no effect when there is no thread
Signal(c) ==
    /\ \/ at[c] = "pushed" /\ at' = [at EXCEPT ![c] = "waiting"]
       \/ at[c] = "early" /\ at' = [at EXCEPT ![c] = "returned"]
    /\ available' = handle
    /\ UNCHANGED <<queue, answer, windowVars, moduleVars, threadVars,
                   statusVars, repository>>

\* Command::Complete: the client returns once it reaches its wait
Complete(c) ==
    at' = [at EXCEPT ![c] = IF at[c] = "pushed" THEN "early" ELSE "returned"]

\* GetFilesStatus with a plug-in that supports it runs the query in the thread
\* of the caller.
RunQueryDirectly(c, names) ==
    /\ at[c] = "idle"
    /\ \E a \in QueryAnswers(names) : answer' = [answer EXCEPT ![c] = a]
    /\ at' = [at EXCEPT ![c] = "returned"]
    /\ UNCHANGED <<queue, available>>

GetFilesStatus(c, kind, names) ==
    IF multi THEN RunQueryDirectly(c, names) ELSE Push(c, kind, names)

-----------------------------------------------------------------------------
(* SourceControl::CommandThread *)

LoadPlugin ==
    /\ thread = "load"
    /\ \/ plugin' = "loaded" /\ thread' = "ready"
       \/ thread' = "exited" /\ UNCHANGED plugin
    /\ UNCHANGED <<windowVars, handle, initialized, projectOpen, shutdown,
                   multi, done, running, callVars, statusVars, repository>>

\* Initialize may go on from m_hCommandCompleteEvent before this step.
ThreadReady ==
    /\ thread = "ready"
    /\ multi' = FALSE
    /\ thread' = "check"
    /\ UNCHANGED <<windowVars, plugin, handle, initialized, projectOpen,
                   shutdown, done, running, callVars, statusVars, repository>>

CheckQueue ==
    /\ thread = "check"
    /\ done' = (done \/ (queue = <<>> /\ shutdown))
    /\ thread' = IF queue = <<>> /\ ~shutdown THEN "wait" ELSE "take"
    /\ UNCHANGED <<windowVars, moduleVars, running, callVars, statusVars,
                   repository>>

WaitForCommand ==
    /\ thread = "wait" /\ available
    /\ available' = FALSE
    /\ thread' = "take"
    /\ UNCHANGED <<windowVars, moduleVars, done, running, queue, at, answer,
                   statusVars, repository>>

\* Mutant: the command stays at the front of the queue while it runs.
TakeCommandKept ==
    /\ thread = "take"
    /\ IF queue = <<>>
       THEN thread' = "exited" /\ UNCHANGED running
       ELSE running' = Head(queue) /\ thread' = "run"
    /\ UNCHANGED <<windowVars, moduleVars, done, queue, available, at, answer,
                   statusVars, repository>>

\* An empty queue ends the thread, whatever woke it.
TakeCommand ==
    /\ thread = "take"
    /\ IF queue = <<>>
       THEN thread' = "exited" /\ UNCHANGED <<queue, running>>
       ELSE /\ running' = Head(queue)
            /\ queue' = Tail(queue)
            /\ thread' = "run"
    /\ UNCHANGED <<windowVars, moduleVars, done, available, at, answer,
                   statusVars, repository>>

\* InitializeCommand::Run: the plug-in may refuse; if it does not, it says
\* whether it answers queries from any thread.
RunInitialize(c) ==
    \/ /\ plugin' = "ready"
       /\ \E b \in Capabilities : multi' = (b \/ multi)
       /\ answer' = [answer EXCEPT ![c].ok = TRUE]
    \/ UNCHANGED <<plugin, multi, answer>>

RunOpenProject(c) ==
    /\ \E b \in BOOLEAN : answer' = [answer EXCEPT ![c].ok = b]
    /\ UNCHANGED <<plugin, multi>>

RunQuery(c, names) ==
    /\ \E a \in QueryAnswers(names) : answer' = [answer EXCEPT ![c] = a]
    /\ UNCHANGED <<plugin, multi>>

RunUninitialize ==
    /\ plugin' = "loaded"
    /\ UNCHANGED <<multi, answer>>

RunOnRepository(kind, names) ==
    CASE kind = "CheckOut" -> Moved(names, "CheckedIn", "CheckedOutByUser")
      [] kind \in {"CheckIn", "UndoCheckOut"} ->
                Moved(names, "CheckedOutByUser", "CheckedIn")
      [] kind = "AddFiles" -> Moved(names, "None", "CheckedOutByUser")
      [] OTHER -> {repository}

\* The loop ends when done is set, after the command that was taken.
RunCommand ==
    /\ thread = "run"
    /\ CASE running.kind = "Initialize" -> RunInitialize(running.by)
         [] running.kind = "Uninitialize" -> RunUninitialize
         [] running.kind = "OpenProject" -> RunOpenProject(running.by)
         [] running.kind \in {"Query", "Requery"} ->
                RunQuery(running.by, running.names)
         [] OTHER -> UNCHANGED <<plugin, multi, answer>>
    /\ repository' \in RunOnRepository(running.kind, running.names)
    /\ Complete(running.by)
    /\ running' = None
    /\ thread' = IF done THEN "exited" ELSE "check"
    /\ UNCHANGED <<windowVars, handle, initialized, projectOpen, shutdown,
                   done, queue, available, statusVars>>

CommandThread ==
    \/ LoadPlugin \/ ThreadReady \/ CheckQueue \/ WaitForCommand
    \/ TakeCommand \/ RunCommand

-----------------------------------------------------------------------------
(* FileStatusThread::Entry *)

NewStatusThread ==
    [started |-> FALSE, names |-> {}, found |-> NoAnswer.of, late |-> {}]

StatusRuns == slot[0] # None /\ slot[0].started /\ events = 0

EntryQueries ==
    /\ StatusRuns
    /\ slot[0].names # {}
    /\ GetFilesStatus("status", "Query", slot[0].names)
    /\ UNCHANGED <<windowVars, moduleVars, threadVars, statusVars, repository>>

\* Mutant: the event is posted only if there is an answer.
EntryReturnsWithAnswer ==
    /\ StatusRuns
    /\ at["status"] = "returned" /\ answer["status"].ok
    /\ at' = [at EXCEPT !["status"] = "idle"]
    /\ answer' = [answer EXCEPT !["status"] = NoAnswer]
    /\ slot' = [slot EXCEPT ![0].found = answer["status"].of]
    /\ events' = 1
    /\ UNCHANGED <<windowVars, moduleVars, threadVars, queue, available,
                   repository>>

\* Without an answer m_fileNames is cleared; the event is posted either way.
EntryReturns ==
    /\ StatusRuns
    /\ \/ /\ at["status"] = "returned"
          /\ at' = [at EXCEPT !["status"] = "idle"]
          /\ answer' = [answer EXCEPT !["status"] = NoAnswer]
          /\ slot' = [slot EXCEPT ![0].found = answer["status"].of]
       \/ /\ slot[0].names = {}
          /\ UNCHANGED <<at, answer, slot>>
    /\ events' = 1
    /\ UNCHANGED <<windowVars, moduleVars, threadVars, queue, available,
                   repository>>

StatusThread == EntryQueries \/ EntryReturns \/ Signal("status")

-----------------------------------------------------------------------------
(* The window: SourceControl's operations that are made of several steps. *)

Step(name, names) == [step |-> name, names |-> names]
Do(name) == <<Step(name, NoFiles)>>
Next1 == ui' = Tail(ui)
At(name) == ui # <<>> /\ Head(ui).step = name

\* SourceControl::Shutdown
ShutdownBegins ==
    /\ At("Shutdown") /\ plugin # "none"
    /\ ui' = (IF projectOpen THEN Do("CloseProject") ELSE <<>>)
             \o Do("Uninitialize") \o Do("Stop") \o Do("Join") \o Tail(ui)
    /\ UNCHANGED <<operations, files, status, overtaken, moduleVars,
                   threadVars, callVars, statusVars, repository>>

ShutdownStops ==
    /\ At("Stop")
    /\ shutdown' = TRUE
    /\ available' = TRUE
    /\ Next1
    /\ UNCHANGED <<operations, files, status, overtaken, plugin, handle,
                   initialized, projectOpen, multi, threadVars, queue, at,
                   answer, statusVars, repository>>

\* The queue is not cleared and multi keeps its value.
ShutdownEnds ==
    /\ \/ At("Join") /\ thread = "exited"
       \/ At("Shutdown") /\ plugin = "none"
    /\ plugin' = "none" /\ handle' = FALSE
    /\ initialized' = FALSE /\ shutdown' = FALSE
    /\ thread' = "none" /\ available' = FALSE
    /\ Next1
    /\ UNCHANGED <<operations, files, status, overtaken, projectOpen, multi,
                   done, running, queue, at, answer, statusVars, repository>>

\* SourceControl::Initialize, whose own Shutdown finds nothing to do
CreateCommandThread ==
    /\ At("CreateThread")
    /\ handle' = TRUE /\ available' = FALSE
    /\ thread' = "load" /\ done' = FALSE
    /\ Next1
    /\ UNCHANGED <<operations, files, status, overtaken, plugin,
                   initialized, projectOpen, shutdown, multi, running, queue,
                   at, answer, statusVars, repository>>

WaitForThread ==
    /\ At("WaitForThread")
    /\ \/ plugin # "none" /\ Next1
       \/ plugin = "none" /\ thread = "exited" /\ ui' = Do("Shutdown")
    /\ UNCHANGED <<operations, files, status, overtaken, moduleVars,
                   threadVars, callVars, statusVars, repository>>

-----------------------------------------------------------------------------
(* The window: steps that dispatch a command, and what follows them. *)

Dispatch ==
    /\ ui # <<>> /\ Head(ui).step \in CommandKinds
    /\ LET s == Head(ui) IN
       IF s.step \in {"Query", "Requery"}
       THEN GetFilesStatus("window", s.step, s.names)
       ELSE Push("window", s.step, s.names)
    /\ UNCHANGED <<windowVars, moduleVars, threadVars, statusVars, repository>>

\* The answer of a thread that runs will be older than that of a single file.
Overtake(t, names) ==
    IF t = None THEN None ELSE [t EXCEPT !.late = @ \cup names]

\* UpdateProjectFileStatus(file) after its query.
SingleStatus(names) ==
    /\ status' = [f \in Files |->
                    IF f \notin names THEN status[f]
                    ELSE FileStatus(answer["window"].of[f])]
    /\ slot' = [slot EXCEPT ![0] = Overtake(slot[0], names)]
    /\ overtaken' = IF slot[0] = None THEN overtaken \ names ELSE overtaken

InitializeReturns(ok) ==
    /\ initialized' = ok
    /\ ui' = IF ok THEN Tail(ui) ELSE <<>>
    /\ UNCHANGED <<projectOpen, status, slot, overtaken>>

\* A project that does not open ends InitializeSourceControl.
OpenProjectReturns(ok) ==
    /\ projectOpen' = ok
    /\ ui' = IF ok THEN Tail(ui) ELSE Do("Shutdown")
    /\ UNCHANGED <<initialized, status, slot, overtaken>>

CloseProjectReturns ==
    /\ projectOpen' = FALSE
    /\ Next1
    /\ UNCHANGED <<initialized, status, slot, overtaken>>

\* OnCodeEditReadOnlyModifyAttempt offers a check out also of a file that
\* another user has checked out.
QueryReturns(names) ==
    /\ ui' = IF \E f \in names :
                  answer["window"].of[f] \in {"CheckedIn", "CheckedOut"}
             THEN Tail(ui) ELSE <<>>
    /\ UNCHANGED <<initialized, projectOpen, status, slot, overtaken>>

RequeryReturns(names) ==
    /\ SingleStatus(names)
    /\ Next1
    /\ UNCHANGED <<initialized, projectOpen>>

DispatchReturned ==
    /\ ui # <<>> /\ at["window"] = "returned"
    /\ at' = [at EXCEPT !["window"] = "idle"]
    /\ answer' = [answer EXCEPT !["window"] = NoAnswer]
    /\ LET s == Head(ui) IN
       CASE s.step = "Initialize" -> InitializeReturns(answer["window"].ok)
         [] s.step = "OpenProject" -> OpenProjectReturns(answer["window"].ok)
         [] s.step = "CloseProject" -> CloseProjectReturns
         [] s.step = "Query" -> QueryReturns(s.names)
         [] s.step = "Requery" -> RequeryReturns(s.names)
         [] OTHER -> Next1 /\ UNCHANGED <<initialized, projectOpen, status,
                                          slot, overtaken>>
    /\ UNCHANGED <<operations, files, plugin, handle, shutdown, multi,
                   threadVars, queue, available, events, repository>>

-----------------------------------------------------------------------------
(* The window: the background threads that ask for the status of all files. *)

\* UpdateProjectFileStatus()
WithAllNames(t) == [t EXCEPT !.names = @ \cup files]
\* Mutant: the second thread is started at once.
AskAgainAtOnce ==
    IF slot[0] = None
    THEN [slot EXCEPT ![0] = [WithAllNames(NewStatusThread) EXCEPT !.started = TRUE]]
    ELSE [slot EXCEPT ![1] = [WithAllNames(IF @ = None THEN NewStatusThread ELSE @)
                              EXCEPT !.started = TRUE]]

\* Mutant: names are added to the thread that runs.
AskAgainOfFirst ==
    [slot EXCEPT ![0] = [WithAllNames(IF @ = None THEN NewStatusThread ELSE @)
                         EXCEPT !.started = TRUE]]

AskAgain ==
    IF slot[0] = None
    THEN [slot EXCEPT ![0] = [WithAllNames(NewStatusThread) EXCEPT !.started = TRUE]]
    ELSE [slot EXCEPT ![1] = WithAllNames(IF @ = None THEN NewStatusThread ELSE @)]

UpdateProjectFileStatus ==
    /\ At("UpdateAll")
    /\ slot' = IF initialized THEN AskAgain ELSE slot
    /\ Next1
    /\ UNCHANGED <<operations, files, status, overtaken, moduleVars,
                   threadVars, callVars, events, repository>>

\* Mutant: the thread that waits in the second slot is forgotten.
ForgetNext(t) == None

StartNext(t) == IF t = None THEN None ELSE [t EXCEPT !.started = TRUE]

\* MainFrame::OnThreadExit, while no handler runs or one shows a dialog
OnThreadExit ==
    /\ ui = <<>> \/ At("Dialog")
    /\ events > 0
    /\ LET found == slot[0].found
           reached == {f \in files : found[f] # None}
       IN /\ status' = [f \in Files |-> IF f \in reached
                                        THEN FileStatus(found[f]) ELSE status[f]]
          /\ overtaken' = (overtaken \ reached) \cup (slot[0].late \cap reached)
    /\ slot' = [i \in 0 .. 1 |-> IF i = 0 THEN StartNext(slot[1]) ELSE None]
    /\ events' = events - 1
    /\ UNCHANGED <<ui, operations, files, moduleVars, threadVars, callVars,
                   repository>>

\* ~MainFrame waits for the thread that runs; ~SourceControl shuts down.
WaitForStatusThread ==
    /\ At("WaitForStatus")
    /\ slot[0] = None \/ events > 0
    /\ slot' = [i \in 0 .. 1 |-> None]
    /\ events' = 0
    /\ Next1
    /\ UNCHANGED <<operations, files, status, overtaken, moduleVars,
                   threadVars, callVars, repository>>

-----------------------------------------------------------------------------
(* What the user starts. *)

Starts(steps) ==
    /\ ui = <<>> /\ operations < MaxOperations
    /\ operations' = operations + 1
    /\ ui' = steps
    /\ UNCHANGED <<moduleVars, threadVars, callVars, statusVars, repository>>

\* InitializeSourceControl
InitializeSourceControl(hasProvider) ==
    Do("Shutdown")
    \o (IF hasProvider
        THEN Do("CreateThread") \o Do("WaitForThread") \o Do("Initialize")
             \o Do("OpenProject")
        ELSE <<>>)
    \o Do("UpdateAll")

\* SetProject: the files of a new project have no status
SetProject(names, hasProvider) ==
    /\ Starts(InitializeSourceControl(hasProvider))
    /\ files' = names
    /\ status' = [f \in Files |-> "None"]
    /\ UNCHANGED overtaken

\* ShowProjectSettingsDialog keeps the files
ChangeSettings(hasProvider) ==
    /\ Starts(InitializeSourceControl(hasProvider))
    /\ UNCHANGED <<files, status, overtaken>>

\* The menus are enabled by the status of a selected file; not by the state of
\* source control.
OnFiles(kind, names, enabling) ==
    /\ \E f \in names : status[f] \in enabling
    /\ Starts(<<Step(kind, names)>> \o Do("UpdateAll"))
    /\ UNCHANGED <<files, status, overtaken>>

CheckOut(names) == OnFiles("CheckOut", names, {"CheckedIn"})
CheckIn(names) == OnFiles("CheckIn", names, {"CheckedOut"})
UndoCheckOut(names) == OnFiles("UndoCheckOut", names, {"CheckedOut"})

ShowHistory(names) ==
    /\ \E f \in names : status[f] # "None"
    /\ Starts(<<Step("Show", names)>>)
    /\ UNCHANGED <<files, status, overtaken>>

Refresh ==
    /\ initialized
    /\ Starts(Do("UpdateAll"))
    /\ UNCHANGED <<files, status, overtaken>>

\* OnCodeEditReadOnlyModifyAttempt: a file may be read-only whatever its status
EditReadOnly(f) ==
    /\ initialized /\ f \in files
    /\ Starts(<<Step("Query", {f}), Step("Dialog", {f}),
                Step("CheckOut", {f}), Step("Requery", {f})>>)
    /\ UNCHANGED <<files, status, overtaken>>

AnswerDialog ==
    /\ At("Dialog")
    /\ \/ Next1
       \/ ui' = <<>>
    /\ UNCHANGED <<operations, files, status, overtaken, moduleVars,
                   threadVars, callVars, statusVars, repository>>

\* OnProjectAddNewFile, OnProjectAddExistingFile: only a new file is offered to
\* the provider, which may know the file already.
AddFile(f) ==
    /\ f \notin files
    /\ \/ ~initialized /\ Starts(<<>>)
       \/ initialized /\ \E add \in BOOLEAN :
            Starts((IF add THEN <<Step("AddFiles", {f})>> ELSE <<>>)
                   \o <<Step("Requery", {f})>>)
    /\ files' = files \cup {f}
    /\ UNCHANGED <<status, overtaken>>

\* DeleteProjectFile
RemoveFile(f) ==
    /\ f \in files
    /\ Starts(<<>>)
    /\ files' = files \ {f}
    /\ status' = [status EXCEPT ![f] = "None"]
    /\ UNCHANGED overtaken

CloseWindow ==
    /\ Starts(Do("WaitForStatus") \o Do("Shutdown") \o Do("Gone"))
    /\ UNCHANGED <<files, status, overtaken>>

User ==
    \/ \E b \in BOOLEAN :
         ChangeSettings(b) \/ \E names \in SUBSET Files : SetProject(names, b)
    \/ \E names \in SUBSET files :
         CheckOut(names) \/ CheckIn(names) \/ UndoCheckOut(names)
         \/ ShowHistory(names)
    \/ \E f \in Files : EditReadOnly(f) \/ AddFile(f) \/ RemoveFile(f)
    \/ Refresh \/ CloseWindow

WindowWork ==
    \/ ShutdownBegins \/ ShutdownStops \/ ShutdownEnds
    \/ CreateCommandThread \/ WaitForThread
    \/ Dispatch \/ Signal("window") \/ DispatchReturned
    \/ UpdateProjectFileStatus \/ OnThreadExit \/ WaitForStatusThread

Next == User \/ AnswerDialog \/ WindowWork \/ CommandThread \/ StatusThread

Spec == Init /\ [][Next]_vars

\* The operating system runs every thread, and the window's event loop handles
\* what is pending; the user need not do anything.
FairSpec ==
    /\ Spec
    /\ WF_vars(WindowWork) /\ WF_vars(CommandThread) /\ WF_vars(StatusThread)

-----------------------------------------------------------------------------
(* Properties *)

TypeOK ==
    /\ ui \in Seq([step : Steps, names : SUBSET Files])
    /\ operations \in 0 .. MaxOperations
    /\ plugin \in {"none", "loaded", "ready"}
    /\ handle \in BOOLEAN /\ initialized \in BOOLEAN
    /\ projectOpen \in BOOLEAN /\ shutdown \in BOOLEAN /\ multi \in BOOLEAN
    /\ queue \in Seq(Commands) /\ available \in BOOLEAN
    /\ thread \in {"none", "load", "ready", "check", "wait", "take", "run",
                   "exited"}
    /\ done \in BOOLEAN /\ running \in Commands \cup {None}
    /\ at \in [Clients -> {"idle", "pushed", "waiting", "early", "returned"}]
    /\ answer \in [Clients -> Answers]
    /\ slot \in [0 .. 1 -> StatusThreads \cup {None}]
    /\ events \in 0 .. 1
    /\ files \in SUBSET Files
    /\ status \in [Files -> FileStatuses]
    /\ repository \in [Files -> Statuses]
    /\ overtaken \in SUBSET Files

\* A command is deleted when DispatchCommand returns to its client, while the
\* queue and the thread hold pointers to it: they hold one per client, of a
\* client that has not returned.
CommandsAreAlive ==
    LET held == queue \o IF running = None THEN <<>> ELSE <<running>> IN
    /\ \A i \in DOMAIN held : at[held[i].by] \in {"pushed", "waiting"}
    /\ \A i, j \in DOMAIN held : held[i].by = held[j].by => i = j

\* OnThreadExit takes the thread that exited to be the one in the first slot,
\* reads its results, waits for it and deletes it: an exit event is of that
\* thread, which is through, and the one in the second slot has not started.
ExitEventIsOfFirstThread ==
    /\ events > 0 => slot[0] # None /\ slot[0].started /\ at["status"] = "idle"
    /\ slot[1] # None => slot[0] # None /\ ~slot[1].started

\* FileStatusThread.h: names are added before the thread is started; from then
\* on it sorts and reads the vector without a lock.
NamesFixedOnceStarted ==
    [][slot[0] # None /\ slot[0].started /\ events = 0 /\ slot'[0] # None
         => slot'[0].names = slot[0].names]_vars

\* When the window is idle and no status thread is left, the project shows for
\* each file what the repository says, however refreshes, check-outs, changes
\* of the provider and answers interleaved; except where the answer of a
\* thread that ran while the file was updated by itself came after.
QuietStatusIsCurrent ==
    (ui = <<>> /\ slot[0] = None /\ initialized) =>
        \A f \in files \ overtaken : status[f] = FileStatus(repository[f])

NoThread == thread \in {"none", "exited"}

\* A refresh ends, and the one queued behind it too, unless a client waits for
\* a command thread that is gone.
RefreshEnds ==
    slot[0] # None ~>
        slot[0] = None \/ \E c \in Clients : at[c] = "waiting" /\ NoThread

\* SourceControl.h on DispatchCommand: "This method blocks and returns once the
\* command has completed."  The code breaks this: a signal left over from a
\* command that was found without waiting makes the thread quit.
DispatchReturns ==
    \A c \in Clients : at[c] = "pushed" ~> at[c] = "returned"
=============================================================================
