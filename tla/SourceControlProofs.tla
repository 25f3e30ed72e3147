------------------------ MODULE SourceControlProofs ------------------------
(***************************************************************************)
(* Theorems about SourceControl, for any files, plug-ins and number of     *)
(* operations: commands are alive as long as the command thread holds      *)
(* them, the exit event is of the first status thread, the names of a      *)
(* status thread stay as they were when it started, and the statuses shown *)
(* once all is quiet are those of the repository.                          *)
(***************************************************************************)
EXTENDS SourceControl, SequenceTheorems, TLAPS

StepRecords == [step : Steps, names : SUBSET Files]

\* The types, and that a thread that runs has a command.
Types ==
    /\ TypeOK
    /\ thread = "run" => running # None

-----------------------------------------------------------------------------

\* CommandsAreAlive, part by part.
AliveInv ==
    /\ \A i \in DOMAIN queue : at[queue[i].by] \in {"pushed", "waiting"}
    /\ \A i, j \in DOMAIN queue : queue[i].by = queue[j].by => i = j
    /\ running # None => /\ at[running.by] \in {"pushed", "waiting"}
                         /\ \A i \in DOMAIN queue : queue[i].by # running.by

LEMMA AliveIsAlive ==
    ASSUME Types
    PROVE  AliveInv <=> CommandsAreAlive
<1>1. queue \in Seq(Commands) /\ Len(queue) \in Nat /\ DOMAIN queue = 1 .. Len(queue)
  BY LenProperties DEF Types, TypeOK
<1>2. CASE running = None
  <2>1. queue \o <<>> = queue
    BY <1>1
  <2> QED
    BY <1>2, <2>1 DEF AliveInv, CommandsAreAlive
<1>3. CASE running # None
  <2> DEFINE held == queue \o <<running>>
  <2>1. /\ DOMAIN held = 1 .. Len(queue) + 1
        /\ \A i \in 1 .. Len(queue) : held[i] = queue[i]
        /\ held[Len(queue) + 1] = running
    BY <1>1, <1>3 DEF Types, TypeOK
  <2>2. CommandsAreAlive <=>
          /\ \A i \in DOMAIN held : at[held[i].by] \in {"pushed", "waiting"}
          /\ \A i, j \in DOMAIN held : held[i].by = held[j].by => i = j
    BY <1>3 DEF CommandsAreAlive
  <2> HIDE DEF held
  <2>3. AliveInv => CommandsAreAlive
    BY <1>1, <1>3, <2>1, <2>2 DEF AliveInv
  <2>4. CommandsAreAlive => AliveInv
    BY <1>1, <1>3, <2>1, <2>2 DEF AliveInv
  <2> QED
    BY <2>3, <2>4
<1> QED
  BY <1>2, <1>3

-----------------------------------------------------------------------------
(* Types. *)

LEMMA InitTypes == Init => Types
<1> SUFFICES ASSUME Init PROVE Types
  OBVIOUS
<1>1. ui \in Seq(StepRecords) /\ queue \in Seq(Commands)
  BY DEF Init
<1>2. answer \in [Clients -> Answers]
  BY DEF Init, NoAnswer, Answers
<1>3. repository \in [Files -> Statuses] /\ status \in [Files -> FileStatuses]
  BY DEF Init, Statuses, FileStatuses
<1> QED
  BY <1>1, <1>2, <1>3, SourceControlAssumption DEF Init, Types, TypeOK, StepRecords

LEMMA AnswersTyped ==
    ASSUME TypeOK, NEW names \in SUBSET Files, NEW a \in QueryAnswers(names)
    PROVE  a \in Answers
<1>1. NoAnswer \in Answers
  BY DEF NoAnswer, Answers
<1>2. [ok |-> TRUE, of |-> Known(names)] \in Answers
  BY DEF Known, Answers, TypeOK
<1>3. ASSUME NEW g \in [Files -> Statuses \cup {None}]
      PROVE  [ok |-> TRUE, of |-> g] \in Answers
  BY DEF Answers
<1> QED
  BY <1>1, <1>2, <1>3 DEF QueryAnswers

LEMMA RepositoryTyped ==
    ASSUME TypeOK, NEW kind, NEW names, NEW r \in RunOnRepository(kind, names)
    PROVE  r \in [Files -> Statuses]
<1>1. ASSUME NEW from, NEW to \in Statuses, NEW g \in Moved(names, from, to)
      PROVE  g \in [Files -> Statuses]
  BY DEF Moved, TypeOK
<1>2. {"CheckedIn", "CheckedOutByUser"} \subseteq Statuses
  BY DEF Statuses
<1> QED
  BY <1>1, <1>2 DEF RunOnRepository, TypeOK

LEMMA CommandThreadTypes ==
    ASSUME Types, CommandThread
    PROVE  Types'
<1> USE DEF Types, TypeOK, windowVars, moduleVars, callVars, statusVars, StepRecords
<1>1. CASE LoadPlugin
  BY <1>1 DEF LoadPlugin
<1>2. CASE ThreadReady
  BY <1>2 DEF ThreadReady
<1>3. CASE CheckQueue
  BY <1>3 DEF CheckQueue
<1>4. CASE WaitForCommand
  BY <1>4 DEF WaitForCommand
<1>5. CASE TakeCommand
  <2>1. queue # <<>> => Head(queue) \in Commands /\ Tail(queue) \in Seq(Commands)
    BY HeadTailProperties
  <2> QED
    BY <1>5, <2>1, NoneIsNoValue, ZenonT(30) DEF TakeCommand
<1>6. CASE RunCommand
  <2>1. running \in Commands /\ running.by \in Clients /\ running.names \in SUBSET Files
    BY <1>6 DEF RunCommand, Commands
  <2>2. repository' \in [Files -> Statuses]
    BY <1>6, RepositoryTyped DEF RunCommand
  <2>3. at' \in [Clients -> {"idle", "pushed", "waiting", "early", "returned"}]
    BY <1>6, <2>1 DEF RunCommand, Complete
  <2>4. /\ plugin' \in {"none", "loaded", "ready"} /\ multi' \in BOOLEAN
        /\ answer' \in [Clients -> Answers]
    <3>1. ASSUME RunInitialize(running.by)
          PROVE  /\ plugin' \in {"none", "loaded", "ready"} /\ multi' \in BOOLEAN
                 /\ answer' \in [Clients -> Answers]
      <4>1. [answer[running.by] EXCEPT !.ok = TRUE] \in Answers
        BY <2>1, ZenonT(30) DEF Answers
      <4>2. answer' = answer \/ answer' = [answer EXCEPT ![running.by] =
                                             [answer[running.by] EXCEPT !.ok = TRUE]]
        BY <2>1, <3>1 DEF RunInitialize
      <4> QED
        BY <2>1, <3>1, <4>1, <4>2, SourceControlAssumption DEF RunInitialize
    <3>2. ASSUME RunOpenProject(running.by)
          PROVE  UNCHANGED <<plugin, multi>> /\ answer' \in [Clients -> Answers]
      BY <2>1, <3>2 DEF RunOpenProject, Answers
    <3>3. ASSUME RunQuery(running.by, running.names)
          PROVE  UNCHANGED <<plugin, multi>> /\ answer' \in [Clients -> Answers]
      BY <2>1, <3>3, AnswersTyped DEF RunQuery
    <3> QED
      BY <1>6, <3>1, <3>2, <3>3 DEF RunCommand, RunUninitialize
  <2> QED
    BY <1>6, <2>2, <2>3, <2>4 DEF RunCommand
<1> QED
  BY <1>1, <1>2, <1>3, <1>4, <1>5, <1>6 DEF CommandThread

LEMMA PushTypes ==
    ASSUME Types, NEW c \in Clients, NEW kind \in CommandKinds, NEW names \in SUBSET Files,
           \/ Push(c, kind, names)
           \/ kind \in {"Query", "Requery"} /\ GetFilesStatus(c, kind, names)
    PROVE  /\ queue' \in Seq(Commands) /\ available' \in BOOLEAN
           /\ at' \in [Clients -> {"idle", "pushed", "waiting", "early", "returned"}]
           /\ answer' \in [Clients -> Answers]
<1> USE DEF Types, TypeOK
<1>1. CASE Push(c, kind, names)
  <2>1. [by |-> c, kind |-> kind, names |-> names] \in Commands
    BY DEF Commands
  <2>2. queue' \in Seq(Commands)
    BY <1>1, <2>1, AppendProperties DEF Push
  <2>3. answer' \in [Clients -> Answers]
    BY <1>1 DEF Push, NoAnswer, Answers
  <2> QED
    BY <1>1, <2>2, <2>3 DEF Push
<1>2. CASE RunQueryDirectly(c, names)
  BY <1>2, AnswersTyped DEF RunQueryDirectly
<1> QED
  BY <1>1, <1>2 DEF GetFilesStatus

LEMMA StatusThreadTypes ==
    ASSUME Types, StatusThread
    PROVE  Types'
<1> USE DEF Types, TypeOK, windowVars, moduleVars, threadVars, statusVars, StepRecords
<1>1. "status" \in Clients /\ "Query" \in CommandKinds
  BY DEF Clients, CommandKinds
<1>2. slot[0] # None => slot[0] \in StatusThreads
  OBVIOUS
<1>3. CASE EntryQueries
  <2>1. slot[0].names \in SUBSET Files
    BY <1>2, <1>3 DEF EntryQueries, StatusRuns, StatusThreads
  <2> QED
    BY <1>1, <1>3, <2>1, PushTypes DEF EntryQueries
<1>4. CASE EntryReturns
  <2>1. answer' \in [Clients -> Answers]
    <3>1. NoAnswer \in Answers
      BY DEF NoAnswer, Answers
    <3> QED
      BY <1>1, <1>4, <3>1 DEF EntryReturns
  <2>2. answer["status"].of \in [Files -> Statuses \cup {None}]
    BY <1>1 DEF Answers
  <2>3. slot' \in [0 .. 1 -> StatusThreads \cup {None}]
    <3> DEFINE t == [slot[0] EXCEPT !.found = answer["status"].of]
    <3>1. t \in StatusThreads
      BY <1>2, <1>4, <2>2 DEF EntryReturns, StatusRuns, StatusThreads
    <3>2. slot' = [slot EXCEPT ![0] = t] \/ slot' = slot
      BY <1>4 DEF EntryReturns
    <3> HIDE DEF t
    <3> QED
      BY <3>1, <3>2
  <2> QED
    BY <1>4, <2>1, <2>3 DEF EntryReturns
<1>5. CASE Signal("status")
  BY <1>5 DEF Signal
<1> QED
  BY <1>3, <1>4, <1>5 DEF StatusThread

(* The window's steps are sequences of records. *)
LEMMA StepsTyped ==
    /\ \A name \in Steps, names \in SUBSET Files :
         /\ <<Step(name, names)>> \in Seq(StepRecords)
         /\ Do(name) \in Seq(StepRecords)
    /\ \A r, s : r \in Seq(StepRecords) /\ s \in Seq(StepRecords)
                 => r \o s \in Seq(StepRecords)
    /\ <<>> \in Seq(StepRecords)
<1>1. \A name \in Steps, names \in SUBSET Files : Step(name, names) \in StepRecords
  BY DEF Step, StepRecords
<1>2. NoFiles \in SUBSET Files
  BY DEF NoFiles
<1> QED
  BY <1>1, <1>2, ConcatProperties DEF Do

LEMMA TailOfSteps ==
    ASSUME Types, ui # <<>>
    PROVE  /\ Head(ui) \in StepRecords /\ Tail(ui) \in Seq(StepRecords)
           /\ Head(ui).step \in Steps /\ Head(ui).names \in SUBSET Files
<1>1. ui \in Seq(StepRecords)
  BY DEF Types, TypeOK, StepRecords
<1>2. Head(ui) \in StepRecords /\ Tail(ui) \in Seq(StepRecords)
  BY <1>1, HeadTailProperties
<1> QED
  BY <1>2 DEF StepRecords

LEMMA ShutdownTypes ==
    ASSUME Types,
           ShutdownBegins \/ ShutdownStops \/ ShutdownEnds \/ CreateCommandThread \/ WaitForThread
    PROVE  Types'
<1> USE DEF Types, TypeOK, moduleVars, callVars, statusVars, threadVars
<1>1. StepRecords = [step : Steps, names : SUBSET Files]
  BY DEF StepRecords
<1>2. {"CloseProject", "Uninitialize", "Stop", "Join", "Shutdown"} \subseteq Steps
  BY DEF Steps, CommandKinds
<1>3. ui # <<>>
  BY DEF ShutdownBegins, ShutdownStops, ShutdownEnds, CreateCommandThread, WaitForThread, At
<1>4. Tail(ui) \in Seq(StepRecords)
  BY <1>3, TailOfSteps
<1>5. ui' \in Seq(StepRecords)
  <2>1. CASE ShutdownBegins
    <3>1. (IF projectOpen THEN Do("CloseProject") ELSE <<>>) \in Seq(StepRecords)
      BY <1>2, StepsTyped
    <3>2. Do("Uninitialize") \in Seq(StepRecords) /\ Do("Stop") \in Seq(StepRecords)
          /\ Do("Join") \in Seq(StepRecords)
      BY <1>2, StepsTyped
    <3> HIDE DEF Types, TypeOK
    <3> QED
      BY <1>4, <2>1, <3>1, <3>2, StepsTyped DEF ShutdownBegins
  <2>2. CASE ShutdownStops \/ ShutdownEnds \/ CreateCommandThread
    BY <1>4, <2>2 DEF ShutdownStops, ShutdownEnds, CreateCommandThread, Next1
  <2>3. CASE WaitForThread
    BY <1>2, <1>4, <2>3, StepsTyped DEF WaitForThread, Next1
  <2> QED
    BY <2>1, <2>2, <2>3
<1>6. CASE ShutdownBegins
  BY <1>1, <1>5, <1>6 DEF ShutdownBegins
<1>7. CASE ShutdownStops
  BY <1>1, <1>5, <1>7 DEF ShutdownStops
<1>8. CASE ShutdownEnds
  BY <1>1, <1>5, <1>8 DEF ShutdownEnds
<1>9. CASE CreateCommandThread
  BY <1>1, <1>5, <1>9 DEF CreateCommandThread
<1>10. CASE WaitForThread
  BY <1>1, <1>5, <1>10 DEF WaitForThread
<1> QED
  BY <1>6, <1>7, <1>8, <1>9, <1>10

LEMMA StatusesTyped == \A s : FileStatus(s) \in FileStatuses
BY DEF FileStatus, FileStatuses

LEMMA DispatchTypes ==
    ASSUME Types, Dispatch \/ Signal("window")
    PROVE  Types'
<1> USE DEF Types, TypeOK, windowVars, moduleVars, statusVars, threadVars
<1>1. CASE Dispatch
  <2>1. Head(ui).step \in CommandKinds /\ Head(ui).names \in SUBSET Files
    BY <1>1, TailOfSteps DEF Dispatch
  <2>2. "window" \in Clients
    BY DEF Clients
  <2>3. /\ queue' \in Seq(Commands) /\ available' \in BOOLEAN
        /\ at' \in [Clients -> {"idle", "pushed", "waiting", "early", "returned"}]
        /\ answer' \in [Clients -> Answers]
    BY <1>1, <2>1, <2>2, PushTypes DEF Dispatch
  <2> QED
    BY <1>1, <2>3 DEF Dispatch
<1>2. CASE Signal("window")
  BY <1>2 DEF Signal
<1> QED
  BY <1>1, <1>2

LEMMA ReturnTypes ==
    ASSUME Types, DispatchReturned
    PROVE  Types'
<1> USE DEF Types, TypeOK
<1>1. StepRecords = [step : Steps, names : SUBSET Files]
  BY DEF StepRecords
<1>2. ui # <<>> /\ "Shutdown" \in Steps /\ "window" \in Clients
  BY DEF DispatchReturned, Steps, CommandKinds, Clients
<1>3. Tail(ui) \in Seq(StepRecords) /\ Head(ui).names \in SUBSET Files
      /\ Do("Shutdown") \in Seq(StepRecords) /\ <<>> \in Seq(StepRecords)
  BY <1>2, TailOfSteps, StepsTyped
<1>4. /\ at' = [at EXCEPT !["window"] = "idle"] /\ answer' = [answer EXCEPT !["window"] = NoAnswer]
      /\ UNCHANGED <<operations, files, plugin, handle, shutdown, multi,
                     threadVars, queue, available, events, repository>>
  BY DEF DispatchReturned
<1>5. NoAnswer \in Answers /\ answer["window"].ok \in BOOLEAN
  BY <1>2 DEF NoAnswer, Answers
<1>6. ASSUME NEW names \in SUBSET Files, SingleStatus(names)
      PROVE  /\ status' \in [Files -> FileStatuses]
             /\ slot' \in [0 .. 1 -> StatusThreads \cup {None}]
             /\ overtaken' \in SUBSET Files
  <2>1. status' \in [Files -> FileStatuses]
    BY <1>6, StatusesTyped DEF SingleStatus
  <2>2. Overtake(slot[0], names) \in StatusThreads \cup {None}
    <3>1. slot[0] # None => slot[0] \in StatusThreads
      OBVIOUS
    <3> QED
      BY <3>1 DEF Overtake, StatusThreads
  <2>3. slot' \in [0 .. 1 -> StatusThreads \cup {None}]
    BY <1>6, <2>2 DEF SingleStatus
  <2> QED
    BY <1>6, <2>1, <2>3 DEF SingleStatus
<1>7. /\ ui' \in Seq(StepRecords) /\ initialized' \in BOOLEAN /\ projectOpen' \in BOOLEAN
      /\ status' \in [Files -> FileStatuses]
      /\ slot' \in [0 .. 1 -> StatusThreads \cup {None}] /\ overtaken' \in SUBSET Files
  <2>1. CASE InitializeReturns(answer["window"].ok)
    BY <1>1, <1>3, <1>5, <2>1 DEF InitializeReturns
  <2>2. CASE OpenProjectReturns(answer["window"].ok)
    BY <1>1, <1>3, <1>5, <2>2 DEF OpenProjectReturns
  <2>3. CASE CloseProjectReturns
    BY <1>1, <1>3, <2>3 DEF CloseProjectReturns, Next1
  <2>4. CASE QueryReturns(Head(ui).names)
    BY <1>1, <1>3, <2>4 DEF QueryReturns
  <2>5. CASE RequeryReturns(Head(ui).names)
    BY <1>1, <1>3, <1>6, <2>5 DEF RequeryReturns, Next1
  <2>6. CASE Next1 /\ UNCHANGED <<initialized, projectOpen, status, slot, overtaken>>
    BY <1>1, <1>3, <2>6 DEF Next1
  <2> QED
    BY <2>1, <2>2, <2>3, <2>4, <2>5, <2>6 DEF DispatchReturned
<1> QED
  BY <1>1, <1>2, <1>4, <1>5, <1>7 DEF threadVars

LEMMA RefreshTypes ==
    ASSUME Types, UpdateProjectFileStatus \/ OnThreadExit \/ WaitForStatusThread
    PROVE  Types'
<1> USE DEF Types, TypeOK, moduleVars, callVars, threadVars
<1>1. StepRecords = [step : Steps, names : SUBSET Files]
  BY DEF StepRecords
<1>0. slot[1] # None => slot[1] \in StatusThreads
  OBVIOUS
<1>2. ASSUME NEW t, t # None => t \in StatusThreads
      PROVE  /\ StartNext(t) \in StatusThreads \cup {None}
             /\ t # None => WithAllNames(t) \in StatusThreads
             /\ t # None => [t EXCEPT !.started = TRUE] \in StatusThreads
  BY <1>2 DEF StartNext, WithAllNames, StatusThreads
<1>3. CASE UpdateProjectFileStatus
  <2>1. ui' \in Seq(StepRecords)
    BY <1>3, TailOfSteps DEF UpdateProjectFileStatus, At, Next1
  <2>2. NewStatusThread \in StatusThreads /\ NewStatusThread # None
    <3>1. NewStatusThread \in StatusThreads
      BY DEF NewStatusThread, StatusThreads, NoAnswer
    <3> QED
      BY <3>1, NoneIsNoValue
  <2>3. WithAllNames(NewStatusThread) \in StatusThreads
    BY <1>2, <2>2
  <2>4. [WithAllNames(NewStatusThread) EXCEPT !.started = TRUE] \in StatusThreads
    BY <1>2, <2>3, NoneIsNoValue
  <2>5. WithAllNames(IF slot[1] = None THEN NewStatusThread ELSE slot[1]) \in StatusThreads
    <3>1. slot[1] # None => WithAllNames(slot[1]) \in StatusThreads
      BY <1>2, <1>0
    <3> QED
      BY <2>3, <3>1
  <2>6. AskAgain \in [0 .. 1 -> StatusThreads \cup {None}]
    BY <2>4, <2>5 DEF AskAgain
  <2>7. slot' \in [0 .. 1 -> StatusThreads \cup {None}]
    BY <1>3, <2>6 DEF UpdateProjectFileStatus
  <2> QED
    BY <1>1, <1>3, <2>1, <2>7 DEF UpdateProjectFileStatus
<1>4. CASE OnThreadExit
  <2>1. StartNext(slot[1]) \in StatusThreads \cup {None}
    BY <1>0, <1>2
  <2>2. slot' \in [0 .. 1 -> StatusThreads \cup {None}] /\ events' \in 0 .. 1
    BY <1>4, <2>1 DEF OnThreadExit
  <2>3. status' \in [Files -> FileStatuses]
    BY <1>4, StatusesTyped DEF OnThreadExit
  <2>4. overtaken' \in SUBSET Files
    BY <1>4 DEF OnThreadExit
  <2> QED
    BY <1>1, <1>4, <2>2, <2>3, <2>4 DEF OnThreadExit
<1>5. CASE WaitForStatusThread
  <2>1. ui' \in Seq(StepRecords)
    BY <1>5, TailOfSteps DEF WaitForStatusThread, At, Next1
  <2> QED
    BY <1>1, <1>5, <2>1 DEF WaitForStatusThread
<1> QED
  BY <1>3, <1>4, <1>5

\* An operation the user starts leaves everything else as it is.
LEMMA StartTypes ==
    ASSUME Types, NEW steps \in Seq(StepRecords), Starts(steps),
           files' \in SUBSET Files, status' \in [Files -> FileStatuses],
           UNCHANGED overtaken
    PROVE  Types'
BY SourceControlAssumption
   DEF Starts, Types, TypeOK, moduleVars, threadVars, callVars, statusVars, StepRecords

LEMMA UserTypes ==
    ASSUME Types, User \/ AnswerDialog
    PROVE  Types'
<1>1. /\ files \in SUBSET Files /\ status \in [Files -> FileStatuses]
  BY DEF Types, TypeOK
<1>2. [f \in Files |-> "None"] \in [Files -> FileStatuses]
  BY DEF FileStatuses
<1>3. \A b \in BOOLEAN : InitializeSourceControl(b) \in Seq(StepRecords)
  <2>1. {"Shutdown", "CreateThread", "WaitForThread", "Initialize", "OpenProject",
         "UpdateAll"} \subseteq Steps
    BY DEF Steps, CommandKinds
  <2> QED
    BY <2>1, StepsTyped DEF InitializeSourceControl
<1>4. {"CheckOut", "CheckIn", "UndoCheckOut", "Show", "Query", "Requery", "Dialog", "AddFiles", "UpdateAll",
       "WaitForStatus", "Shutdown", "Gone"} \subseteq Steps
  BY DEF Steps, CommandKinds
<1>5. CASE AnswerDialog
  <2>1. ui' \in Seq(StepRecords)
    BY <1>5, TailOfSteps, StepsTyped DEF AnswerDialog, At, Next1
  <2> QED
    BY <1>5, <2>1 DEF AnswerDialog, Types, TypeOK, moduleVars, threadVars, callVars,
       statusVars, StepRecords
<1>6. ASSUME NEW b \in BOOLEAN, NEW names \in SUBSET Files,
             ChangeSettings(b) \/ SetProject(names, b)
      PROVE  Types'
  BY <1>1, <1>2, <1>3, <1>6, StartTypes DEF ChangeSettings, SetProject
<1>7. ASSUME NEW names \in SUBSET files, \/ CheckOut(names) \/ CheckIn(names)
             \/ UndoCheckOut(names) \/ ShowHistory(names)
      PROVE  Types'
  <2>1. names \in SUBSET Files
    BY <1>1
  <2>2. \A kind \in {"CheckOut", "CheckIn", "UndoCheckOut"} :
          <<Step(kind, names)>> \o Do("UpdateAll") \in Seq(StepRecords)
    BY <1>4, <2>1, StepsTyped
  <2>3. <<Step("Show", names)>> \in Seq(StepRecords)
    BY <1>4, <2>1, StepsTyped
  <2> QED
    BY <1>1, <1>7, <2>2, <2>3, StartTypes DEF CheckOut, CheckIn, UndoCheckOut, OnFiles, ShowHistory
<1>8. ASSUME NEW f \in Files, EditReadOnly(f) PROVE Types'
  <2>1. <<Step("Query", {f}), Step("Dialog", {f}), Step("CheckOut", {f}),
          Step("Requery", {f})>> \in Seq(StepRecords)
    BY <1>4 DEF Step, StepRecords
  <2> QED
    BY <1>1, <1>8, <2>1, StartTypes DEF EditReadOnly
<1>9. ASSUME NEW f \in Files, AddFile(f) PROVE Types'
  <2>1. \A add \in BOOLEAN :
          (IF add THEN <<Step("AddFiles", {f})>> ELSE <<>>) \o <<Step("Requery", {f})>>
            \in Seq(StepRecords)
    BY <1>4, StepsTyped
  <2>2. <<>> \in Seq(StepRecords)
    OBVIOUS
  <2> QED
    BY <1>1, <1>9, <2>1, <2>2, StartTypes DEF AddFile
<1>10. ASSUME NEW f \in Files, RemoveFile(f) PROVE Types'
  <2>1. status' \in [Files -> FileStatuses] /\ files' \in SUBSET Files
    BY <1>1, <1>10 DEF RemoveFile, FileStatuses
  <2> QED
    BY <1>10, <2>1, StartTypes, StepsTyped DEF RemoveFile
<1>11. CASE Refresh
  BY <1>1, <1>4, <1>11, StartTypes, StepsTyped DEF Refresh, NoFiles
<1>12. CASE CloseWindow
  <2>1. Do("WaitForStatus") \o Do("Shutdown") \o Do("Gone") \in Seq(StepRecords)
    BY <1>4, StepsTyped
  <2> QED
    BY <1>1, <1>12, <2>1, StartTypes DEF CloseWindow
<1> QED
  BY <1>5, <1>6, <1>7, <1>8, <1>9, <1>10, <1>11, <1>12 DEF User

LEMMA StepTypes == Types /\ [Next]_vars => Types'
<1> SUFFICES ASSUME Types, [Next]_vars PROVE Types'
  OBVIOUS
<1>1. CASE UNCHANGED vars
  BY <1>1 DEF Types, TypeOK, vars, windowVars, moduleVars, threadVars, callVars, statusVars
<1> QED
  BY <1>1, CommandThreadTypes, StatusThreadTypes, ShutdownTypes, DispatchTypes, ReturnTypes,
     RefreshTypes, UserTypes
  DEF Next, WindowWork

\* Every step of the window, of the command thread and of the status thread keeps the
\* types: files have one of the statuses the project knows, whatever a plug-in answers,
\* and there is at most one exit event.
THEOREM SourceControlTypes == Spec => []TypeOK
<1>1. Types => TypeOK
  BY DEF Types
<1> QED
  BY <1>1, InitTypes, StepTypes, PTL DEF Spec

-----------------------------------------------------------------------------
(* Commands. *)

\* A client that moves on does not leave a command behind.
LEMMA ClientMoves ==
    ASSUME Types, AliveInv, NEW c \in Clients, NEW v, UNCHANGED <<queue, running>>,
           at' = [at EXCEPT ![c] = v],
           v \in {"pushed", "waiting"} \/ at[c] \notin {"pushed", "waiting"}
    PROVE  AliveInv'
<1>1. \A d \in Clients : at[d] \in {"pushed", "waiting"} => at'[d] \in {"pushed", "waiting"}
  BY DEF Types, TypeOK
<1>2. /\ \A i \in DOMAIN queue : queue[i].by \in Clients
      /\ running # None => running.by \in Clients
  <2>1. queue \in Seq(Commands) /\ running \in Commands \cup {None}
    BY DEF Types, TypeOK
  <2>2. \A i \in DOMAIN queue : queue[i] \in Commands
    BY <2>1, ElementOfSeq, LenProperties
  <2> QED
    BY <2>1, <2>2 DEF Commands
<1> QED
  BY <1>1, <1>2 DEF AliveInv

LEMMA PushAlive ==
    ASSUME Types, AliveInv, UNCHANGED running, NEW c \in Clients, NEW kind, NEW names,
           Push(c, kind, names) \/ GetFilesStatus(c, kind, names)
    PROVE  AliveInv'
<1>1. CASE RunQueryDirectly(c, names)
  BY <1>1, ClientMoves DEF RunQueryDirectly
<1>2. CASE Push(c, kind, names)
  <2> DEFINE new == [by |-> c, kind |-> kind, names |-> names]
  <2>1. /\ queue \in Seq(Commands) /\ Len(queue) \in Nat /\ DOMAIN queue = 1 .. Len(queue)
        /\ at \in [Clients -> {"idle", "pushed", "waiting", "early", "returned"}]
    BY LenProperties DEF Types, TypeOK
  <2>2. /\ at[c] = "idle" /\ at' = [at EXCEPT ![c] = "pushed"]
        /\ queue' = Append(queue, new)
    BY <1>2 DEF Push
  <2>3. /\ DOMAIN queue' = 1 .. Len(queue) + 1 /\ queue'[Len(queue) + 1] = new
        /\ \A i \in 1 .. Len(queue) : queue'[i] = queue[i]
    BY <2>1, <2>2
  <2>4. \A i \in 1 .. Len(queue) : queue[i].by # c /\ at'[queue[i].by] = at[queue[i].by]
    <3>1. \A i \in 1 .. Len(queue) : queue[i].by # c
      BY <2>1, <2>2 DEF AliveInv
    <3>2. \A i \in 1 .. Len(queue) : queue[i].by \in Clients
      <4>1. \A i \in 1 .. Len(queue) : queue[i] \in Commands
        BY <2>1, ElementOfSeq
      <4> QED
        BY <4>1 DEF Commands
    <3> QED
      BY <2>1, <2>2, <3>1, <3>2
  <2>5. running # None => running.by # c /\ at'[running.by] = at[running.by]
    <3>1. running # None => running.by \in Clients
      BY DEF Types, TypeOK, Commands
    <3> QED
      BY <2>1, <2>2, <3>1 DEF AliveInv
  <2>6. new.by = c /\ at'[c] = "pushed"
    BY <2>1, <2>2
  <2> HIDE DEF new
  <2> QED
    BY <2>1, <2>3, <2>4, <2>5, <2>6 DEF AliveInv
<1> QED
  BY <1>1, <1>2 DEF GetFilesStatus

LEMMA CommandThreadAlive ==
    ASSUME Types, AliveInv, CommandThread
    PROVE  AliveInv'
<1>1. queue \in Seq(Commands) /\ Len(queue) \in Nat /\ DOMAIN queue = 1 .. Len(queue)
      /\ at \in [Clients -> {"idle", "pushed", "waiting", "early", "returned"}]
  BY LenProperties DEF Types, TypeOK
<1>2. CASE LoadPlugin \/ ThreadReady \/ CheckQueue \/ WaitForCommand
  BY <1>2 DEF LoadPlugin, ThreadReady, CheckQueue, WaitForCommand, callVars, AliveInv
<1>3. CASE TakeCommand
  <2>1. CASE queue = <<>>
    BY <1>3, <2>1 DEF TakeCommand, AliveInv
  <2>2. CASE queue # <<>>
    <3>1. running' = Head(queue) /\ queue' = Tail(queue) /\ UNCHANGED at
      BY <1>3, <2>2 DEF TakeCommand
    <3>2. /\ Len(queue) > 0 /\ running' = queue[1] /\ DOMAIN queue' = 1 .. Len(queue) - 1
          /\ \A i \in 1 .. Len(queue) - 1 : queue'[i] = queue[i + 1]
      BY <1>1, <2>2, <3>1, EmptySeq
    <3> QED
      BY <1>1, <3>1, <3>2 DEF AliveInv
  <2> QED
    BY <2>1, <2>2
<1>4. CASE RunCommand
  <2>1. running # None /\ running' = None /\ UNCHANGED queue
    BY <1>4 DEF RunCommand, Types
  <2>2. running.by \in Clients
    BY <2>1 DEF Types, TypeOK, Commands
  <2>3. PICK v : at' = [at EXCEPT ![running.by] = v]
    BY <1>4 DEF RunCommand, Complete
  <2>4. \A i \in DOMAIN queue : queue[i].by \in Clients /\ queue[i].by # running.by
    <3>1. \A i \in DOMAIN queue : queue[i] \in Commands
      BY <1>1, ElementOfSeq
    <3> QED
      BY <2>1, <3>1 DEF AliveInv, Commands
  <2> QED
    BY <1>1, <2>1, <2>2, <2>3, <2>4 DEF AliveInv
<1> QED
  BY <1>2, <1>3, <1>4 DEF CommandThread

LEMMA StepAlive == Types /\ AliveInv /\ [Next]_vars => AliveInv'
<1> SUFFICES ASSUME Types, AliveInv, [Next]_vars PROVE AliveInv'
  OBVIOUS
<1>1. ASSUME UNCHANGED <<queue, running, at>> PROVE AliveInv'
  BY <1>1 DEF AliveInv
<1>2. "window" \in Clients /\ "status" \in Clients
  BY DEF Clients
<1>3. ASSUME NEW c \in Clients, Signal(c) PROVE AliveInv'
  BY <1>3, ClientMoves DEF Signal, threadVars
<1>4. CASE StatusThread
  <2>1. CASE EntryQueries
    BY <1>2, <2>1, PushAlive DEF EntryQueries, threadVars
  <2>2. CASE EntryReturns
    BY <1>1, <1>2, <2>2, ClientMoves DEF EntryReturns, threadVars
  <2> QED
    BY <1>2, <1>3, <1>4, <2>1, <2>2 DEF StatusThread
<1>5. CASE Dispatch
  BY <1>2, <1>5, PushAlive DEF Dispatch, threadVars
<1>6. CASE DispatchReturned
  BY <1>2, <1>6, ClientMoves DEF DispatchReturned, threadVars
<1>7. CASE ShutdownBegins \/ ShutdownStops \/ ShutdownEnds \/ CreateCommandThread \/ WaitForThread
  BY <1>1, <1>7 DEF ShutdownBegins, ShutdownStops, ShutdownEnds, CreateCommandThread,
     WaitForThread, threadVars, callVars
<1>8. CASE UpdateProjectFileStatus \/ OnThreadExit \/ WaitForStatusThread \/ AnswerDialog
  BY <1>1, <1>8 DEF UpdateProjectFileStatus, OnThreadExit, WaitForStatusThread, AnswerDialog,
     threadVars, callVars
<1>9. CASE User
  <2>1. \A steps : Starts(steps) => UNCHANGED <<queue, running, at>>
    BY DEF Starts, threadVars, callVars
  <2> QED
    BY <1>1, <1>9, <2>1 DEF User, ChangeSettings, SetProject, CheckOut, CheckIn, UndoCheckOut, OnFiles,
       ShowHistory, EditReadOnly, AddFile, RemoveFile, Refresh, CloseWindow
<1>10. CASE UNCHANGED vars
  BY <1>1, <1>10 DEF vars, threadVars, callVars
<1> QED
  BY <1>2, <1>3, <1>4, <1>5, <1>6, <1>7, <1>8, <1>9, <1>10, CommandThreadAlive
  DEF Next, WindowWork

\* The command thread never holds a command whose client has gone on: Complete is called
\* once for each, and the queue is not cleared when a thread is replaced by another.
THEOREM HeldCommandsAreAlive == Spec => []CommandsAreAlive
<1>1. Init => AliveInv
  BY DEF Init, AliveInv
<1>2. Types /\ AliveInv => CommandsAreAlive
  BY AliveIsAlive
<1> QED
  BY <1>1, <1>2, InitTypes, StepTypes, StepAlive, PTL DEF Spec

-----------------------------------------------------------------------------
(* Status threads. *)

\* Where the first status thread is: it is in a call only while it runs, and a thread in
\* the second slot has not started.
StatusInv ==
    /\ events > 0 => slot[0] # None /\ slot[0].started /\ at["status"] = "idle"
    /\ slot[1] # None => slot[0] # None /\ ~slot[1].started
    /\ at["status"] # "idle" => /\ slot[0] # None /\ slot[0].started
                                /\ slot[0].names # {} /\ events = 0

LEMMA StepStatus == Types /\ AliveInv /\ StatusInv /\ [Next]_vars => StatusInv'
<1> SUFFICES ASSUME Types, AliveInv, StatusInv, [Next]_vars PROVE StatusInv'
  OBVIOUS
<1>0. /\ at \in [Clients -> {"idle", "pushed", "waiting", "early", "returned"}]
      /\ slot \in [0 .. 1 -> StatusThreads \cup {None}] /\ events \in 0 .. 1
      /\ "window" \in Clients /\ "status" \in Clients /\ "window" # "status"
  BY DEF Types, TypeOK, Clients
<1>1. ASSUME UNCHANGED <<slot, events>>,
             at'["status"] # "idle" => at["status"] # "idle",
             at["status"] = "idle" => at'["status"] = "idle"
      PROVE  StatusInv'
  BY <1>0, <1>1 DEF StatusInv
<1>2. CASE EntryQueries
  <2>1. UNCHANGED <<slot, events>> /\ slot[0] # None /\ slot[0].started /\ events = 0
        /\ slot[0].names # {}
    BY <1>2 DEF EntryQueries, StatusRuns, statusVars
  <2> QED
    BY <2>1 DEF StatusInv
<1>3. CASE EntryReturns
  <2>1. /\ slot[0] # None /\ slot[0].started /\ events = 0 /\ events' = 1
        /\ at'["status"] = "idle"
    BY <1>0, <1>3 DEF EntryReturns, StatusRuns, StatusInv
  <2>2. slot'[0] # None /\ slot'[0].started /\ slot'[1] = slot[1]
    <3>1. slot[0] \in StatusThreads
      BY <1>0, <2>1
    <3>2. \A g : [slot[0] EXCEPT !.found = g].started = slot[0].started
      BY <3>1 DEF StatusThreads
    <3>3. [slot[0] EXCEPT !.found = answer["status"].of] \in StatusThreads
      BY <1>0, <3>1 DEF Types, TypeOK, Answers, StatusThreads
    <3> DEFINE t == [slot[0] EXCEPT !.found = answer["status"].of]
    <3>4. slot' = [slot EXCEPT ![0] = t] \/ slot' = slot
      BY <1>3 DEF EntryReturns
    <3>5. t # None /\ t.started
      BY <2>1, <3>2, <3>3, NoneIsNoValue
    <3> HIDE DEF t
    <3> QED
      BY <1>0, <2>1, <3>4, <3>5
  <2> QED
    BY <2>1, <2>2 DEF StatusInv
<1>4. ASSUME NEW c \in Clients, Signal(c) PROVE StatusInv'
  BY <1>0, <1>1, <1>4 DEF Signal, statusVars
<1>5. CASE CommandThread
  <2>1. UNCHANGED <<slot, events>>
    BY <1>5 DEF CommandThread, LoadPlugin, ThreadReady, CheckQueue, WaitForCommand,
       TakeCommand, RunCommand, statusVars
  <2>2. CASE RunCommand
    <3>1. running.by \in Clients /\ at[running.by] # "idle"
      BY <2>2 DEF RunCommand, Types, TypeOK, Commands, AliveInv
    <3>2. at'["status"] # "idle" <=> at["status"] # "idle"
      BY <1>0, <2>2, <3>1 DEF RunCommand, Complete
    <3> QED
      BY <1>1, <2>1, <3>2
  <2>3. CASE ~RunCommand
    BY <1>1, <1>5, <2>1, <2>3 DEF CommandThread, LoadPlugin, ThreadReady, CheckQueue,
       WaitForCommand, TakeCommand, callVars
  <2> QED
    BY <2>2, <2>3
<1>6. CASE Dispatch
  <2>1. \E v : at' = [at EXCEPT !["window"] = v]
    BY <1>6 DEF Dispatch, GetFilesStatus, RunQueryDirectly, Push
  <2> QED
    BY <1>0, <1>1, <1>6, <2>1 DEF Dispatch, statusVars
<1>7. CASE DispatchReturned
  <2>1. at' = [at EXCEPT !["window"] = "idle"] /\ UNCHANGED events
    BY <1>7 DEF DispatchReturned
  <2>2. \/ UNCHANGED slot
        \/ \E names \in SUBSET Files : slot' = [slot EXCEPT ![0] = Overtake(slot[0], names)]
    <3>1. ui # <<>>
      BY <1>7 DEF DispatchReturned
    <3>2. Head(ui).names \in SUBSET Files
      BY <3>1, TailOfSteps
    <3>3. UNCHANGED slot \/ RequeryReturns(Head(ui).names)
      BY <1>7 DEF DispatchReturned, InitializeReturns, OpenProjectReturns,
         CloseProjectReturns, QueryReturns
    <3> QED
      BY <3>2, <3>3 DEF RequeryReturns, SingleStatus
  <2>3. ASSUME NEW names \in SUBSET Files, slot[0] # None
        PROVE  /\ Overtake(slot[0], names) # None
               /\ Overtake(slot[0], names).started = slot[0].started
               /\ Overtake(slot[0], names).names = slot[0].names
    <3>1. slot[0] \in StatusThreads
      BY <1>0, <2>3
    <3>2. Overtake(slot[0], names) = [slot[0] EXCEPT !.late = @ \cup names]
      BY <2>3 DEF Overtake
    <3>3. Overtake(slot[0], names) \in StatusThreads
      BY <3>1, <3>2 DEF StatusThreads
    <3> QED
      BY <3>1, <3>2, <3>3, NoneIsNoValue DEF StatusThreads
  <2>4. /\ slot'[1] = slot[1]
        /\ slot[0] # None => /\ slot'[0] # None /\ slot'[0].started = slot[0].started
                             /\ slot'[0].names = slot[0].names
    <3>1. CASE UNCHANGED slot
      BY <3>1
    <3>2. ASSUME NEW names \in SUBSET Files,
                 slot' = [slot EXCEPT ![0] = Overtake(slot[0], names)]
          PROVE  <2>4
      <4>1. slot'[0] = Overtake(slot[0], names) /\ slot'[1] = slot[1]
        BY <1>0, <3>2
      <4> QED
        BY <2>3, <4>1
    <3> QED
      BY <2>2, <3>1, <3>2
  <2>5. at'["status"] = at["status"]
    BY <1>0, <2>1
  <2> QED
    BY <2>1, <2>4, <2>5 DEF StatusInv
<1>8. CASE UpdateProjectFileStatus
  <2>1. UNCHANGED <<at, events>> /\ slot' \in {AskAgain, slot}
    BY <1>8 DEF UpdateProjectFileStatus, callVars
  <2>2. \A t : /\ WithAllNames(t).started = t.started \/ t \notin StatusThreads
               /\ [t EXCEPT !.started = TRUE].started \/ t \notin StatusThreads
    BY DEF WithAllNames, StatusThreads
  <2>3. NewStatusThread \in StatusThreads /\ ~NewStatusThread.started
        /\ WithAllNames(NewStatusThread) \in StatusThreads
    BY <1>0 DEF NewStatusThread, StatusThreads, NoAnswer, WithAllNames, Types, TypeOK
  <2>4. CASE slot' = AskAgain /\ slot[0] = None
    <3> DEFINE t == [WithAllNames(NewStatusThread) EXCEPT !.started = TRUE]
    <3>1. t \in StatusThreads /\ t.started
      BY <2>2, <2>3 DEF StatusThreads
    <3>2. slot' = [slot EXCEPT ![0] = t]
      BY <2>4 DEF AskAgain
    <3> HIDE DEF t
    <3>3. slot'[0] = t /\ slot'[1] = slot[1]
      BY <1>0, <3>2
    <3> QED
      BY <2>1, <2>4, <3>1, <3>3, NoneIsNoValue DEF StatusInv
  <2>5. CASE slot' = AskAgain /\ slot[0] # None
    <3> DEFINE t == IF slot[1] = None THEN NewStatusThread ELSE slot[1]
    <3>1. t \in StatusThreads /\ ~t.started
      BY <1>0, <2>3 DEF StatusInv
    <3>2. slot' = [slot EXCEPT ![1] = WithAllNames(t)]
      BY <2>5 DEF AskAgain
    <3> HIDE DEF t
    <3>3. slot'[1] = WithAllNames(t) /\ slot'[0] = slot[0] /\ ~WithAllNames(t).started
      BY <1>0, <2>2, <3>1, <3>2
    <3> QED
      BY <2>1, <2>5, <3>3 DEF StatusInv
  <2>6. CASE slot' = slot
    BY <1>1, <2>1, <2>6
  <2> QED
    BY <2>1, <2>4, <2>5, <2>6
<1>9. CASE OnThreadExit
  <2>1. UNCHANGED at /\ events > 0 /\ events' = events - 1
        /\ slot' = [i \in 0 .. 1 |-> IF i = 0 THEN StartNext(slot[1]) ELSE None]
    BY <1>9 DEF OnThreadExit, callVars
  <2>2. events' = 0 /\ at'["status"] = "idle" /\ slot'[1] = None
    BY <1>0, <2>1 DEF StatusInv
  <2> QED
    BY <2>2 DEF StatusInv
<1>10. CASE WaitForStatusThread
  <2>1. UNCHANGED at /\ (slot[0] = None \/ events > 0) /\ events' = 0
        /\ slot' = [i \in 0 .. 1 |-> None]
    BY <1>10 DEF WaitForStatusThread, callVars
  <2>2. at'["status"] = "idle" /\ slot'[1] = None
    BY <1>0, <2>1 DEF StatusInv
  <2> QED
    BY <2>1, <2>2 DEF StatusInv
<1>11. CASE ShutdownBegins \/ ShutdownStops \/ ShutdownEnds \/ CreateCommandThread \/ WaitForThread
  BY <1>1, <1>11 DEF ShutdownBegins, ShutdownStops, ShutdownEnds, CreateCommandThread,
     WaitForThread, statusVars, callVars
<1>12. CASE AnswerDialog \/ UNCHANGED vars
  BY <1>1, <1>12 DEF AnswerDialog, statusVars, callVars, vars
<1>13. CASE User
  <2>1. \A steps : Starts(steps) => UNCHANGED <<slot, events, at>>
    BY DEF Starts, statusVars, callVars
  <2> QED
    BY <1>1, <1>13, <2>1 DEF User, ChangeSettings, SetProject, CheckOut, CheckIn, UndoCheckOut, OnFiles,
       ShowHistory, EditReadOnly, AddFile, RemoveFile, Refresh, CloseWindow
<1> QED
  BY <1>0, <1>2, <1>3, <1>4, <1>5, <1>6, <1>7, <1>8, <1>9, <1>10, <1>11, <1>12, <1>13
  DEF Next, WindowWork, StatusThread

\* However refreshes, single updates and answers interleave, OnThreadExit handles the exit
\* of the thread it takes it to be of, and the second thread starts only then.
THEOREM ExitIsOfFirstThread == Spec => []ExitEventIsOfFirstThread
<1>1. Init => AliveInv /\ StatusInv
  BY DEF Init, AliveInv, StatusInv, Clients
<1>2. StatusInv => ExitEventIsOfFirstThread
  BY DEF StatusInv, ExitEventIsOfFirstThread
<1> QED
  BY <1>1, <1>2, InitTypes, StepTypes, StepAlive, StepStatus, PTL DEF Spec

LEMMA StepKeepsNames ==
    ASSUME Types, Next, slot[0] # None, slot[0].started, events = 0, slot'[0] # None
    PROVE  slot'[0].names = slot[0].names
<1>0. slot \in [0 .. 1 -> StatusThreads \cup {None}] /\ slot[0] \in StatusThreads
  BY DEF Types, TypeOK
<1>1. CASE EntryReturns
  <2> DEFINE t == [slot[0] EXCEPT !.found = answer["status"].of]
  <2>1. slot' = [slot EXCEPT ![0] = t] \/ slot' = slot
    BY <1>1 DEF EntryReturns
  <2>2. t.names = slot[0].names
    BY <1>0 DEF StatusThreads
  <2> HIDE DEF t
  <2> QED
    BY <1>0, <2>1, <2>2
<1>2. CASE DispatchReturned
  <2>1. \/ UNCHANGED slot
        \/ \E names : slot' = [slot EXCEPT ![0] = Overtake(slot[0], names)]
    BY <1>2 DEF DispatchReturned, InitializeReturns, OpenProjectReturns, CloseProjectReturns,
       QueryReturns, RequeryReturns, SingleStatus
  <2>2. \A names : Overtake(slot[0], names).names = slot[0].names
    BY <1>0 DEF Overtake, StatusThreads
  <2> QED
    BY <1>0, <2>1, <2>2
<1>3. CASE UpdateProjectFileStatus
  BY <1>0, <1>3 DEF UpdateProjectFileStatus, AskAgain
<1>4. CASE OnThreadExit
  BY <1>4 DEF OnThreadExit
<1>5. CASE WaitForStatusThread
  BY <1>5 DEF WaitForStatusThread
<1>6. ASSUME UNCHANGED slot PROVE slot'[0].names = slot[0].names
  BY <1>6
<1>7. CASE EntryQueries \/ (\E c \in Clients : Signal(c)) \/ CommandThread \/ Dispatch
  BY <1>6, <1>7 DEF EntryQueries, Signal, CommandThread, LoadPlugin, ThreadReady, CheckQueue,
     WaitForCommand, TakeCommand, RunCommand, Dispatch, statusVars
<1>8. CASE ShutdownBegins \/ ShutdownStops \/ ShutdownEnds \/ CreateCommandThread
           \/ WaitForThread \/ AnswerDialog
  BY <1>6, <1>8 DEF ShutdownBegins, ShutdownStops, ShutdownEnds, CreateCommandThread,
     WaitForThread, AnswerDialog, statusVars
<1>9. CASE User
  <2>1. \A steps : Starts(steps) => UNCHANGED slot
    BY DEF Starts, statusVars
  <2> QED
    BY <1>6, <1>9, <2>1 DEF User, ChangeSettings, SetProject, CheckOut, CheckIn, UndoCheckOut, OnFiles,
       ShowHistory, EditReadOnly, AddFile, RemoveFile, Refresh, CloseWindow
<1> QED
  BY <1>1, <1>2, <1>3, <1>4, <1>5, <1>7, <1>8, <1>9
  DEF Next, WindowWork, StatusThread, Clients

\* A thread that runs reads its names without a lock: nobody adds to them any more, and
\* the thread in the second slot takes later ones.
THEOREM NamesAreFixed == Spec => NamesFixedOnceStarted
<1>1. Types /\ [Next]_vars =>
        [slot[0] # None /\ slot[0].started /\ events = 0 /\ slot'[0] # None
           => slot'[0].names = slot[0].names]_vars
  BY StepKeepsNames
<1> QED
  BY <1>1, InitTypes, StepTypes, PTL DEF Spec, NamesFixedOnceStarted

-----------------------------------------------------------------------------
(***************************************************************************)
(* The statuses the project shows when nothing is under way are the ones   *)
(* of the repository, for any files and number of operations, if plug-ins  *)
(* answer their queries: QuietStatusIsCurrent of SourceControl.            *)
(*                                                                         *)
(* A file is in time (a thread that waits or runs will bring its status,   *)
(* or the one shown is current) or lifted (the window's handler has an     *)
(* update of it still to make).  That the handler does make it rests on    *)
(* the form of handlers, that a command that runs is the one its client    *)
(* waits for, and that the plug-in is ready until it is shut down.         *)
(***************************************************************************)

Changing == {"CheckOut", "CheckIn", "UndoCheckOut", "AddFiles"}
Refreshing == {"UpdateAll", "Gone", "Shutdown", "Join"}
EndsIn(s) == s[Len(s)]

\* What the window's handlers are made of, for a handler and what is left of it: a change
\* of the repository is followed by an update, an update that may be given up is of a
\* single file, and source control is shut down, and its thread created, in this order.
FormAt(s, i) ==
    /\ s[i].step \in Changing =>
         /\ i + 1 = Len(s)
         /\ \/ EndsIn(s).step = "UpdateAll"
            \/ EndsIn(s).step = "Requery" /\ EndsIn(s).names = s[i].names
    /\ s[i].step \in {"Query", "Dialog"} => EndsIn(s).step = "Requery"
    /\ s[i].step = "Requery" => i = Len(s)
    /\ s[i].step \in {"WaitForStatus", "Shutdown", "Uninitialize", "Join", "Initialize"}
         => EndsIn(s).step \in Refreshing
    /\ s[i].step = "Uninitialize" => \E j \in DOMAIN s : j > i /\ s[j].step = "Join"
    /\ s[i].step = "Join" => \A j \in DOMAIN s : j < i =>
                               s[j].step \in {"CloseProject", "Uninitialize", "Stop"}
    /\ s[i].step = "CreateThread" /\ i > 1 => s[i - 1].step \in {"Shutdown", "Join"}

Form(s) == \A i \in DOMAIN s : FormAt(s, i)
FormInv == Form(ui)

\* A command that is held is the one its client waits for.
IsOfClient(c) ==
    /\ c.by = "window" => Head(ui).step = c.kind /\ Head(ui).names = c.names
    /\ c.by = "status" => c.kind = "Query" /\ c.names = slot[0].names
CommandInv ==
    /\ at["window"] # "idle" => ui # <<>> /\ Head(ui).step \in CommandKinds
    /\ \A i \in DOMAIN queue : IsOfClient(queue[i])
    /\ running # None => IsOfClient(running)

\* A plug-in that is initialized is ready until the window shuts it down.
Closing == \E i \in DOMAIN ui : ui[i].step = "Join"
Answered(c) == at[c] \in {"early", "returned"}
ModuleInv ==
    /\ initialized => plugin = "ready" \/ Closing
    /\ thread = "load" => plugin = "none"
    /\ At("CreateThread") => plugin = "none" /\ thread = "none" /\ ~initialized
    /\ At("Initialize") /\ Answered("window") /\ answer["window"].ok => plugin = "ready"
    /\ at["window"] \in {"pushed", "waiting"} => ~answer["window"].ok

\* A status thread has answers for its names only, a thread that waits has none.
AnswerInv ==
    /\ Answered("status") =>
         \A f \in Files : answer["status"].of[f] # None => f \in slot[0].names
    /\ slot[0] # None => \A f \in Files : slot[0].found[f] # None => f \in slot[0].names
    /\ slot[1] # None => slot[1].late = {} /\ slot[1].found = NoAnswer.of

\* The status of a file is up to date, or will be without anything the window has to do:
\* by the thread that waits, by the one that runs, or it was updated since that one began.
Shown(f) == status[f] = FileStatus(repository[f])
Fresh(f) ==
    /\ Answered("status") => answer["status"].of[f] = repository[f]
    /\ events > 0 => slot[0].found[f] = repository[f]
InTime(f) ==
    \/ slot[1] # None /\ f \in slot[1].names
    \/ slot[0] # None /\ f \in slot[0].names \ slot[0].late /\ Fresh(f)
    \/ slot[0] # None /\ f \in slot[0].late /\ Shown(f)
    \/ /\ slot[0] # None => f \notin slot[0].names \cup slot[0].late
       /\ Shown(f) \/ f \in overtaken

\* The window's handler will update the status of a file before it ends.
Lifted(f) ==
    /\ ui # <<>>
    /\ \/ EndsIn(ui).step \in Refreshing
       \/ /\ Head(ui).step \in Changing \cup {"Requery"}
          /\ EndsIn(ui).step = "Requery" /\ f \in EndsIn(ui).names
UpdateInv == initialized => \A f \in files : Lifted(f) \/ InTime(f)

\* The answer a single update is made of is still true when it is used.
RequeryInv ==
    At("Requery") /\ Answered("window") /\ initialized =>
        \A f \in Head(ui).names : answer["window"].of[f] = repository[f]

-----------------------------------------------------------------------------
(* Handlers. *)

LEMMA TailKeepsForm ==
    ASSUME NEW s \in Seq(StepRecords), s # <<>>, Form(s)
    PROVE  Form(Tail(s))
<1> DEFINE t == Tail(s)
<1>1. /\ Len(s) \in Nat \ {0} /\ DOMAIN s = 1 .. Len(s)
      /\ Len(t) = Len(s) - 1 /\ DOMAIN t = 1 .. Len(s) - 1
      /\ \A i \in 1 .. Len(s) - 1 : t[i] = s[i + 1]
  BY EmptySeq
<1>2. t # <<>> => EndsIn(t) = EndsIn(s)
  BY <1>1 DEF EndsIn
<1> SUFFICES ASSUME NEW i \in DOMAIN t PROVE FormAt(t, i)
  BY DEF Form
<1> HIDE DEF t
<1>3. i \in Nat /\ i + 1 \in DOMAIN s /\ t[i] = s[i + 1] /\ EndsIn(t) = EndsIn(s)
  BY <1>1, <1>2
<1>4. FormAt(s, i + 1)
  BY <1>3 DEF Form
<1>5. t[i].step = "Uninitialize" => \E j \in DOMAIN t : j > i /\ t[j].step = "Join"
  <2> SUFFICES ASSUME t[i].step = "Uninitialize"
               PROVE  \E j \in DOMAIN t : j > i /\ t[j].step = "Join"
    OBVIOUS
  <2>1. PICK j \in DOMAIN s : j > i + 1 /\ s[j].step = "Join"
    BY <1>3, <1>4 DEF FormAt
  <2>2. j - 1 \in DOMAIN t /\ j - 1 > i /\ t[j - 1].step = "Join"
    BY <1>1, <1>3, <2>1
  <2> QED
    BY <2>2
<1>6. t[i].step = "Join" => \A j \in DOMAIN t : j < i =>
                              t[j].step \in {"CloseProject", "Uninitialize", "Stop"}
  <2> SUFFICES ASSUME t[i].step = "Join", NEW j \in DOMAIN t, j < i
               PROVE  t[j].step \in {"CloseProject", "Uninitialize", "Stop"}
    OBVIOUS
  <2>1. j + 1 \in DOMAIN s /\ j + 1 < i + 1 /\ t[j] = s[j + 1]
    BY <1>1, <1>3
  <2> QED
    BY <1>3, <1>4, <2>1 DEF FormAt
<1>7. t[i].step = "CreateThread" /\ i > 1 => t[i - 1].step \in {"Shutdown", "Join"}
  <2>1. i > 1 => t[i - 1] = s[(i + 1) - 1] /\ i + 1 > 1
    BY <1>1, <1>3
  <2> QED
    BY <1>3, <1>4, <2>1 DEF FormAt
<1>8. /\ i + 1 = Len(t) <=> (i + 1) + 1 = Len(s)
      /\ i = Len(t) <=> i + 1 = Len(s)
  BY <1>1, <1>3
<1> QED
  BY <1>3, <1>4, <1>5, <1>6, <1>7, <1>8 DEF FormAt

LEMMA Joined ==
    ASSUME NEW S, NEW s \in Seq(S), NEW t \in Seq(S), NEW u \in Seq(S),
           Len(u) = Len(s) + Len(t), \A i \in 1 .. Len(s) : u[i] = s[i],
           \A i \in 1 .. Len(t) : u[i + Len(s)] = t[i]
    PROVE  s \o t = u
<1>1. /\ s \o t \in Seq(S) /\ Len(s \o t) = Len(u)
      /\ \A i \in 1 .. Len(s) + Len(t) : (s \o t)[i] =
            IF i <= Len(s) THEN s[i] ELSE t[i - Len(s)]
  BY ConcatProperties
<1>2. ASSUME NEW i \in 1 .. Len(s \o t) PROVE (s \o t)[i] = u[i]
  <2>1. CASE i <= Len(s)
    BY <1>1, <2>1, LenProperties
  <2>2. CASE i > Len(s)
    <3>1. i - Len(s) \in 1 .. Len(t) /\ (i - Len(s)) + Len(s) = i
      BY <1>1, <2>2, LenProperties
    <3>2. u[(i - Len(s)) + Len(s)] = t[i - Len(s)]
      BY <3>1
    <3> QED
      BY <1>1, <2>2, <3>1, <3>2, LenProperties
  <2> QED
    BY <2>1, <2>2, <1>1, LenProperties
<1> QED
  BY <1>1, <1>2, SeqEqual

(* The concatenations handlers are made of, written out. *)
LEMMA Chains ==
    /\ \A a, b \in StepRecords : <<a>> \o <<b>> = <<a, b>>
    /\ \A a, b, c \in StepRecords : <<a, b>> \o <<c>> = <<a, b, c>>
    /\ \A a, b, c, d \in StepRecords : <<a, b, c>> \o <<d>> = <<a, b, c, d>>
    /\ \A a, b, c, d, e \in StepRecords : <<a>> \o <<b, c, d, e>> = <<a, b, c, d, e>>
    /\ \A a, b, c, d, e, f \in StepRecords : <<a, b, c, d, e>> \o <<f>> = <<a, b, c, d, e, f>>
<1>1. ASSUME NEW a \in StepRecords, NEW b \in StepRecords
      PROVE  <<a>> \o <<b>> = <<a, b>>
  <2> DEFINE s == <<a>>  t == <<b>>  u == <<a, b>>
  <2>1. s \in Seq(StepRecords) /\ t \in Seq(StepRecords) /\ u \in Seq(StepRecords)
    OBVIOUS
  <2>2. Len(s) = 1 /\ Len(t) = 1 /\ Len(u) = 2
    OBVIOUS
  <2>3. u[1] = s[1]
    OBVIOUS
  <2>4. u[2] = t[1]
    OBVIOUS
  <2> HIDE DEF s, t, u
  <2>5. /\ Len(u) = Len(s) + Len(t)
        /\ \A i \in 1 .. Len(s) : u[i] = s[i]
        /\ \A i \in 1 .. Len(t) : u[i + Len(s)] = t[i]
    BY <2>2, <2>3, <2>4
  <2>6. s \o t = u
    BY <2>1, <2>5, Joined
  <2> QED
    BY <2>6 DEF s, t, u
<1>2. ASSUME NEW a \in StepRecords, NEW b \in StepRecords, NEW c \in StepRecords
      PROVE  <<a, b>> \o <<c>> = <<a, b, c>>
  <2> DEFINE s == <<a, b>>  t == <<c>>  u == <<a, b, c>>
  <2>1. s \in Seq(StepRecords) /\ t \in Seq(StepRecords) /\ u \in Seq(StepRecords)
    OBVIOUS
  <2>2. Len(s) = 2 /\ Len(t) = 1 /\ Len(u) = 3
    OBVIOUS
  <2>3. u[1] = s[1] /\ u[2] = s[2]
    OBVIOUS
  <2>4. u[3] = t[1]
    OBVIOUS
  <2> HIDE DEF s, t, u
  <2>5. /\ Len(u) = Len(s) + Len(t)
        /\ \A i \in 1 .. Len(s) : u[i] = s[i]
        /\ \A i \in 1 .. Len(t) : u[i + Len(s)] = t[i]
    BY <2>2, <2>3, <2>4
  <2>6. s \o t = u
    BY <2>1, <2>5, Joined
  <2> QED
    BY <2>6 DEF s, t, u
<1>3. ASSUME NEW a \in StepRecords, NEW b \in StepRecords, NEW c \in StepRecords, NEW d \in StepRecords
      PROVE  <<a, b, c>> \o <<d>> = <<a, b, c, d>>
  <2> DEFINE s == <<a, b, c>>  t == <<d>>  u == <<a, b, c, d>>
  <2>1. s \in Seq(StepRecords) /\ t \in Seq(StepRecords) /\ u \in Seq(StepRecords)
    OBVIOUS
  <2>2. Len(s) = 3 /\ Len(t) = 1 /\ Len(u) = 4
    OBVIOUS
  <2>3. u[1] = s[1] /\ u[2] = s[2] /\ u[3] = s[3]
    OBVIOUS
  <2>4. u[4] = t[1]
    OBVIOUS
  <2> HIDE DEF s, t, u
  <2>5. /\ Len(u) = Len(s) + Len(t)
        /\ \A i \in 1 .. Len(s) : u[i] = s[i]
        /\ \A i \in 1 .. Len(t) : u[i + Len(s)] = t[i]
    BY <2>2, <2>3, <2>4
  <2>6. s \o t = u
    BY <2>1, <2>5, Joined
  <2> QED
    BY <2>6 DEF s, t, u
<1>4. ASSUME NEW a \in StepRecords, NEW b \in StepRecords, NEW c \in StepRecords, NEW d \in StepRecords, NEW e \in StepRecords
      PROVE  <<a>> \o <<b, c, d, e>> = <<a, b, c, d, e>>
  <2> DEFINE s == <<a>>  t == <<b, c, d, e>>  u == <<a, b, c, d, e>>
  <2>1. s \in Seq(StepRecords) /\ t \in Seq(StepRecords) /\ u \in Seq(StepRecords)
    OBVIOUS
  <2>2. Len(s) = 1 /\ Len(t) = 4 /\ Len(u) = 5
    OBVIOUS
  <2>3. u[1] = s[1]
    OBVIOUS
  <2>4. u[2] = t[1] /\ u[3] = t[2] /\ u[4] = t[3] /\ u[5] = t[4]
    OBVIOUS
  <2> HIDE DEF s, t, u
  <2>5. /\ Len(u) = Len(s) + Len(t)
        /\ \A i \in 1 .. Len(s) : u[i] = s[i]
        /\ \A i \in 1 .. Len(t) : u[i + Len(s)] = t[i]
    BY <2>2, <2>3, <2>4
  <2>6. s \o t = u
    BY <2>1, <2>5, Joined
  <2> QED
    BY <2>6 DEF s, t, u
<1>5. ASSUME NEW a \in StepRecords, NEW b \in StepRecords, NEW c \in StepRecords, NEW d \in StepRecords, NEW e \in StepRecords, NEW f \in StepRecords
      PROVE  <<a, b, c, d, e>> \o <<f>> = <<a, b, c, d, e, f>>
  <2> DEFINE s == <<a, b, c, d, e>>  t == <<f>>  u == <<a, b, c, d, e, f>>
  <2>1. s \in Seq(StepRecords) /\ t \in Seq(StepRecords) /\ u \in Seq(StepRecords)
    OBVIOUS
  <2>2. Len(s) = 5 /\ Len(t) = 1 /\ Len(u) = 6
    OBVIOUS
  <2>3. u[1] = s[1] /\ u[2] = s[2] /\ u[3] = s[3] /\ u[4] = s[4] /\ u[5] = s[5]
    OBVIOUS
  <2>4. u[6] = t[1]
    OBVIOUS
  <2> HIDE DEF s, t, u
  <2>5. /\ Len(u) = Len(s) + Len(t)
        /\ \A i \in 1 .. Len(s) : u[i] = s[i]
        /\ \A i \in 1 .. Len(t) : u[i + Len(s)] = t[i]
    BY <2>2, <2>3, <2>4
  <2>6. s \o t = u
    BY <2>1, <2>5, Joined
  <2> QED
    BY <2>6 DEF s, t, u
<1> QED
  BY <1>1, <1>2, <1>3, <1>4, <1>5

LEMMA OneStepForm ==
    /\ Form(<<>>)
    /\ \A names : Form(<<Step("Requery", names)>>) /\ Form(<<Step("Show", names)>>)
    /\ Form(Do("Shutdown")) /\ Form(Do("UpdateAll"))
BY DEF Form, FormAt, EndsIn, Do, Step, Changing, Refreshing

LEMMA InitializeSteps ==
    /\ InitializeSourceControl(TRUE) =
        <<Step("Shutdown", NoFiles), Step("CreateThread", NoFiles),
          Step("WaitForThread", NoFiles), Step("Initialize", NoFiles),
          Step("OpenProject", NoFiles), Step("UpdateAll", NoFiles)>>
    /\ InitializeSourceControl(FALSE) = <<Step("Shutdown", NoFiles), Step("UpdateAll", NoFiles)>>
<1> USE DEF Do
<1>1. InitializeSourceControl(TRUE) =
        <<Step("Shutdown", NoFiles), Step("CreateThread", NoFiles),
          Step("WaitForThread", NoFiles), Step("Initialize", NoFiles),
          Step("OpenProject", NoFiles), Step("UpdateAll", NoFiles)>>
  <2> DEFINE s == <<Step("Shutdown", NoFiles), Step("CreateThread", NoFiles),
                    Step("WaitForThread", NoFiles), Step("Initialize", NoFiles),
                    Step("OpenProject", NoFiles), Step("UpdateAll", NoFiles)>>
  <2>1. \A name \in {"Shutdown", "CreateThread", "WaitForThread", "Initialize", "OpenProject",
                     "UpdateAll"} : Step(name, NoFiles) \in StepRecords
    BY DEF Step, StepRecords, Steps, CommandKinds, NoFiles
  <2>2. /\ Do("CreateThread") \o Do("WaitForThread")
             = <<Step("CreateThread", NoFiles), Step("WaitForThread", NoFiles)>>
        /\ <<Step("CreateThread", NoFiles), Step("WaitForThread", NoFiles)>>
             \o Do("Initialize")
             = <<Step("CreateThread", NoFiles), Step("WaitForThread", NoFiles),
                 Step("Initialize", NoFiles)>>
        /\ <<Step("CreateThread", NoFiles), Step("WaitForThread", NoFiles),
             Step("Initialize", NoFiles)>> \o Do("OpenProject")
             = <<Step("CreateThread", NoFiles), Step("WaitForThread", NoFiles),
                 Step("Initialize", NoFiles), Step("OpenProject", NoFiles)>>
    BY <2>1, Chains, SMTT(30)
  <2>3. /\ Do("Shutdown") \o <<Step("CreateThread", NoFiles), Step("WaitForThread", NoFiles),
                              Step("Initialize", NoFiles), Step("OpenProject", NoFiles)>>
             = <<Step("Shutdown", NoFiles), Step("CreateThread", NoFiles),
                 Step("WaitForThread", NoFiles), Step("Initialize", NoFiles),
                 Step("OpenProject", NoFiles)>>
        /\ <<Step("Shutdown", NoFiles), Step("CreateThread", NoFiles),
             Step("WaitForThread", NoFiles), Step("Initialize", NoFiles),
             Step("OpenProject", NoFiles)>> \o Do("UpdateAll") = s
    BY <2>1, Chains
  <2> HIDE DEF s, Do
  <2>4. InitializeSourceControl(TRUE) = s
    BY <2>2, <2>3 DEF InitializeSourceControl
  <2> QED
    BY <2>4 DEF s
<1>2. InitializeSourceControl(FALSE) = <<Step("Shutdown", NoFiles), Step("UpdateAll", NoFiles)>>
  <2>1. \A name \in {"Shutdown", "UpdateAll"} : Step(name, NoFiles) \in StepRecords
    BY DEF Step, StepRecords, Steps, CommandKinds, NoFiles
  <2>2. <<Step("Shutdown", NoFiles)>> \o <<>> = <<Step("Shutdown", NoFiles)>>
    OBVIOUS
  <2> QED
    BY <2>1, <2>2, Chains DEF InitializeSourceControl
<1> QED
  BY <1>1, <1>2

LEMMA HandlersHaveForm ==
    /\ \A names : \A kind \in Changing : Form(<<Step(kind, names)>> \o Do("UpdateAll"))
    /\ \A names : Form(<<Step("AddFiles", names)>> \o <<Step("Requery", names)>>)
    /\ \A names : Form(<<Step("Query", names), Step("Dialog", names),
                        Step("CheckOut", names), Step("Requery", names)>>)
    /\ Form(Do("WaitForStatus") \o Do("Shutdown") \o Do("Gone"))
    /\ \A b \in BOOLEAN : Form(InitializeSourceControl(b))
<1> USE DEF Form, FormAt, EndsIn, Do, Step, Changing, Refreshing
<1>1. \A names : \A kind \in Changing : Form(<<Step(kind, names)>> \o Do("UpdateAll"))
  OBVIOUS
<1>2. \A names : Form(<<Step("AddFiles", names)>> \o <<Step("Requery", names)>>)
  OBVIOUS
<1>3. \A names : Form(<<Step("Query", names), Step("Dialog", names),
                       Step("CheckOut", names), Step("Requery", names)>>)
  OBVIOUS
<1>4. Form(Do("WaitForStatus") \o Do("Shutdown") \o Do("Gone"))
  OBVIOUS
<1>5. Form(<<Step("Shutdown", NoFiles), Step("CreateThread", NoFiles),
             Step("WaitForThread", NoFiles), Step("Initialize", NoFiles),
             Step("OpenProject", NoFiles), Step("UpdateAll", NoFiles)>>)
  OBVIOUS
<1>6. Form(<<Step("Shutdown", NoFiles), Step("UpdateAll", NoFiles)>>)
  OBVIOUS
<1>7. \A b \in BOOLEAN : Form(InitializeSourceControl(b))
  <2>1. \A b \in BOOLEAN : b = TRUE \/ b = FALSE
    OBVIOUS
  <2> HIDE DEF Form
  <2> QED
    BY <1>5, <1>6, <2>1, InitializeSteps
<1> QED
  BY <1>1, <1>2, <1>3, <1>4, <1>7

LEMMA ShutdownSteps ==
    ASSUME ShutdownBegins
    PROVE  \E p \in Seq(StepRecords) :
             /\ ui' = p \o Tail(ui)
             /\ Len(p) \in {3, 4} /\ p[Len(p)].step = "Join" /\ p[Len(p) - 1].step = "Stop"
             /\ p[Len(p) - 2].step = "Uninitialize"
             /\ Len(p) = 4 => p[1].step = "CloseProject"
<1> DEFINE p == (IF projectOpen THEN Do("CloseProject") ELSE <<>>)
                \o Do("Uninitialize") \o Do("Stop") \o Do("Join")
           n == Len(p)
<1>1. /\ p \in Seq(StepRecords) /\ n \in {3, 4}
      /\ p[n].step = "Join" /\ p[n - 1].step = "Stop" /\ p[n - 2].step = "Uninitialize"
      /\ n = 4 => p[1].step = "CloseProject"
  <2>1. p \in Seq(StepRecords)
    <3>1. {"CloseProject", "Uninitialize", "Stop", "Join"} \subseteq Steps
      BY DEF Steps, CommandKinds
    <3>2. (IF projectOpen THEN Do("CloseProject") ELSE <<>>) \in Seq(StepRecords)
      BY <3>1, StepsTyped
    <3> QED
      BY <3>1, <3>2, StepsTyped
  <2>2. \A name \in {"CloseProject", "Uninitialize", "Stop", "Join"} :
          Step(name, NoFiles) \in StepRecords
    BY DEF Step, StepRecords, Steps, CommandKinds, NoFiles
  <2>3. CASE projectOpen
    <3>1. p = <<Step("CloseProject", NoFiles), Step("Uninitialize", NoFiles),
                Step("Stop", NoFiles), Step("Join", NoFiles)>>
      <4>1. /\ Do("CloseProject") \o Do("Uninitialize")
                 = <<Step("CloseProject", NoFiles), Step("Uninitialize", NoFiles)>>
            /\ <<Step("CloseProject", NoFiles), Step("Uninitialize", NoFiles)>> \o Do("Stop")
                 = <<Step("CloseProject", NoFiles), Step("Uninitialize", NoFiles),
                     Step("Stop", NoFiles)>>
            /\ <<Step("CloseProject", NoFiles), Step("Uninitialize", NoFiles),
                 Step("Stop", NoFiles)>> \o Do("Join")
                 = <<Step("CloseProject", NoFiles), Step("Uninitialize", NoFiles),
                     Step("Stop", NoFiles), Step("Join", NoFiles)>>
        BY <2>2, Chains DEF Do
      <4> QED
        BY <2>3, <4>1
    <3> HIDE DEF p
    <3> QED
      BY <2>1, <3>1 DEF Step
  <2>4. CASE ~projectOpen
    <3>1. p = <<Step("Uninitialize", NoFiles), Step("Stop", NoFiles), Step("Join", NoFiles)>>
      <4>1. <<>> \o Do("Uninitialize") = <<Step("Uninitialize", NoFiles)>>
        BY DEF Do
      <4>2. /\ <<Step("Uninitialize", NoFiles)>> \o Do("Stop")
                 = <<Step("Uninitialize", NoFiles), Step("Stop", NoFiles)>>
            /\ <<Step("Uninitialize", NoFiles), Step("Stop", NoFiles)>> \o Do("Join")
                 = <<Step("Uninitialize", NoFiles), Step("Stop", NoFiles), Step("Join", NoFiles)>>
        BY <2>2, Chains DEF Do
      <4> QED
        BY <2>4, <4>1, <4>2
    <3> HIDE DEF p
    <3> QED
      BY <2>1, <3>1 DEF Step
  <2> QED
    BY <2>3, <2>4
<1>2. ui' = p \o Tail(ui)
  BY DEF ShutdownBegins
<1> HIDE DEF p
<1> QED
  BY <1>1, <1>2

LEMMA ShutdownKeepsForm ==
    ASSUME Types, FormInv, ShutdownBegins
    PROVE  FormInv' /\ EndsIn(ui').step \in Refreshing
<1> DEFINE t == Tail(ui)
<1>1. /\ ui \in Seq(StepRecords) /\ ui # <<>> /\ ui[1].step = "Shutdown"
      /\ Len(ui) \in Nat \ {0} /\ DOMAIN ui = 1 .. Len(ui)
      /\ t \in Seq(StepRecords) /\ Len(t) = Len(ui) - 1 /\ DOMAIN t = 1 .. Len(ui) - 1
      /\ \A i \in 1 .. Len(ui) - 1 : t[i] = ui[i + 1]
  <2>1. ui \in Seq(StepRecords) /\ ui # <<>> /\ Head(ui).step = "Shutdown"
    BY DEF ShutdownBegins, At, Types, TypeOK, StepRecords
  <2> QED
    BY <2>1, EmptySeq
<1>2. /\ EndsIn(ui).step \in Refreshing
      /\ \A i \in DOMAIN t : t[i].step # "Join"
  <2>1. FormAt(ui, 1) /\ \A i \in DOMAIN t : FormAt(ui, i + 1)
    BY <1>1 DEF FormInv, Form
  <2>2. EndsIn(ui).step \in Refreshing
    BY <1>1, <2>1 DEF FormAt
  <2>3. ASSUME NEW i \in DOMAIN t, t[i].step = "Join" PROVE FALSE
    <3>1. ui[i + 1].step = "Join" /\ i + 1 > 1 /\ FormAt(ui, i + 1)
      BY <1>1, <2>1, <2>3
    <3>2. 1 \in DOMAIN ui /\ 1 < i + 1
      BY <1>1, <2>3
    <3> QED
      BY <1>1, <3>1, <3>2 DEF FormAt
  <2> QED
    BY <2>2, <2>3
<1>3. Form(t)
  BY <1>1, TailKeepsForm DEF FormInv
<1>4. PICK p \in Seq(StepRecords) :
        /\ ui' = p \o t
        /\ Len(p) \in {3, 4} /\ p[Len(p)].step = "Join" /\ p[Len(p) - 1].step = "Stop"
        /\ p[Len(p) - 2].step = "Uninitialize"
        /\ Len(p) = 4 => p[1].step = "CloseProject"
  BY ShutdownSteps
<1> DEFINE n == Len(p)
<1>5. /\ p \in Seq(StepRecords) /\ n \in {3, 4} /\ DOMAIN p = 1 .. n
      /\ p[n].step = "Join" /\ p[n - 1].step = "Stop" /\ p[n - 2].step = "Uninitialize"
      /\ n = 4 => p[1].step = "CloseProject"
  BY <1>4, LenProperties
<1> HIDE DEF t
<1>6. t # <<>> => EndsIn(ui) = EndsIn(t)
  <2>1. t # <<>> => Len(t) \in 1 .. Len(ui) - 1
    BY <1>1, EmptySeq
  <2> QED
    BY <1>1, <2>1 DEF EndsIn
<1>7. /\ Len(ui') = n + Len(t) /\ DOMAIN ui' = 1 .. n + Len(t)
      /\ \A i \in 1 .. n : ui'[i] = p[i]
      /\ \A i \in 1 .. Len(t) : ui'[i + n] = t[i]
  <2>1. /\ ui' \in Seq(StepRecords) /\ Len(ui') = n + Len(t)
        /\ \A i \in 1 .. n + Len(t) : ui'[i] = IF i <= n THEN p[i] ELSE t[i - n]
    BY <1>1, <1>5, <1>4, ConcatProperties, ZenonT(30)
  <2>2. n \in Nat /\ Len(t) \in Nat /\ DOMAIN ui' = 1 .. n + Len(t)
    BY <1>1, <1>5, <2>1, LenProperties
  <2>3. \A i \in 1 .. Len(t) : i + n \in 1 .. n + Len(t) /\ ~(i + n <= n) /\ (i + n) - n = i
    BY <2>2
  <2> QED
    BY <2>1, <2>2, <2>3
<1> HIDE DEF n
<1>8. /\ EndsIn(ui').step \in Refreshing
      /\ t # <<>> => EndsIn(ui') = EndsIn(t)
  <2>1. t = <<>> => EndsIn(ui') = p[n]
    BY <1>5, <1>4, <1>7, EmptySeq DEF EndsIn
  <2>2. t # <<>> => EndsIn(ui') = t[Len(t)]
    BY <1>1, <1>5, <1>7, EmptySeq DEF EndsIn
  <2> QED
    BY <1>2, <1>5, <1>6, <2>1, <2>2 DEF EndsIn, Refreshing
<1>9. ASSUME NEW i \in 1 .. n PROVE FormAt(ui', i)
  <2>1. ui'[i].step \in {"CloseProject", "Uninitialize", "Stop", "Join"}
    BY <1>5, <1>7
  <2>2. ui'[i].step = "Uninitialize" => \E j \in DOMAIN ui' : j > i /\ ui'[j].step = "Join"
    <3>1. n \in DOMAIN ui' /\ ui'[n].step = "Join" /\ (ui'[i].step = "Uninitialize" => n > i)
      BY <1>1, <1>5, <1>7
    <3> QED
      BY <3>1
  <2>3. \A j \in DOMAIN ui' : j < n => ui'[j].step \in {"CloseProject", "Uninitialize", "Stop"}
    BY <1>5, <1>7
  <2>4. ui'[i].step = "Join" => \A j \in DOMAIN ui' : j < i =>
                                  ui'[j].step \in {"CloseProject", "Uninitialize", "Stop"}
    <3>1. \A j \in DOMAIN ui' : j < i => j < n
      BY <1>1, <1>5, <1>7
    <3> QED
      BY <2>3, <3>1
  <2> QED
    BY <1>8, <2>1, <2>2, <2>4 DEF FormAt, Changing
<1>10. ASSUME NEW i \in 1 .. Len(t) PROVE FormAt(ui', i + n)
  <2>1. /\ FormAt(t, i) /\ ui'[i + n] = t[i] /\ t[i].step # "Join"
        /\ \A j \in DOMAIN t : t[j].step # "Join"
    BY <1>1, <1>2, <1>3, <1>7 DEF Form
  <2>2. EndsIn(ui') = EndsIn(t)
    BY <1>1, <1>8, EmptySeq
  <2>3. /\ i + 1 = Len(t) => (i + n) + 1 = Len(ui')
        /\ i = Len(t) => i + n = Len(ui')
    <3>1. n \in Nat /\ i \in Nat /\ Len(t) \in Nat
      BY <1>1, <1>5
    <3>2. Len(ui') = n + Len(t)
      BY <1>7
    <3> QED
      BY <3>1, <3>2
  <2>4. t[i].step # "Uninitialize"
    BY <2>1 DEF FormAt
  <2>5. t[i].step = "CreateThread" => ui'[(i + n) - 1].step \in {"Shutdown", "Join"}
    <3>1. CASE i = 1
      BY <1>1, <1>5, <1>7, <3>1
    <3>2. CASE i > 1
      <4>1. i - 1 \in 1 .. Len(t) /\ (i + n) - 1 = (i - 1) + n
        BY <1>1, <1>5, <3>2
      <4>2. ui'[(i + n) - 1] = t[i - 1]
        BY <1>7, <4>1
      <4> QED
        BY <2>1, <3>2, <4>2 DEF FormAt
    <3> QED
      BY <1>1, <3>1, <3>2
  <2> QED
    BY <2>1, <2>2, <2>3, <2>4, <2>5 DEF FormAt
<1>11. ASSUME NEW k \in DOMAIN ui' PROVE FormAt(ui', k)
  <2>1. CASE k <= n
    BY <1>1, <1>5, <1>7, <1>9, <2>1
  <2>2. CASE k > n
    <3>1. k - n \in 1 .. Len(t) /\ (k - n) + n = k
      BY <1>1, <1>5, <1>7, <2>2, SMTT(30)
    <3>2. FormAt(ui', (k - n) + n)
      BY <1>10, <3>1
    <3> QED
      BY <3>1, <3>2
  <2> QED
    BY <1>1, <1>5, <1>7, <2>1, <2>2
<1> QED
  BY <1>8, <1>11 DEF FormInv, Form

LEMMA StepForm == Types /\ FormInv /\ [Next]_vars => FormInv'
<1> SUFFICES ASSUME Types, FormInv, [Next]_vars PROVE FormInv'
  OBVIOUS
<1>1. ASSUME UNCHANGED ui PROVE FormInv'
  BY <1>1 DEF FormInv
<1>2. ASSUME ui # <<>>, Next1 PROVE FormInv'
  <2>1. ui \in Seq(StepRecords)
    BY DEF Types, TypeOK, StepRecords
  <2> QED
    BY <1>2, <2>1, TailKeepsForm DEF FormInv, Next1
<1>3. ASSUME ui' = <<>> \/ ui' = Do("Shutdown") PROVE FormInv'
  BY <1>3, OneStepForm DEF FormInv
<1>4. CASE ShutdownStops \/ ShutdownEnds \/ CreateCommandThread \/ WaitForThread
           \/ UpdateProjectFileStatus \/ WaitForStatusThread \/ AnswerDialog
  BY <1>2, <1>3, <1>4 DEF ShutdownStops, ShutdownEnds, CreateCommandThread, WaitForThread,
     UpdateProjectFileStatus, WaitForStatusThread, AnswerDialog, At
<1>5. CASE DispatchReturned
  BY <1>2, <1>3, <1>5 DEF DispatchReturned, InitializeReturns, OpenProjectReturns,
     CloseProjectReturns, QueryReturns, RequeryReturns, Next1
<1>6. CASE (\E c \in Clients : Signal(c)) \/ CommandThread \/ EntryQueries \/ EntryReturns
           \/ Dispatch \/ OnThreadExit \/ UNCHANGED vars
  BY <1>1, <1>6 DEF Signal, CommandThread, LoadPlugin, ThreadReady, CheckQueue, WaitForCommand,
     TakeCommand, RunCommand, EntryQueries, EntryReturns, Dispatch, OnThreadExit, vars, windowVars
<1>7. CASE User
  <2>1. \A steps : Starts(steps) => ui' = steps
    BY DEF Starts
  <2>2. ASSUME NEW steps, Starts(steps), Form(steps) PROVE FormInv'
    BY <2>1, <2>2 DEF FormInv
  <2>3. ASSUME NEW b \in BOOLEAN, NEW names,
               ChangeSettings(b) \/ SetProject(names, b)
        PROVE  FormInv'
    BY <2>2, <2>3, HandlersHaveForm DEF ChangeSettings, SetProject
  <2>4. ASSUME NEW names, CheckOut(names) \/ CheckIn(names) \/ UndoCheckOut(names)
        PROVE  FormInv'
    BY <2>2, <2>4, HandlersHaveForm DEF CheckOut, CheckIn, UndoCheckOut, OnFiles, Changing
  <2>5. ASSUME NEW f, EditReadOnly(f) PROVE FormInv'
    BY <2>2, <2>5, HandlersHaveForm DEF EditReadOnly
  <2>6. ASSUME NEW f, AddFile(f) PROVE FormInv'
    <3>1. ASSUME Starts(<<>>) PROVE FormInv'
      BY <2>2, <3>1, OneStepForm
    <3>2. ASSUME NEW add \in BOOLEAN,
                 Starts((IF add THEN <<Step("AddFiles", {f})>> ELSE <<>>)
                        \o <<Step("Requery", {f})>>)
          PROVE  FormInv'
      <4>1. CASE add
        BY <2>2, <3>2, <4>1, HandlersHaveForm
      <4>2. CASE ~add
        <5>1. <<>> \o <<Step("Requery", {f})>> = <<Step("Requery", {f})>>
          OBVIOUS
        <5> QED
          BY <2>2, <3>2, <4>2, <5>1, OneStepForm
      <4> QED
        BY <4>1, <4>2
    <3> QED
      BY <2>6, <3>1, <3>2 DEF AddFile
  <2>7. ASSUME NEW names, ShowHistory(names) PROVE FormInv'
    BY <2>2, <2>7, OneStepForm DEF ShowHistory
  <2>8. ASSUME NEW f, RemoveFile(f) PROVE FormInv'
    BY <2>2, <2>8, OneStepForm DEF RemoveFile
  <2>9. Refresh \/ CloseWindow => FormInv'
    BY <2>2, OneStepForm, HandlersHaveForm DEF Refresh, CloseWindow
  <2> QED
    BY <1>7, <2>3, <2>4, <2>5, <2>6, <2>7, <2>8, <2>9 DEF User
<1> QED
  BY <1>4, <1>5, <1>6, <1>7, ShutdownKeepsForm
  DEF Next, WindowWork, StatusThread, Clients

(* What the form of the window's handler says of its next step. *)
LEMMA HeadOfHandler ==
    ASSUME Types, FormInv, ui # <<>>
    PROVE  /\ FormAt(ui, 1) /\ Head(ui) = ui[1] /\ Len(ui) \in Nat \ {0}
           /\ DOMAIN ui = 1 .. Len(ui)
           /\ Tail(ui) = <<>> => EndsIn(ui) = Head(ui)
           /\ Tail(ui) # <<>> => EndsIn(Tail(ui)) = EndsIn(ui) /\ Head(Tail(ui)) = ui[2]
                                /\ 2 \in DOMAIN ui
           /\ Head(ui).step \in Changing => Tail(ui) # <<>> /\ Head(Tail(ui)) = EndsIn(ui)
           /\ Head(ui).step = "Requery" => Tail(ui) = <<>>
           /\ Head(ui).step = "Uninitialize" => Closing
           /\ Closing => /\ EndsIn(ui).step \in Refreshing
                         /\ Head(ui).step \in {"CloseProject", "Uninitialize", "Stop", "Join"}
           /\ Closing /\ Head(ui).step # "Join" =>
                \E i \in DOMAIN Tail(ui) : Tail(ui)[i].step = "Join"
           /\ Tail(ui) # <<>> /\ Head(Tail(ui)).step = "CreateThread"
                => Head(ui).step \in {"Shutdown", "Join"}
<1> DEFINE t == Tail(ui)
<1>1. /\ ui \in Seq(StepRecords) /\ Head(ui) = ui[1]
      /\ Len(ui) \in Nat \ {0} /\ DOMAIN ui = 1 .. Len(ui)
      /\ t \in Seq(StepRecords) /\ Len(t) = Len(ui) - 1 /\ DOMAIN t = 1 .. Len(ui) - 1
      /\ \A i \in 1 .. Len(ui) - 1 : t[i] = ui[i + 1]
  <2>1. ui \in Seq(StepRecords)
    BY DEF Types, TypeOK, StepRecords
  <2> QED
    BY <2>1, EmptySeq
<1> HIDE DEF t
<1>2. t = <<>> <=> Len(ui) = 1
  <2>1. t = <<>> <=> Len(t) = 0
    BY <1>1, EmptySeq
  <2> QED
    BY <1>1, <2>1
<1>3. t # <<>> => Head(t) = t[1]
  BY <1>1
<1>4. \A i \in DOMAIN ui : FormAt(ui, i)
  BY DEF FormInv, Form
<1>5. FormAt(ui, 1)
  BY <1>1, <1>4
<1>6. t = <<>> => EndsIn(ui) = Head(ui)
  BY <1>1, <1>2 DEF EndsIn
<1>7. t # <<>> => EndsIn(t) = EndsIn(ui) /\ Head(t) = ui[2] /\ 2 \in DOMAIN ui
  <2> SUFFICES ASSUME t # <<>> PROVE EndsIn(t) = EndsIn(ui) /\ Head(t) = ui[2] /\ 2 \in DOMAIN ui
    OBVIOUS
  <2>1. Len(ui) - 1 \in 1 .. Len(ui) - 1 /\ 1 \in 1 .. Len(ui) - 1
    BY <1>1, <1>2
  <2> QED
    BY <1>1, <1>3, <2>1 DEF EndsIn
<1>8. Head(ui).step \in Changing => t # <<>> /\ Head(t) = EndsIn(ui)
  BY <1>1, <1>2, <1>5, <1>7 DEF FormAt, EndsIn
<1>9. Head(ui).step = "Requery" => t = <<>>
  BY <1>1, <1>2, <1>5 DEF FormAt
<1>10. Head(ui).step = "Uninitialize" => Closing
  BY <1>1, <1>5 DEF FormAt, Closing
<1>11. ASSUME Closing
       PROVE  /\ EndsIn(ui).step \in Refreshing
              /\ Head(ui).step \in {"CloseProject", "Uninitialize", "Stop", "Join"}
              /\ Head(ui).step # "Join" => \E i \in DOMAIN t : t[i].step = "Join"
  <2>1. PICK j \in DOMAIN ui : ui[j].step = "Join"
    BY <1>11 DEF Closing
  <2>2. FormAt(ui, j)
    BY <1>4
  <2>3. Head(ui).step # "Join" => 1 \in DOMAIN ui /\ 1 < j
    BY <1>1, <2>1
  <2>4. Head(ui).step # "Join" => j - 1 \in DOMAIN t /\ t[j - 1] = ui[j]
    BY <1>1, <2>3
  <2> QED
    BY <1>1, <2>1, <2>2, <2>3, <2>4 DEF FormAt
<1>12. t # <<>> /\ Head(t).step = "CreateThread" => Head(ui).step \in {"Shutdown", "Join"}
  <2>1. t # <<>> => FormAt(ui, 2) /\ 2 - 1 = 1
    BY <1>4, <1>7
  <2> QED
    BY <1>1, <1>7, <2>1 DEF FormAt
<1> QED
  BY <1>1, <1>5, <1>6, <1>7, <1>8, <1>9, <1>10, <1>11, <1>12 DEF t

-----------------------------------------------------------------------------
(* Commands. *)

LEMMA CallKeepsNames ==
    ASSUME Types, AliveInv, StatusInv, [Next]_vars,
           at["status"] # "idle", at'["status"] # "idle"
    PROVE  slot'[0].names = slot[0].names
<1>1. slot[0] # None /\ slot[0].started /\ events = 0
  BY DEF StatusInv
<1>2. slot'[0] # None
  BY StepStatus DEF StatusInv
<1>3. CASE UNCHANGED vars
  BY <1>3 DEF vars, statusVars
<1> QED
  BY <1>1, <1>2, <1>3, StepKeepsNames

LEMMA HeldHaveClients ==
    ASSUME Types, AliveInv
    PROVE  /\ \A i \in DOMAIN queue : queue[i].by \in Clients
                                     /\ at[queue[i].by] \in {"pushed", "waiting"}
           /\ running # None => running.by \in Clients /\ at[running.by] \in {"pushed", "waiting"}
<1>1. queue \in Seq(Commands) /\ DOMAIN queue = 1 .. Len(queue) /\ running \in Commands \cup {None}
  BY LenProperties DEF Types, TypeOK
<1>2. \A i \in DOMAIN queue : queue[i] \in Commands
  BY <1>1, ElementOfSeq
<1> QED
  BY <1>1, <1>2 DEF AliveInv, Commands

LEMMA CommandsStay ==
    ASSUME Types, AliveInv, StatusInv, CommandInv, [Next]_vars, UNCHANGED <<queue, running>>,
           at["window"] \in {"pushed", "waiting"} => UNCHANGED ui,
           at'["window"] # "idle" => ui' # <<>> /\ Head(ui').step \in CommandKinds
    PROVE  CommandInv'
<1>1. Types' /\ AliveInv'
  BY StepTypes, StepAlive
<1>2. ASSUME NEW c, c.by \in Clients, IsOfClient(c), at[c.by] \in {"pushed", "waiting"},
             at'[c.by] \in {"pushed", "waiting"}
      PROVE  IsOfClient(c)'
  <2>1. c.by = "status" => slot'[0].names = slot[0].names
    BY <1>2, CallKeepsNames
  <2>2. c.by = "window" => ui' = ui
    BY <1>2
  <2> QED
    BY <1>2, <2>1, <2>2 DEF IsOfClient
<1>3. ASSUME NEW i \in DOMAIN queue PROVE IsOfClient(queue[i])'
  <2>1. queue'[i] = queue[i] /\ i \in DOMAIN queue'
    OBVIOUS
  <2>2. queue[i].by \in Clients /\ at[queue[i].by] \in {"pushed", "waiting"}
        /\ at'[queue[i].by] \in {"pushed", "waiting"} /\ IsOfClient(queue[i])
    BY <1>1, <2>1, HeldHaveClients DEF AliveInv, CommandInv
  <2> QED
    BY <1>2, <2>1, <2>2 DEF IsOfClient
<1>4. running # None => IsOfClient(running)'
  <2> SUFFICES ASSUME running # None PROVE IsOfClient(running)'
    OBVIOUS
  <2>1. running.by \in Clients /\ at[running.by] \in {"pushed", "waiting"}
        /\ at'[running.by] \in {"pushed", "waiting"} /\ IsOfClient(running)
    BY <1>1, HeldHaveClients DEF AliveInv, CommandInv
  <2> QED
    BY <1>2, <2>1 DEF IsOfClient
<1> QED
  BY <1>3, <1>4 DEF CommandInv, IsOfClient

LEMMA PushedIsOfClient ==
    ASSUME Types, CommandInv, UNCHANGED <<ui, slot, running>>,
           NEW c \in Clients, NEW kind, NEW names, Push(c, kind, names),
           c = "window" => ui # <<>> /\ kind = Head(ui).step /\ names = Head(ui).names
                           /\ kind \in CommandKinds,
           c = "status" => kind = "Query" /\ names = slot[0].names
    PROVE  CommandInv'
<1> DEFINE new == [by |-> c, kind |-> kind, names |-> names]
<1>1. /\ queue \in Seq(Commands) /\ Len(queue) \in Nat /\ DOMAIN queue = 1 .. Len(queue)
      /\ at \in [Clients -> {"idle", "pushed", "waiting", "early", "returned"}]
  BY LenProperties DEF Types, TypeOK
<1>2. queue' = Append(queue, new) /\ at' = [at EXCEPT ![c] = "pushed"]
  BY DEF Push
<1>3. /\ DOMAIN queue' = 1 .. Len(queue) + 1 /\ queue'[Len(queue) + 1] = new
      /\ \A i \in 1 .. Len(queue) : queue'[i] = queue[i]
  BY <1>1, <1>2
<1>4. IsOfClient(new)
  BY DEF IsOfClient, Clients
<1> HIDE DEF new
<1>5. at'["window"] # "idle" => ui # <<>> /\ Head(ui).step \in CommandKinds
  BY <1>1, <1>2 DEF CommandInv, Clients
<1>6. \A i \in DOMAIN queue' : IsOfClient(queue'[i])
  <2> TAKE i \in DOMAIN queue'
  <2>1. CASE i = Len(queue) + 1
    BY <1>3, <1>4, <2>1
  <2>2. CASE i \in 1 .. Len(queue)
    BY <1>1, <1>3, <2>2 DEF CommandInv
  <2> QED
    BY <1>1, <1>3, <2>1, <2>2
<1>7. \A d : IsOfClient(d)' <=> IsOfClient(d)
  BY DEF IsOfClient
<1> QED
  BY <1>5, <1>6, <1>7 DEF CommandInv, IsOfClient

LEMMA StepCommand ==
    Types /\ AliveInv /\ StatusInv /\ CommandInv /\ [Next]_vars => CommandInv'
<1> SUFFICES ASSUME Types, AliveInv, StatusInv, CommandInv, [Next]_vars PROVE CommandInv'
  OBVIOUS
<1>0. /\ at \in [Clients -> {"idle", "pushed", "waiting", "early", "returned"}]
      /\ "window" \in Clients /\ "status" \in Clients /\ "window" # "status"
  BY DEF Types, TypeOK, Clients
<1>1. ASSUME UNCHANGED <<ui, queue, running>>,
             at'["window"] # "idle" => at["window"] # "idle"
      PROVE  CommandInv'
  <2>1. at'["window"] # "idle" => ui' # <<>> /\ Head(ui').step \in CommandKinds
    BY <1>1 DEF CommandInv
  <2> QED
    BY <1>1, <2>1, CommandsStay
<1>2. ASSUME UNCHANGED <<queue, running>>, at["window"] \notin {"pushed", "waiting"},
             at'["window"] = "idle"
      PROVE  CommandInv'
  BY <1>2, CommandsStay
<1>3. ASSUME NEW c \in Clients, Signal(c) PROVE CommandInv'
  <2>1. at'["window"] # "idle" => at["window"] # "idle"
    BY <1>0, <1>3 DEF Signal
  <2> QED
    BY <1>1, <1>3, <2>1 DEF Signal, windowVars, threadVars
<1>4. CASE EntryQueries
  <2>1. UNCHANGED <<ui, slot, running>>
    BY <1>4 DEF EntryQueries, windowVars, statusVars, threadVars
  <2>2. CASE Push("status", "Query", slot[0].names)
    BY <1>0, <2>1, <2>2, PushedIsOfClient
  <2>3. CASE RunQueryDirectly("status", slot[0].names)
    <3>1. UNCHANGED queue /\ at'["window"] = at["window"]
      BY <1>0, <2>3 DEF RunQueryDirectly
    <3> QED
      BY <1>1, <2>1, <3>1
  <2> QED
    BY <1>4, <2>2, <2>3 DEF EntryQueries, GetFilesStatus
<1>5. CASE EntryReturns
  <2>1. UNCHANGED <<ui, queue, running>> /\ at'["window"] = at["window"]
    BY <1>0, <1>5 DEF EntryReturns, windowVars, threadVars
  <2> QED
    BY <1>1, <2>1
<1>6. CASE Dispatch
  <2> DEFINE s == Head(ui)
  <2>1. UNCHANGED <<ui, slot, running>> /\ ui # <<>> /\ s.step \in CommandKinds
    BY <1>6 DEF Dispatch, windowVars, statusVars, threadVars
  <2>2. CASE Push("window", s.step, s.names)
    BY <1>0, <2>1, <2>2, PushedIsOfClient
  <2>3. CASE RunQueryDirectly("window", s.names)
    <3>1. at'["window"] # "idle" => ui' # <<>> /\ Head(ui').step \in CommandKinds
      BY <2>1
    <3>2. UNCHANGED queue
      BY <2>3 DEF RunQueryDirectly
    <3> QED
      BY <2>1, <3>1, <3>2, CommandsStay
  <2> QED
    BY <1>6, <2>2, <2>3 DEF Dispatch, GetFilesStatus
<1>7. CASE DispatchReturned
  <2>1. at["window"] = "returned" /\ at'["window"] = "idle" /\ UNCHANGED <<queue, running>>
    BY <1>0, <1>7 DEF DispatchReturned, threadVars
  <2> QED
    BY <1>2, <2>1
<1>8. CASE LoadPlugin \/ ThreadReady \/ CheckQueue \/ WaitForCommand
  BY <1>1, <1>8 DEF LoadPlugin, ThreadReady, CheckQueue, WaitForCommand, windowVars, callVars
<1>9. CASE TakeCommand
  <2>1. UNCHANGED <<ui, at, slot>>
    BY <1>9 DEF TakeCommand, windowVars, statusVars
  <2>2. CASE queue = <<>>
    BY <1>1, <1>9, <2>1, <2>2 DEF TakeCommand
  <2>3. CASE queue # <<>>
    <3>1. queue \in Seq(Commands) /\ Len(queue) \in Nat /\ DOMAIN queue = 1 .. Len(queue)
          /\ running' = Head(queue) /\ queue' = Tail(queue)
      BY <1>9, <2>3, LenProperties DEF TakeCommand, Types, TypeOK
    <3>2. /\ Len(queue) > 0 /\ running' = queue[1] /\ DOMAIN queue' = 1 .. Len(queue) - 1
          /\ \A i \in 1 .. Len(queue) - 1 : queue'[i] = queue[i + 1]
      BY <2>3, <3>1, EmptySeq
    <3>3. \A d : IsOfClient(d)' <=> IsOfClient(d)
      BY <2>1 DEF IsOfClient
    <3>4. \A i \in 1 .. Len(queue) : \A d : d = queue[i] => IsOfClient(d)'
      BY <3>1, <3>3 DEF CommandInv
    <3>5. IsOfClient(running)'
      BY <3>1, <3>2, <3>4 DEF IsOfClient
    <3>6. ASSUME NEW i \in DOMAIN queue' PROVE IsOfClient(queue[i])'
      <4>1. queue'[i] = queue[i + 1] /\ i + 1 \in 1 .. Len(queue)
        BY <3>1, <3>2
      <4> QED
        BY <3>4, <4>1 DEF IsOfClient
    <3> QED
      BY <2>1, <3>5, <3>6 DEF CommandInv, IsOfClient
  <2> QED
    BY <2>2, <2>3
<1>10. CASE RunCommand
  <2>1. running # None /\ running' = None /\ UNCHANGED <<ui, queue, slot>>
    BY <1>10 DEF RunCommand, Types, windowVars, statusVars
  <2>2. running.by \in Clients /\ at[running.by] # "idle"
    BY <2>1, HeldHaveClients
  <2>3. at'["window"] # "idle" => at["window"] # "idle"
    BY <1>0, <1>10, <2>2 DEF RunCommand, Complete
  <2> QED
    BY <2>1, <2>3 DEF CommandInv, IsOfClient
<1>11. CASE ShutdownBegins \/ ShutdownStops \/ ShutdownEnds \/ CreateCommandThread
            \/ WaitForThread \/ UpdateProjectFileStatus \/ WaitForStatusThread \/ AnswerDialog
  <2>1. UNCHANGED <<queue, running, at>>
    BY <1>11 DEF ShutdownBegins, ShutdownStops, ShutdownEnds, CreateCommandThread, WaitForThread,
       UpdateProjectFileStatus, WaitForStatusThread, AnswerDialog, threadVars, callVars
  <2>2. Head(ui).step \notin CommandKinds
    BY <1>11 DEF ShutdownBegins, ShutdownStops, ShutdownEnds, CreateCommandThread, WaitForThread,
       UpdateProjectFileStatus, WaitForStatusThread, AnswerDialog, At, CommandKinds
  <2>3. at["window"] = "idle"
    BY <2>2 DEF CommandInv
  <2> QED
    BY <1>2, <2>1, <2>3
<1>12. CASE OnThreadExit \/ UNCHANGED vars
  BY <1>1, <1>12 DEF OnThreadExit, vars, windowVars, threadVars, callVars
<1>13. CASE User
  <2>1. \A steps : Starts(steps) => ui = <<>> /\ UNCHANGED <<queue, running, at>>
    BY DEF Starts, threadVars, callVars
  <2>2. ui = <<>> /\ UNCHANGED <<queue, running, at>>
    BY <1>13, <2>1 DEF User, ChangeSettings, SetProject, CheckOut, CheckIn, UndoCheckOut,
       OnFiles, ShowHistory, EditReadOnly, AddFile, RemoveFile, Refresh, CloseWindow
  <2>3. at["window"] = "idle"
    BY <2>2 DEF CommandInv
  <2> QED
    BY <1>2, <2>2, <2>3
<1> QED
  BY <1>0, <1>3, <1>4, <1>5, <1>6, <1>7, <1>8, <1>9, <1>10, <1>11, <1>12, <1>13
  DEF Next, WindowWork, CommandThread, StatusThread

-----------------------------------------------------------------------------
(* The plug-in. *)

LEMMA HandlersBegin ==
    /\ \A names : \A kind \in Changing :
         Head(<<Step(kind, names)>> \o Do("UpdateAll")).step # "CreateThread"
    /\ \A names : Head(<<Step("AddFiles", names)>> \o <<Step("Requery", names)>>).step
                    # "CreateThread"
    /\ \A names : Head(<<Step("Query", names), Step("Dialog", names),
                         Step("CheckOut", names), Step("Requery", names)>>).step # "CreateThread"
    /\ Head(Do("WaitForStatus") \o Do("Shutdown") \o Do("Gone")).step # "CreateThread"
    /\ \A b \in BOOLEAN : Head(InitializeSourceControl(b)).step # "CreateThread"
    /\ \A names : /\ Head(<<Step("Requery", names)>>).step # "CreateThread"
                  /\ Head(<<Step("Show", names)>>).step # "CreateThread"
    /\ Head(Do("Shutdown")).step # "CreateThread" /\ Head(Do("UpdateAll")).step # "CreateThread"
<1>1. \A b \in BOOLEAN : Head(InitializeSourceControl(b)).step # "CreateThread"
  <2>1. \A b \in BOOLEAN : b = TRUE \/ b = FALSE
    OBVIOUS
  <2>2. Head(InitializeSourceControl(TRUE)) = Step("Shutdown", NoFiles)
    <3> DEFINE s == <<Step("Shutdown", NoFiles), Step("CreateThread", NoFiles),
                      Step("WaitForThread", NoFiles), Step("Initialize", NoFiles),
                      Step("OpenProject", NoFiles), Step("UpdateAll", NoFiles)>>
    <3>1. Head(s) = Step("Shutdown", NoFiles)
      OBVIOUS
    <3>2. InitializeSourceControl(TRUE) = s
      BY InitializeSteps
    <3> HIDE DEF s
    <3> QED
      BY <3>1, <3>2
  <2>3. Head(InitializeSourceControl(FALSE)) = Step("Shutdown", NoFiles)
    <3>1. \A s, t : Head(<<s, t>>) = s
      OBVIOUS
    <3> QED
      BY <3>1, InitializeSteps
  <2>4. \A name : Step(name, NoFiles).step = name
    BY DEF Step
  <2>5. ASSUME NEW b \in BOOLEAN PROVE Head(InitializeSourceControl(b)).step = "Shutdown"
    <3>1. CASE b = TRUE
      BY <2>2, <2>4, <3>1
    <3>2. CASE b = FALSE
      BY <2>3, <2>4, <3>2
    <3> QED
      BY <2>1, <3>1, <3>2
  <2> QED
    BY <2>5
<1> QED
  BY <1>1 DEF Do, Step, Changing

LEMMA ShutdownBeginsWith ==
    ASSUME Types, ShutdownBegins
    PROVE  ui # <<>> /\ ui' # <<>> /\ Head(ui').step \in {"CloseProject", "Uninitialize"}
<1>1. PICK p \in Seq(StepRecords) :
        /\ ui' = p \o Tail(ui)
        /\ Len(p) \in {3, 4} /\ p[Len(p) - 2].step = "Uninitialize"
        /\ Len(p) = 4 => p[1].step = "CloseProject"
  BY ShutdownSteps
<1>2. ui # <<>> /\ Tail(ui) \in Seq(StepRecords)
  BY TailOfSteps DEF ShutdownBegins, At
<1>3. ui' \in Seq(StepRecords) /\ Len(ui') \in Nat /\ Len(ui') > 0 /\ ui'[1] = p[1]
  BY <1>1, <1>2, ConcatProperties, LenProperties
<1>4. ui' # <<>>
  BY <1>3, EmptySeq
<1>5. Head(ui') = p[1]
  BY <1>3, <1>4
<1>6. p[1].step \in {"CloseProject", "Uninitialize"}
  <2>1. CASE Len(p) = 3
    <3>1. Len(p) - 2 = 1
      BY <2>1
    <3> QED
      BY <1>1, <3>1
  <2>2. CASE Len(p) = 4
    BY <1>1, <2>2
  <2> QED
    BY <1>1, <2>1, <2>2
<1> QED
  BY <1>2, <1>4, <1>5, <1>6

\* While no call of the window ends and the plug-in is left alone.
LEMMA ModuleStays ==
    ASSUME ModuleInv, UNCHANGED <<ui, plugin, initialized>>,
           thread' # thread => thread' \notin {"none", "load"} /\ thread # "none",
           Answered("window")' => Answered("window") /\ answer'["window"] = answer["window"],
           at'["window"] \in {"pushed", "waiting"} => ~answer'["window"].ok
    PROVE  ModuleInv'
BY DEF ModuleInv, Closing, At, Answered

\* While the window is in no call and goes on to another step.
LEMMA ModuleMoves ==
    ASSUME ModuleInv, UNCHANGED <<plugin, initialized, thread>>, at'["window"] = "idle",
           initialized => plugin = "ready" \/ Closing', ~At("CreateThread")'
    PROVE  ModuleInv'
BY DEF ModuleInv, Answered

LEMMA StepModule ==
    Types /\ AliveInv /\ FormInv /\ CommandInv /\ ModuleInv /\ [Next]_vars => ModuleInv'
<1> SUFFICES ASSUME Types, AliveInv, FormInv, CommandInv, ModuleInv, [Next]_vars PROVE ModuleInv'
  OBVIOUS
<1>0. /\ at \in [Clients -> {"idle", "pushed", "waiting", "early", "returned"}]
      /\ answer \in [Clients -> Answers]
      /\ "window" \in Clients /\ "status" \in Clients /\ "window" # "status"
  BY DEF Types, TypeOK, Clients
<1>1. ASSUME NEW c \in Clients, Signal(c) PROVE ModuleInv'
  <2>1. /\ UNCHANGED <<ui, plugin, initialized, thread, answer>>
        /\ Answered("window")' => Answered("window")
        /\ at'["window"] \in {"pushed", "waiting"} => at["window"] \in {"pushed", "waiting"}
    BY <1>0, <1>1 DEF Signal, Answered, windowVars, moduleVars, threadVars
  <2>2. at'["window"] \in {"pushed", "waiting"} => ~answer'["window"].ok
    BY <2>1 DEF ModuleInv
  <2> QED
    BY <2>1, <2>2, ModuleStays
<1>2. CASE EntryQueries \/ EntryReturns
  <2>1. /\ UNCHANGED <<ui, plugin, initialized, thread>>
        /\ at'["window"] = at["window"] /\ answer'["window"] = answer["window"]
    BY <1>0, <1>2 DEF EntryQueries, EntryReturns, GetFilesStatus, Push, RunQueryDirectly,
       windowVars, moduleVars, threadVars
  <2>2. at'["window"] \in {"pushed", "waiting"} => ~answer'["window"].ok
    BY <2>1 DEF ModuleInv
  <2>3. Answered("window")' => Answered("window") /\ answer'["window"] = answer["window"]
    BY <2>1 DEF Answered
  <2> QED
    BY <2>1, <2>2, <2>3, ModuleStays
<1>3. CASE LoadPlugin
  <2>1. /\ thread = "load" /\ thread' # "load" /\ UNCHANGED <<ui, initialized, at, answer>>
    BY <1>3 DEF LoadPlugin, windowVars, callVars
  <2> QED
    BY <2>1 DEF ModuleInv, Closing, At, Answered
<1>4. CASE ThreadReady \/ CheckQueue \/ WaitForCommand \/ TakeCommand
  <2>1. /\ UNCHANGED <<ui, plugin, initialized, at, answer>>
        /\ thread # "none" /\ thread' \notin {"none", "load"}
    BY <1>4 DEF ThreadReady, CheckQueue, WaitForCommand, TakeCommand, windowVars, moduleVars,
       callVars
  <2>2. at'["window"] \in {"pushed", "waiting"} => ~answer'["window"].ok
    BY <2>1 DEF ModuleInv
  <2>3. Answered("window")' => Answered("window") /\ answer'["window"] = answer["window"]
    BY <2>1 DEF Answered
  <2> QED
    BY <2>1, <2>2, <2>3, ModuleStays
<1>5. CASE RunCommand
  <2>1. /\ thread = "run" /\ thread' \in {"exited", "check"} /\ UNCHANGED <<ui, initialized>>
        /\ running # None /\ running.by \in Clients
        /\ running.by = "window" => Head(ui).step = running.kind
        /\ running.by = "status" => running.kind = "Query"
        /\ at[running.by] \in {"pushed", "waiting"}
    BY <1>5, HeldHaveClients DEF RunCommand, Types, CommandInv, IsOfClient, windowVars
  <2>2. at'[running.by] \in {"early", "returned"}
        /\ \A c \in Clients : c # running.by => at'[c] = at[c]
    BY <1>0, <1>5, <2>1 DEF RunCommand, Complete
  <2>3. running.by = "status" => answer'["window"] = answer["window"]
    BY <1>0, <1>5, <2>1 DEF RunCommand, RunInitialize, RunOpenProject, RunQuery, RunUninitialize
  <2>4. CASE running.kind = "Initialize"
    <3>1. running.by = "window"
      BY <2>1, <2>4 DEF Clients
    <3>2. CASE plugin' = "ready"
      BY <2>1, <2>2, <3>1, <3>2 DEF ModuleInv, At, Answered
    <3>3. CASE UNCHANGED <<plugin, multi, answer>>
      BY <2>1, <2>2, <3>1, <3>3 DEF ModuleInv, At, Answered, Closing
    <3> QED
      BY <1>5, <2>4, <3>2, <3>3 DEF RunCommand, RunInitialize
  <2>5. CASE running.kind = "Uninitialize"
    <3>1. running.by = "window" /\ ui # <<>>
      BY <2>1, <2>5 DEF Clients, CommandInv
    <3>2. Closing'
      BY <2>1, <2>5, <3>1, HeadOfHandler DEF Closing
    <3> QED
      BY <2>1, <2>2, <2>5, <3>1, <3>2 DEF ModuleInv, At, Answered
  <2>6. CASE running.kind \notin {"Initialize", "Uninitialize"}
    <3>1. UNCHANGED plugin
      BY <1>5, <2>6 DEF RunCommand, RunOpenProject, RunQuery
    <3>2. CASE running.by = "window"
      BY <2>1, <2>2, <2>6, <3>1, <3>2 DEF ModuleInv, At, Answered, Closing
    <3>3. CASE running.by = "status"
      BY <1>0, <2>1, <2>2, <2>3, <3>1, <3>3 DEF ModuleInv, At, Answered, Closing
    <3> QED
      BY <2>1, <3>2, <3>3 DEF Clients
  <2> QED
    BY <2>4, <2>5, <2>6
<1>6. CASE Dispatch
  <2>1. /\ UNCHANGED <<ui, plugin, initialized, thread>> /\ at["window"] = "idle"
        /\ \/ at'["window"] = "pushed" /\ answer'["window"] = NoAnswer
           \/ at'["window"] = "returned" /\ Head(ui).step \in {"Query", "Requery"}
    BY <1>0, <1>6 DEF Dispatch, GetFilesStatus, Push, RunQueryDirectly, windowVars, moduleVars,
       threadVars
  <2>2. ~NoAnswer.ok
    BY DEF NoAnswer
  <2> QED
    BY <2>1, <2>2 DEF ModuleInv, Answered, At, Closing
<1>7. ASSUME ui # <<>>, ui' = Tail(ui), UNCHANGED <<plugin, initialized, thread>>,
             at'["window"] = "idle", Head(ui).step \notin {"Join", "Shutdown"}
      PROVE  ModuleInv'
  <2>1. Closing => Closing'
    BY <1>7, HeadOfHandler DEF Closing
  <2>2. ~At("CreateThread")'
    BY <1>7, HeadOfHandler DEF At
  <2> QED
    BY <1>7, <2>1, <2>2, ModuleMoves DEF ModuleInv
<1>8. ASSUME ui # <<>>, ui' = <<>> \/ ui' = Do("Shutdown"),
             UNCHANGED <<plugin, initialized, thread>>, at'["window"] = "idle",
             Head(ui).step \notin {"CloseProject", "Uninitialize", "Stop", "Join"}
      PROVE  ModuleInv'
  <2>1. ~Closing
    BY <1>8, HeadOfHandler
  <2>2. ~At("CreateThread")'
    BY <1>8 DEF At, Do, Step
  <2> QED
    BY <1>8, <2>1, <2>2, ModuleMoves DEF ModuleInv
<1>9. CASE DispatchReturned
  <2>1. /\ ui # <<>> /\ at["window"] = "returned" /\ at'["window"] = "idle"
        /\ UNCHANGED <<plugin, thread>> /\ Head(ui).step \in CommandKinds
    BY <1>0, <1>9 DEF DispatchReturned, CommandInv, threadVars
  <2>2. CASE Head(ui).step = "Initialize"
    <3>1. InitializeReturns(answer["window"].ok)
      BY <1>9, <2>2 DEF DispatchReturned
    <3>2. initialized' => plugin = "ready"
      BY <2>1, <2>2, <3>1 DEF InitializeReturns, ModuleInv, At, Answered
    <3>3. ~At("CreateThread")'
      BY <2>1, <2>2, <3>1, HeadOfHandler DEF InitializeReturns, At
    <3> QED
      BY <2>1, <3>2, <3>3 DEF ModuleInv, Answered
  <2>3. CASE Head(ui).step # "Initialize"
    <3>1. /\ UNCHANGED initialized
          /\ \/ ui' = Tail(ui)
             \/ ui' = Do("Shutdown") /\ Head(ui).step = "OpenProject"
             \/ ui' = <<>> /\ Head(ui).step = "Query"
      BY <1>9, <2>3 DEF DispatchReturned, OpenProjectReturns, CloseProjectReturns, QueryReturns,
         RequeryReturns, Next1
    <3>2. Head(ui).step \notin {"Join", "Shutdown"}
      BY <2>1 DEF CommandKinds
    <3> QED
      BY <1>7, <1>8, <2>1, <3>1, <3>2
  <2> QED
    BY <2>2, <2>3
<1>10. ASSUME At("Shutdown") \/ At("Stop") \/ At("Join") \/ At("CreateThread")
              \/ At("WaitForThread") \/ At("UpdateAll") \/ At("WaitForStatus") \/ At("Dialog")
       PROVE  ui # <<>> /\ at["window"] = "idle"
  BY <1>10 DEF At, CommandInv, CommandKinds
<1>11. CASE ShutdownBegins
  <2>1. UNCHANGED <<plugin, initialized, thread, at>> /\ At("Shutdown")
    BY <1>11 DEF ShutdownBegins, moduleVars, threadVars, callVars
  <2>2. ~Closing
    BY <2>1, HeadOfHandler DEF At
  <2>3. ~At("CreateThread")'
    BY <1>11, ShutdownBeginsWith DEF At
  <2> QED
    BY <1>10, <2>1, <2>2, <2>3, ModuleMoves DEF ModuleInv
<1>12. CASE ShutdownStops
  BY <1>7, <1>10, <1>12 DEF ShutdownStops, threadVars, At, Next1
<1>13. CASE ShutdownEnds
  <2>1. UNCHANGED at /\ (At("Join") \/ At("Shutdown")) /\ plugin' = "none" /\ ~initialized'
        /\ thread' = "none"
    BY <1>13 DEF ShutdownEnds
  <2> QED
    BY <1>10, <2>1 DEF ModuleInv, Answered
<1>14. CASE CreateCommandThread
  <2>1. /\ UNCHANGED <<at, plugin, initialized>> /\ At("CreateThread") /\ thread' = "load"
        /\ ui' = Tail(ui)
    BY <1>14 DEF CreateCommandThread, Next1
  <2>2. ~At("CreateThread")'
    BY <1>10, <2>1, HeadOfHandler DEF At
  <2> QED
    BY <1>10, <2>1, <2>2 DEF ModuleInv, Answered
<1>15. CASE WaitForThread
  BY <1>7, <1>8, <1>10, <1>15 DEF WaitForThread, moduleVars, threadVars, callVars, At, Next1
<1>16. CASE UpdateProjectFileStatus \/ WaitForStatusThread
  BY <1>7, <1>10, <1>16 DEF UpdateProjectFileStatus, WaitForStatusThread, moduleVars, threadVars,
     callVars, At, Next1
<1>17. CASE AnswerDialog
  BY <1>7, <1>8, <1>10, <1>17 DEF AnswerDialog, moduleVars, threadVars, callVars, At, Next1
<1>18. CASE OnThreadExit \/ UNCHANGED vars
  <2>1. UNCHANGED <<ui, plugin, initialized, thread, at, answer>>
    BY <1>18 DEF OnThreadExit, vars, windowVars, moduleVars, threadVars, callVars
  <2>2. at'["window"] \in {"pushed", "waiting"} => ~answer'["window"].ok
    BY <2>1 DEF ModuleInv
  <2>3. Answered("window")' => Answered("window") /\ answer'["window"] = answer["window"]
    BY <2>1 DEF Answered
  <2> QED
    BY <2>1, <2>2, <2>3, ModuleStays
<1>19. CASE User
  <2>1. ASSUME NEW steps, Starts(steps), steps = <<>> \/ Head(steps).step # "CreateThread"
        PROVE  ModuleInv'
    <3>1. /\ ui = <<>> /\ ui' = steps /\ UNCHANGED <<plugin, initialized, thread, at>>
      BY <2>1 DEF Starts, moduleVars, threadVars, callVars
    <3>2. at["window"] = "idle" /\ ~Closing
      BY <3>1 DEF CommandInv, Closing
    <3> QED
      BY <2>1, <3>1, <3>2, ModuleMoves DEF ModuleInv, At
  <2>2. ASSUME NEW b \in BOOLEAN, NEW names, ChangeSettings(b) \/ SetProject(names, b)
        PROVE  ModuleInv'
    BY <2>1, <2>2, HandlersBegin DEF ChangeSettings, SetProject
  <2>3. ASSUME NEW names, CheckOut(names) \/ CheckIn(names) \/ UndoCheckOut(names)
        PROVE  ModuleInv'
    BY <2>1, <2>3, HandlersBegin DEF CheckOut, CheckIn, UndoCheckOut, OnFiles, Changing
  <2>4. ASSUME NEW f, EditReadOnly(f) PROVE ModuleInv'
    BY <2>1, <2>4, HandlersBegin DEF EditReadOnly
  <2>5. ASSUME NEW f, AddFile(f) PROVE ModuleInv'
    <3>1. ASSUME Starts(<<>>) PROVE ModuleInv'
      BY <2>1, <3>1
    <3>2. ASSUME NEW add \in BOOLEAN,
                 Starts((IF add THEN <<Step("AddFiles", {f})>> ELSE <<>>)
                        \o <<Step("Requery", {f})>>)
          PROVE  ModuleInv'
      <4>1. CASE add
        BY <2>1, <3>2, <4>1, HandlersBegin
      <4>2. CASE ~add
        <5>1. <<>> \o <<Step("Requery", {f})>> = <<Step("Requery", {f})>>
          OBVIOUS
        <5> QED
          BY <2>1, <3>2, <4>2, <5>1, HandlersBegin
      <4> QED
        BY <4>1, <4>2
    <3> QED
      BY <2>5, <3>1, <3>2 DEF AddFile
  <2>6. ASSUME NEW names, ShowHistory(names) PROVE ModuleInv'
    BY <2>1, <2>6, HandlersBegin DEF ShowHistory
  <2>7. ASSUME NEW f, RemoveFile(f) PROVE ModuleInv'
    BY <2>1, <2>7 DEF RemoveFile
  <2>8. Refresh \/ CloseWindow => ModuleInv'
    BY <2>1, HandlersBegin DEF Refresh, CloseWindow
  <2> QED
    BY <1>19, <2>2, <2>3, <2>4, <2>5, <2>6, <2>7, <2>8 DEF User
<1> QED
  BY <1>0, <1>1, <1>2, <1>3, <1>4, <1>5, <1>6, <1>9, <1>11, <1>12, <1>13, <1>14, <1>15, <1>16,
     <1>17, <1>18, <1>19
  DEF Next, WindowWork, CommandThread, StatusThread

-----------------------------------------------------------------------------
(* Status threads and their answers. *)

LEMMA SlotsTyped ==
    ASSUME Types
    PROVE  /\ slot \in [0 .. 1 -> StatusThreads \cup {None}]
           /\ slot[0] # None => slot[0] \in StatusThreads
           /\ slot[1] # None => slot[1] \in StatusThreads
BY DEF Types, TypeOK

LEMMA AnswersToEntry ==
    ASSUME Types, EntryReturns
    PROVE  /\ slot'[0] # None /\ slot'[0].names = slot[0].names /\ slot'[0].late = slot[0].late
           /\ slot'[1] = slot[1] /\ slot[0] # None
           /\ \/ at["status"] = "returned" /\ slot'[0].found = answer["status"].of
              \/ slot[0].names = {} /\ slot'[0].found = slot[0].found
<1> DEFINE t == [slot[0] EXCEPT !.found = answer["status"].of]
<1>1. slot[0] # None
  BY DEF EntryReturns, StatusRuns
<1>2. /\ t \in StatusThreads /\ t.names = slot[0].names /\ t.late = slot[0].late
      /\ t.found = answer["status"].of
  <2>1. slot[0] \in StatusThreads /\ answer["status"].of \in [Files -> Statuses \cup {None}]
    BY <1>1, SlotsTyped DEF Types, TypeOK, Answers, Clients
  <2> QED
    BY <2>1 DEF StatusThreads
<1>3. \/ at["status"] = "returned" /\ slot' = [slot EXCEPT ![0] = t]
      \/ slot[0].names = {} /\ slot' = slot
  BY DEF EntryReturns
<1> HIDE DEF t
<1> QED
  BY <1>1, <1>2, <1>3, SlotsTyped, NoneIsNoValue

LEMMA SingleUpdateSlots ==
    ASSUME Types, NEW names \in SUBSET Files, SingleStatus(names)
    PROVE  /\ slot'[1] = slot[1]
           /\ slot[0] = None => slot'[0] = None
           /\ slot[0] # None =>
                /\ slot'[0] # None /\ slot'[0].names = slot[0].names
                /\ slot'[0].found = slot[0].found /\ slot'[0].late = slot[0].late \cup names
<1>1. slot'[0] = Overtake(slot[0], names) /\ slot'[1] = slot[1]
  BY SlotsTyped DEF SingleStatus
<1>2. slot[0] # None =>
        LET t == [slot[0] EXCEPT !.late = @ \cup names] IN
        /\ t \in StatusThreads /\ t.names = slot[0].names /\ t.found = slot[0].found
        /\ t.late = slot[0].late \cup names
  BY SlotsTyped DEF StatusThreads
<1> QED
  BY <1>1, <1>2, NoneIsNoValue DEF Overtake

LEMMA AskAgainSlots ==
    ASSUME Types, StatusInv, AnswerInv
    PROVE  LET s == AskAgain IN
           /\ slot[0] = None =>
                /\ s[1] = None /\ s[0] # None /\ s[0].names = files /\ s[0].late = {}
                /\ s[0].found = NoAnswer.of
           /\ slot[0] # None =>
                /\ s[0] = slot[0] /\ s[1] # None /\ files \subseteq s[1].names
                /\ s[1].late = {} /\ s[1].found = NoAnswer.of
<1> DEFINE s == AskAgain
           n == WithAllNames(NewStatusThread)
           t == [n EXCEPT !.started = TRUE]
           u == WithAllNames(IF slot[1] = None THEN NewStatusThread ELSE slot[1])
<1>1. NewStatusThread \in StatusThreads /\ files \in SUBSET Files
  BY DEF NewStatusThread, StatusThreads, NoAnswer, Types, TypeOK
<1>2. /\ n \in StatusThreads /\ n.names = files /\ n.late = {} /\ n.found = NoAnswer.of
  BY <1>1 DEF WithAllNames, NewStatusThread, StatusThreads, NoAnswer
<1>3. /\ t \in StatusThreads /\ t.names = files /\ t.late = {} /\ t.found = NoAnswer.of
  BY <1>2 DEF StatusThreads
<1>4. u \in StatusThreads /\ files \subseteq u.names /\ u.late = {} /\ u.found = NoAnswer.of
  <2>1. CASE slot[1] = None
    BY <1>2, <2>1
  <2>2. CASE slot[1] # None
    <3>1. slot[1] \in StatusThreads /\ slot[1].late = {} /\ slot[1].found = NoAnswer.of
      BY <2>2, SlotsTyped DEF AnswerInv
    <3>2. u = [slot[1] EXCEPT !.names = @ \cup files]
      BY <2>2 DEF WithAllNames
    <3> QED
      BY <1>1, <3>1, <3>2 DEF StatusThreads
  <2> QED
    BY <2>1, <2>2
<1>5. slot[0] = None => slot[1] = None
  BY DEF StatusInv
<1>6. s = IF slot[0] = None THEN [slot EXCEPT ![0] = t] ELSE [slot EXCEPT ![1] = u]
  BY DEF AskAgain
<1> HIDE DEF t, u, n, s
<1>7. slot[0] = None => s[0] = t /\ s[1] = slot[1]
  BY <1>6, SlotsTyped
<1>8. slot[0] # None => s[0] = slot[0] /\ s[1] = u
  BY <1>6, SlotsTyped
<1>9. t # None /\ u # None
  BY <1>3, <1>4, NoneIsNoValue
<1> QED
  BY <1>3, <1>4, <1>5, <1>7, <1>8, <1>9 DEF s

LEMMA ExitSlots ==
    ASSUME Types, OnThreadExit
    PROVE  /\ slot'[1] = None
           /\ slot'[0] = None <=> slot[1] = None
           /\ slot[1] # None =>
                /\ slot'[0].names = slot[1].names /\ slot'[0].late = slot[1].late
                /\ slot'[0].found = slot[1].found
<1>1. slot'[1] = None /\ slot'[0] = StartNext(slot[1])
  BY DEF OnThreadExit
<1>2. slot[1] # None =>
        LET t == [slot[1] EXCEPT !.started = TRUE] IN
        /\ t \in StatusThreads /\ t.names = slot[1].names /\ t.late = slot[1].late
        /\ t.found = slot[1].found
  BY SlotsTyped DEF StatusThreads
<1> QED
  BY <1>1, <1>2, NoneIsNoValue DEF StartNext

LEMMA AnswersOfNames ==
    ASSUME NEW names, NEW a \in QueryAnswers(names), NEW f \in Files, a.of[f] # None
    PROVE  f \in names
BY DEF QueryAnswers, NoAnswer, Known

LEMMA StepAnswer ==
    Types /\ AliveInv /\ StatusInv /\ CommandInv /\ AnswerInv /\ [Next]_vars => AnswerInv'
<1> SUFFICES ASSUME Types, AliveInv, StatusInv, CommandInv, AnswerInv, [Next]_vars
             PROVE  AnswerInv'
  OBVIOUS
<1>0. /\ at \in [Clients -> {"idle", "pushed", "waiting", "early", "returned"}]
      /\ answer \in [Clients -> Answers]
      /\ "window" \in Clients /\ "status" \in Clients /\ "window" # "status"
  BY DEF Types, TypeOK, Clients
<1>1. ASSUME UNCHANGED slot, answer'["status"] = answer["status"],
             Answered("status")' => Answered("status")
      PROVE  AnswerInv'
  BY <1>1 DEF AnswerInv
<1>2. ASSUME at'["status"] = "idle",
             slot'[0] # None => \A f \in Files : slot'[0].found[f] # None => f \in slot'[0].names,
             slot'[1] # None => slot'[1].late = {} /\ slot'[1].found = NoAnswer.of
      PROVE  AnswerInv'
  BY <1>2 DEF AnswerInv, Answered
<1>3. ASSUME NEW c \in Clients, Signal(c) PROVE AnswerInv'
  <2>1. UNCHANGED <<slot, answer>> /\ (Answered("status")' => Answered("status"))
    BY <1>0, <1>3 DEF Signal, Answered, statusVars
  <2> QED
    BY <1>1, <2>1
<1>4. CASE EntryQueries
  <2>1. UNCHANGED slot
    BY <1>4 DEF EntryQueries, statusVars
  <2>2. CASE Push("status", "Query", slot[0].names)
    <3>1. at'["status"] = "pushed"
      BY <1>0, <2>2 DEF Push
    <3> QED
      BY <2>1, <3>1 DEF AnswerInv, Answered
  <2>3. CASE RunQueryDirectly("status", slot[0].names)
    <3>1. answer'["status"] \in QueryAnswers(slot[0].names)
      BY <1>0, <2>3 DEF RunQueryDirectly
    <3> QED
      BY <2>1, <3>1, AnswersOfNames DEF AnswerInv
  <2> QED
    BY <1>4, <2>2, <2>3 DEF EntryQueries, GetFilesStatus
<1>5. CASE EntryReturns
  <2>1. at'["status"] = "idle"
    BY <1>0, <1>5 DEF EntryReturns, StatusInv
  <2>2. \A f \in Files : slot'[0].found[f] # None => f \in slot'[0].names
    BY <1>5, AnswersToEntry DEF AnswerInv, Answered
  <2>3. slot'[1] = slot[1]
    BY <1>5, AnswersToEntry
  <2> QED
    BY <1>2, <2>1, <2>2, <2>3 DEF AnswerInv
<1>6. CASE RunCommand
  <2>1. /\ UNCHANGED slot /\ running # None /\ running.by \in Clients
        /\ running.by = "status" => running.kind = "Query" /\ running.names = slot[0].names
    BY <1>6, HeldHaveClients DEF RunCommand, Types, CommandInv, IsOfClient, statusVars
  <2>2. CASE running.by = "status"
    <3>1. answer'["status"] \in QueryAnswers(slot[0].names)
      BY <1>0, <1>6, <2>1, <2>2 DEF RunCommand, RunQuery
    <3> QED
      BY <2>1, <3>1, AnswersOfNames DEF AnswerInv
  <2>3. CASE running.by = "window"
    <3>1. answer'["status"] = answer["status"] /\ at'["status"] = at["status"]
      BY <1>0, <1>6, <2>3 DEF RunCommand, RunInitialize, RunOpenProject, RunQuery, RunUninitialize,
         Complete
    <3> QED
      BY <1>1, <2>1, <3>1 DEF Answered
  <2> QED
    BY <2>1, <2>2, <2>3 DEF Clients
<1>7. CASE LoadPlugin \/ ThreadReady \/ CheckQueue \/ WaitForCommand \/ TakeCommand
  <2>1. UNCHANGED <<slot, at, answer>>
    BY <1>7 DEF LoadPlugin, ThreadReady, CheckQueue, WaitForCommand, TakeCommand, callVars, statusVars
  <2> QED
    BY <1>1, <2>1 DEF Answered
<1>8. CASE Dispatch
  <2>1. /\ UNCHANGED slot /\ answer'["status"] = answer["status"]
        /\ at'["status"] = at["status"]
    BY <1>0, <1>8 DEF Dispatch, GetFilesStatus, Push, RunQueryDirectly, statusVars
  <2> QED
    BY <1>1, <2>1 DEF Answered
<1>9. CASE DispatchReturned
  <2>1. answer'["status"] = answer["status"] /\ at'["status"] = at["status"]
    BY <1>0, <1>9 DEF DispatchReturned
  <2>2. CASE UNCHANGED slot
    BY <1>1, <2>1, <2>2 DEF Answered
  <2>3. CASE SingleStatus(Head(ui).names)
    <3>1. Head(ui).names \in SUBSET Files
      BY <1>9, TailOfSteps DEF DispatchReturned
    <3>2. /\ slot'[1] = slot[1]
          /\ slot[0] = None => slot'[0] = None
          /\ slot[0] # None => /\ slot'[0] # None /\ slot'[0].names = slot[0].names
                               /\ slot'[0].found = slot[0].found
      BY <2>3, <3>1, SingleUpdateSlots
    <3>3. Answered("status") => slot[0] # None
      BY DEF StatusInv, Answered
    <3> QED
      BY <2>1, <3>2, <3>3 DEF AnswerInv, Answered
  <2>4. UNCHANGED slot \/ SingleStatus(Head(ui).names)
    BY <1>9 DEF DispatchReturned, InitializeReturns, OpenProjectReturns, CloseProjectReturns,
       QueryReturns, RequeryReturns
  <2> QED
    BY <2>2, <2>3, <2>4
<1>10. CASE UpdateProjectFileStatus
  <2>1. UNCHANGED <<at, answer>> /\ slot' \in {AskAgain, slot}
    BY <1>10 DEF UpdateProjectFileStatus, callVars
  <2>2. CASE slot' = slot
    BY <1>1, <2>1, <2>2 DEF Answered
  <2>3. CASE slot' = AskAgain
    <3>1. \A f \in Files : NoAnswer.of[f] = None
      BY DEF NoAnswer
    <3>2. Answered("status") => slot[0] # None
      BY DEF StatusInv, Answered
    <3>3. /\ slot[0] = None => slot'[1] = None /\ slot'[0].found = NoAnswer.of
          /\ slot[0] # None => /\ slot'[0] = slot[0]
                               /\ slot'[1].late = {} /\ slot'[1].found = NoAnswer.of
      BY <2>3, AskAgainSlots
    <3> QED
      BY <2>1, <3>1, <3>2, <3>3 DEF AnswerInv, Answered
  <2> QED
    BY <2>1, <2>2, <2>3
<1>11. CASE OnThreadExit
  <2>1. at'["status"] = "idle"
    BY <1>11 DEF OnThreadExit, StatusInv, callVars
  <2>2. \A f \in Files : NoAnswer.of[f] = None
    BY DEF NoAnswer
  <2> QED
    BY <1>2, <1>11, <2>1, <2>2, ExitSlots DEF AnswerInv
<1>12. CASE WaitForStatusThread
  <2>1. at'["status"] = "idle" /\ slot'[0] = None /\ slot'[1] = None
    BY <1>0, <1>12 DEF WaitForStatusThread, StatusInv, callVars
  <2> QED
    BY <1>2, <2>1
<1>13. CASE ShutdownBegins \/ ShutdownStops \/ ShutdownEnds \/ CreateCommandThread
            \/ WaitForThread \/ AnswerDialog \/ UNCHANGED vars
  <2>1. UNCHANGED <<slot, at, answer>>
    BY <1>13 DEF ShutdownBegins, ShutdownStops, ShutdownEnds, CreateCommandThread, WaitForThread,
       AnswerDialog, vars, callVars, statusVars
  <2> QED
    BY <1>1, <2>1 DEF Answered
<1>14. CASE User
  <2>1. \A steps : Starts(steps) => UNCHANGED <<slot, at, answer>>
    BY DEF Starts, callVars, statusVars
  <2>2. UNCHANGED <<slot, at, answer>>
    BY <1>14, <2>1 DEF User, ChangeSettings, SetProject, CheckOut, CheckIn, UndoCheckOut,
       OnFiles, ShowHistory, EditReadOnly, AddFile, RemoveFile, Refresh, CloseWindow
  <2> QED
    BY <1>1, <2>2 DEF Answered
<1> QED
  BY <1>0, <1>3, <1>4, <1>5, <1>6, <1>7, <1>8, <1>9, <1>10, <1>11, <1>12, <1>13, <1>14
  DEF Next, WindowWork, CommandThread, StatusThread

-----------------------------------------------------------------------------
(* Files whose status is not up to date. *)

LEMMA ReadyAnswers ==
    ASSUME PluginFails = FALSE, plugin = "ready", NEW names \in SUBSET Files,
           NEW a \in QueryAnswers(names), NEW f \in names
    PROVE  a.of[f] = repository[f]
<1>1. a = [ok |-> TRUE, of |-> Known(names)]
  BY DEF QueryAnswers
<1> QED
  BY <1>1 DEF Known

LEMMA HandlersEnd ==
    /\ \A kind, names : LET s == <<Step(kind, names)>> \o Do("UpdateAll") IN
         s # <<>> /\ EndsIn(s).step \in Refreshing
    /\ LET s == Do("WaitForStatus") \o Do("Shutdown") \o Do("Gone") IN
         s # <<>> /\ EndsIn(s).step \in Refreshing
    /\ \A b \in BOOLEAN : LET s == InitializeSourceControl(b) IN
         s # <<>> /\ EndsIn(s).step \in Refreshing
    /\ Do("Shutdown") # <<>> /\ EndsIn(Do("Shutdown")).step \in Refreshing
    /\ Do("UpdateAll") # <<>> /\ EndsIn(Do("UpdateAll")).step \in Refreshing
    /\ \A names : LET s == <<Step("AddFiles", names)>> \o <<Step("Requery", names)>> IN
         /\ s # <<>> /\ Head(s).step = "AddFiles"
         /\ EndsIn(s).step = "Requery" /\ EndsIn(s).names = names
    /\ \A names : LET s == <<Step("Requery", names)>> IN
         /\ s # <<>> /\ Head(s).step = "Requery"
         /\ EndsIn(s).step = "Requery" /\ EndsIn(s).names = names
<1>1. ASSUME NEW b \in BOOLEAN
      PROVE  InitializeSourceControl(b) # <<>> /\ EndsIn(InitializeSourceControl(b)).step \in Refreshing
  <2> DEFINE s == <<Step("Shutdown", NoFiles), Step("CreateThread", NoFiles),
                    Step("WaitForThread", NoFiles), Step("Initialize", NoFiles),
                    Step("OpenProject", NoFiles), Step("UpdateAll", NoFiles)>>
             t == <<Step("Shutdown", NoFiles), Step("UpdateAll", NoFiles)>>
  <2>1. s # <<>> /\ EndsIn(s).step \in Refreshing
    BY DEF EndsIn, Step, Refreshing
  <2>2. t # <<>> /\ EndsIn(t).step \in Refreshing
    BY DEF EndsIn, Step, Refreshing
  <2>3. InitializeSourceControl(TRUE) = s /\ InitializeSourceControl(FALSE) = t
    BY InitializeSteps
  <2>4. b = TRUE \/ b = FALSE
    OBVIOUS
  <2> HIDE DEF s, t
  <2>5. CASE b = TRUE
    BY <2>1, <2>3, <2>5
  <2>6. CASE b = FALSE
    BY <2>2, <2>3, <2>6
  <2> QED
    BY <2>4, <2>5, <2>6
<1> QED
  BY <1>1 DEF EndsIn, Do, Step, Refreshing

\* A file stays in time while its status and those of the repository stay.
LEMMA InTimeStays ==
    ASSUME NEW f, InTime(f), UNCHANGED <<slot, events>>, status'[f] = status[f],
           repository'[f] = repository[f], f \in overtaken => f \in overtaken',
           Answered("status")' /\ slot[0] # None /\ f \in slot[0].names =>
             \/ Answered("status") /\ answer'["status"] = answer["status"]
             \/ answer'["status"].of[f] = repository[f]
    PROVE  InTime(f)'
BY DEF InTime, Fresh, Shown

\* The window stays at a step, or goes on from one that updates nothing.
LEMMA LiftedStays ==
    ASSUME Types, FormInv, NEW f, Lifted(f),
           \/ UNCHANGED ui
           \/ ui' = Tail(ui) /\ Head(ui).step \notin Refreshing \cup {"Requery"}
    PROVE  Lifted(f)'
<1>1. CASE UNCHANGED ui
  BY <1>1 DEF Lifted
<1>2. CASE ui' = Tail(ui) /\ Head(ui).step \notin Refreshing \cup {"Requery"}
  <2>1. ui # <<>>
    BY DEF Lifted
  <2>2. CASE EndsIn(ui).step \in Refreshing
    BY <1>2, <2>1, <2>2, HeadOfHandler DEF Lifted
  <2>3. CASE EndsIn(ui).step \notin Refreshing
    <3>1. Head(ui).step \in Changing /\ EndsIn(ui).step = "Requery" /\ f \in EndsIn(ui).names
      BY <1>2, <2>3 DEF Lifted
    <3>2. /\ ui' # <<>> /\ Head(ui') = EndsIn(ui) /\ EndsIn(ui') = EndsIn(ui)
      BY <1>2, <2>1, <3>1, HeadOfHandler
    <3> QED
      BY <3>1, <3>2 DEF Lifted
  <2> QED
    BY <2>2, <2>3
<1> QED
  BY <1>1, <1>2

LEMMA StepRequery ==
    ASSUME PluginFails = FALSE, Types, AliveInv, FormInv, CommandInv, ModuleInv, RequeryInv,
           [Next]_vars
    PROVE  RequeryInv'
<1>0. /\ at \in [Clients -> {"idle", "pushed", "waiting", "early", "returned"}]
      /\ answer \in [Clients -> Answers]
      /\ "window" \in Clients /\ "status" \in Clients /\ "window" # "status"
  BY DEF Types, TypeOK, Clients
<1>1. ASSUME UNCHANGED <<ui, initialized, repository>>, answer'["window"] = answer["window"],
             Answered("window")' => Answered("window")
      PROVE  RequeryInv'
  BY <1>1 DEF RequeryInv, At
<1>2. ASSUME at'["window"] \notin {"early", "returned"} PROVE RequeryInv'
  BY <1>2 DEF RequeryInv, Answered
<1>3. ASSUME At("Requery"), initialized
      PROVE  /\ plugin = "ready" /\ Head(ui).names \in SUBSET Files
  <2>1. ui # <<>> /\ ~Closing
    BY <1>3, HeadOfHandler DEF At
  <2> QED
    BY <1>3, <2>1, TailOfSteps DEF ModuleInv
<1>4. ASSUME UNCHANGED <<ui, initialized, repository>>,
             At("Requery") /\ initialized => answer'["window"] \in QueryAnswers(Head(ui).names)
      PROVE  RequeryInv'
  <2> SUFFICES ASSUME At("Requery"), initialized, NEW f \in Head(ui).names
               PROVE  answer'["window"].of[f] = repository[f]
    BY <1>4 DEF RequeryInv, At
  <2> QED
    BY <1>3, <1>4, ReadyAnswers
<1>5. ASSUME NEW c \in Clients, Signal(c) PROVE RequeryInv'
  <2>1. Answered("window")' => Answered("window")
    BY <1>0, <1>5 DEF Signal, Answered
  <2> QED
    BY <1>1, <1>5, <2>1 DEF Signal, windowVars, moduleVars
<1>6. CASE EntryQueries \/ EntryReturns
  <2>1. /\ UNCHANGED <<ui, initialized, repository>>
        /\ at'["window"] = at["window"] /\ answer'["window"] = answer["window"]
    BY <1>0, <1>6 DEF EntryQueries, EntryReturns, GetFilesStatus, Push, RunQueryDirectly,
       windowVars, moduleVars
  <2> QED
    BY <1>1, <2>1 DEF Answered
<1>7. CASE LoadPlugin \/ ThreadReady \/ CheckQueue \/ WaitForCommand \/ TakeCommand
  <2>1. UNCHANGED <<ui, initialized, repository, at, answer>>
    BY <1>7 DEF LoadPlugin, ThreadReady, CheckQueue, WaitForCommand, TakeCommand, windowVars,
       moduleVars, callVars
  <2> QED
    BY <1>1, <2>1 DEF Answered
<1>8. CASE RunCommand
  <2>1. /\ UNCHANGED <<ui, initialized>> /\ running # None /\ running.by \in Clients
        /\ running.by = "window" => Head(ui).step = running.kind /\ Head(ui).names = running.names
        /\ running.by = "status" => running.kind = "Query"
    BY <1>8, HeldHaveClients DEF RunCommand, Types, CommandInv, IsOfClient, windowVars
  <2>2. CASE running.by = "status"
    <3>1. UNCHANGED repository
      BY <1>8, <2>1, <2>2 DEF RunCommand, RunOnRepository
    <3>2. at'["window"] = at["window"] /\ answer'["window"] = answer["window"]
      BY <1>0, <1>8, <2>1, <2>2 DEF RunCommand, RunQuery, Complete
    <3> QED
      BY <1>1, <2>1, <3>1, <3>2 DEF Answered
  <2>3. CASE running.by = "window" /\ running.kind # "Requery"
    BY <2>1, <2>3 DEF RequeryInv, At
  <2>4. CASE running.by = "window" /\ running.kind = "Requery"
    <3>1. UNCHANGED repository
      BY <1>8, <2>4 DEF RunCommand, RunOnRepository
    <3>2. answer'["window"] \in QueryAnswers(Head(ui).names)
      BY <1>0, <1>8, <2>1, <2>4 DEF RunCommand, RunQuery
    <3> QED
      BY <1>4, <2>1, <3>1, <3>2
  <2> QED
    BY <2>1, <2>2, <2>3, <2>4 DEF Clients
<1>9. CASE Dispatch
  <2>1. UNCHANGED <<ui, initialized, repository>>
    BY <1>9 DEF Dispatch, windowVars, moduleVars
  <2>2. CASE at'["window"] = "pushed"
    BY <1>2, <2>2
  <2>3. CASE RunQueryDirectly("window", Head(ui).names)
    <3>1. answer'["window"] \in QueryAnswers(Head(ui).names)
      BY <1>0, <2>3 DEF RunQueryDirectly
    <3> QED
      BY <1>4, <2>1, <3>1
  <2>4. at'["window"] = "pushed" \/ RunQueryDirectly("window", Head(ui).names)
    BY <1>0, <1>9 DEF Dispatch, GetFilesStatus, Push
  <2> QED
    BY <2>2, <2>3, <2>4
<1>10. CASE DispatchReturned
  BY <1>0, <1>2, <1>10 DEF DispatchReturned
<1>11. ASSUME UNCHANGED at, at["window"] = "idle" PROVE RequeryInv'
  BY <1>2, <1>11
<1>12. CASE ShutdownBegins \/ ShutdownStops \/ ShutdownEnds \/ CreateCommandThread
            \/ WaitForThread \/ UpdateProjectFileStatus \/ WaitForStatusThread \/ AnswerDialog
  <2>1. UNCHANGED at
    BY <1>12 DEF ShutdownBegins, ShutdownStops, ShutdownEnds, CreateCommandThread, WaitForThread,
       UpdateProjectFileStatus, WaitForStatusThread, AnswerDialog, callVars
  <2>2. Head(ui).step \notin CommandKinds
    BY <1>12 DEF ShutdownBegins, ShutdownStops, ShutdownEnds, CreateCommandThread, WaitForThread,
       UpdateProjectFileStatus, WaitForStatusThread, AnswerDialog, At, CommandKinds
  <2> QED
    BY <1>11, <2>1, <2>2 DEF CommandInv
<1>13. CASE OnThreadExit \/ UNCHANGED vars
  <2>1. UNCHANGED <<ui, initialized, repository, at, answer>>
    BY <1>13 DEF OnThreadExit, vars, windowVars, moduleVars, callVars
  <2> QED
    BY <1>1, <2>1 DEF Answered
<1>14. CASE User
  <2>1. \A steps : Starts(steps) => ui = <<>> /\ UNCHANGED at
    BY DEF Starts, callVars
  <2>2. ui = <<>> /\ UNCHANGED at
    BY <1>14, <2>1 DEF User, ChangeSettings, SetProject, CheckOut, CheckIn, UndoCheckOut,
       OnFiles, ShowHistory, EditReadOnly, AddFile, RemoveFile, Refresh, CloseWindow
  <2> QED
    BY <1>11, <2>2 DEF CommandInv
<1> QED
  BY <1>0, <1>5, <1>6, <1>7, <1>8, <1>9, <1>10, <1>12, <1>13, <1>14
  DEF Next, WindowWork, CommandThread, StatusThread

\* The exit of a thread: the answers shown are true, or were overtaken.
LEMMA ExitKeepsUpToDate ==
    ASSUME Types, StatusInv, AnswerInv, OnThreadExit, NEW f \in files, InTime(f)
    PROVE  InTime(f)'
<1> DEFINE found == slot[0].found
           reached == {g \in files : found[g] # None}
<1>1. /\ f \in Files /\ events = 1 /\ events' = 0 /\ slot[0] # None
      /\ at["status"] = "idle" /\ at'["status"] = "idle" /\ UNCHANGED repository
      /\ repository[f] \in Statuses
      /\ status' = [g \in Files |-> IF g \in reached THEN FileStatus(found[g]) ELSE status[g]]
      /\ overtaken' = (overtaken \ reached) \cup (slot[0].late \cap reached)
  BY DEF OnThreadExit, StatusInv, Types, TypeOK, callVars
<1>2. CASE slot[1] # None /\ f \in slot[1].names
  <2>1. /\ slot'[0] # None /\ f \in slot'[0].names \ slot'[0].late
    BY <1>2, ExitSlots DEF AnswerInv
  <2>2. Fresh(f)'
    BY <1>1 DEF Fresh, Answered
  <2> QED
    BY <2>1, <2>2 DEF InTime
<1>3. CASE ~(slot[1] # None /\ f \in slot[1].names)
  <2>1. slot'[0] # None => f \notin slot'[0].names \cup slot'[0].late
    BY <1>3, ExitSlots DEF AnswerInv
  <2>2. SUFFICES Shown(f)' \/ f \in overtaken'
    BY <2>1 DEF InTime
  <2>3. f \notin reached => (Shown(f)' <=> Shown(f)) /\ (f \in overtaken => f \in overtaken')
    BY <1>1 DEF Shown
  <2>4. CASE f \in slot[0].names \ slot[0].late /\ Fresh(f)
    <3>1. found[f] = repository[f] /\ f \in reached
      BY <1>1, <2>4, NoneIsNoValue DEF Fresh
    <3> QED
      BY <1>1, <3>1 DEF Shown
  <2>5. CASE f \in slot[0].late /\ Shown(f)
    BY <1>1, <2>3, <2>5
  <2>6. CASE f \notin slot[0].names \cup slot[0].late /\ (Shown(f) \/ f \in overtaken)
    <3>1. f \notin reached
      BY <1>1, <2>6 DEF AnswerInv
    <3> QED
      BY <2>3, <2>6, <3>1
  <2> QED
    BY <1>1, <1>3, <2>4, <2>5, <2>6 DEF InTime
<1> QED
  BY <1>2, <1>3

\* The update of some files by themselves.
LEMMA SingleUpdateKeepsUpToDate ==
    ASSUME Types, StatusInv, NEW names \in SUBSET Files, SingleStatus(names),
           UNCHANGED <<events, repository>>, at'["status"] = at["status"],
           answer'["status"] = answer["status"], NEW f \in Files,
           f \in names => answer["window"].of[f] = repository[f],
           f \notin names => InTime(f)
    PROVE  InTime(f)'
<1>1. /\ status' = [g \in Files |-> IF g \notin names THEN status[g]
                                     ELSE FileStatus(answer["window"].of[g])]
      /\ overtaken' = IF slot[0] = None THEN overtaken \ names ELSE overtaken
  BY DEF SingleStatus
<1>2. /\ slot'[1] = slot[1]
      /\ slot[0] = None => slot'[0] = None
      /\ slot[0] # None => /\ slot'[0] # None /\ slot'[0].names = slot[0].names
                           /\ slot'[0].found = slot[0].found
                           /\ slot'[0].late = slot[0].late \cup names
  BY SingleUpdateSlots
<1>3. CASE f \in names
  <2>1. Shown(f)'
    BY <1>1, <1>3 DEF Shown
  <2> QED
    BY <1>2, <1>3, <2>1 DEF InTime
<1>4. CASE f \notin names
  <2>1. (Shown(f)' <=> Shown(f)) /\ (f \in overtaken => f \in overtaken')
    BY <1>1, <1>4 DEF Shown
  <2>2. slot[0] # None => (Fresh(f) => Fresh(f)')
    BY <1>2 DEF Fresh, Answered
  <2>3. InTime(f)
    BY <1>4
  <2> QED
    BY <1>2, <1>4, <2>1, <2>2, <2>3 DEF InTime
<1> QED
  BY <1>3, <1>4

LEMMA UserKeepsUpToDate ==
    ASSUME Types, UpdateInv, User
    PROVE  UpdateInv'
<1>1. ASSUME NEW steps, Starts(steps)
      PROVE  /\ ui = <<>> /\ ui' = steps
             /\ UNCHANGED <<initialized, at, answer, slot, events, repository>>
  BY <1>1 DEF Starts, moduleVars, callVars, statusVars
<1>2. ASSUME NEW steps, Starts(steps), steps # <<>>, EndsIn(steps).step \in Refreshing
      PROVE  UpdateInv'
  <2>1. ui' # <<>> /\ EndsIn(ui').step \in Refreshing
    BY <1>1, <1>2
  <2>2. ASSUME NEW f PROVE Lifted(f)'
    BY <2>1 DEF Lifted, EndsIn
  <2> QED
    BY <2>2 DEF UpdateInv
<1>3. ASSUME NEW steps, Starts(steps), NEW f \in files, initialized, status'[f] = status[f],
             UNCHANGED overtaken
      PROVE  InTime(f)'
  <2>1. ~Lifted(f)
    BY <1>1, <1>3 DEF Lifted
  <2>2. InTime(f)
    BY <1>3, <2>1 DEF UpdateInv
  <2> QED
    BY <1>1, <1>3, <2>2, InTimeStays DEF Answered
<1>4. ASSUME NEW b \in BOOLEAN, NEW names, ChangeSettings(b) \/ SetProject(names, b)
      PROVE  UpdateInv'
  BY <1>2, <1>4, HandlersEnd DEF ChangeSettings, SetProject
<1>5. ASSUME NEW names, CheckOut(names) \/ CheckIn(names) \/ UndoCheckOut(names)
      PROVE  UpdateInv'
  <2>1. ASSUME NEW kind, NEW enabling, OnFiles(kind, names, enabling) PROVE UpdateInv'
    <3> DEFINE steps == <<Step(kind, names)>> \o Do("UpdateAll")
    <3>1. Starts(steps)
      BY <2>1 DEF OnFiles
    <3>2. steps # <<>> /\ EndsIn(steps).step \in Refreshing
      BY HandlersEnd
    <3> HIDE DEF steps
    <3> QED
      BY <1>2, <3>1, <3>2
  <2> QED
    BY <1>5, <2>1 DEF CheckOut, CheckIn, UndoCheckOut
<1>6. CASE Refresh \/ CloseWindow
  BY <1>2, <1>6, HandlersEnd DEF Refresh, CloseWindow
<1>7. ASSUME NEW names, ShowHistory(names) PROVE UpdateInv'
  <2>1. Starts(<<Step("Show", names)>>) /\ UNCHANGED <<files, status, overtaken>>
    BY <1>7 DEF ShowHistory
  <2> QED
    BY <1>1, <1>3, <2>1 DEF UpdateInv
<1>8. ASSUME NEW g, EditReadOnly(g) PROVE UpdateInv'
  <2>1. Starts(<<Step("Query", {g}), Step("Dialog", {g}), Step("CheckOut", {g}),
                 Step("Requery", {g})>>) /\ UNCHANGED <<files, status, overtaken>>
    BY <1>8 DEF EditReadOnly
  <2> QED
    BY <1>1, <1>3, <2>1 DEF UpdateInv
<1>9. ASSUME NEW g \in Files, AddFile(g), ~initialized PROVE UpdateInv'
  BY <1>1, <1>9 DEF AddFile, UpdateInv
<1>11. ASSUME NEW g \in Files, AddFile(g), initialized PROVE UpdateInv'
  <2>1. PICK add \in BOOLEAN : Starts((IF add THEN <<Step("AddFiles", {g})>> ELSE <<>>)
                                      \o <<Step("Requery", {g})>>)
    BY <1>11 DEF AddFile
  <2> DEFINE steps == (IF add THEN <<Step("AddFiles", {g})>> ELSE <<>>) \o <<Step("Requery", {g})>>
  <2>2. /\ steps # <<>> /\ Head(steps).step \in {"AddFiles", "Requery"}
        /\ EndsIn(steps).step = "Requery" /\ EndsIn(steps).names = {g}
    <3>1. CASE add
      BY <3>1, HandlersEnd
    <3>2. CASE ~add
      <4>1. <<>> \o <<Step("Requery", {g})>> = <<Step("Requery", {g})>>
        OBVIOUS
      <4> QED
        BY <3>2, <4>1, HandlersEnd
    <3> QED
      BY <3>1, <3>2
  <2>3. Starts(steps)
    BY <2>1
  <2> HIDE DEF steps
  <2>4. ui' = steps /\ UNCHANGED initialized
    BY <1>1, <2>3
  <2>5. files' = files \cup {g} /\ UNCHANGED <<status, overtaken>>
    BY <1>11 DEF AddFile
  <2>6. Lifted(g)'
    BY <2>2, <2>4 DEF Lifted, Changing
  <2>7. ASSUME NEW f \in files, initialized PROVE InTime(f)'
    BY <1>3, <2>3, <2>5, <2>7
  <2> QED
    BY <2>4, <2>5, <2>6, <2>7 DEF UpdateInv
<1>10. ASSUME NEW g \in Files, RemoveFile(g) PROVE UpdateInv'
  <2>1. /\ Starts(<<>>) /\ files' = files \ {g} /\ UNCHANGED overtaken
        /\ status' = [status EXCEPT ![g] = "None"]
    BY <1>10 DEF RemoveFile
  <2>2. \A f \in files' : f \in files /\ status'[f] = status[f]
    BY <2>1 DEF Types, TypeOK
  <2>3. ASSUME NEW f \in files', initialized PROVE InTime(f)'
    BY <1>3, <2>1, <2>2, <2>3
  <2> QED
    BY <1>1, <2>1, <2>3 DEF UpdateInv
<1> QED
  BY <1>4, <1>5, <1>6, <1>7, <1>8, <1>9, <1>10, <1>11 DEF User

LEMMA StepUpdate ==
    ASSUME PluginFails = FALSE, Types, AliveInv, StatusInv, FormInv, CommandInv, ModuleInv,
           AnswerInv, RequeryInv, UpdateInv, [Next]_vars
    PROVE  UpdateInv'
<1>0. /\ at \in [Clients -> {"idle", "pushed", "waiting", "early", "returned"}]
      /\ answer \in [Clients -> Answers] /\ files \in SUBSET Files
      /\ "window" \in Clients /\ "status" \in Clients /\ "window" # "status"
  BY DEF Types, TypeOK, Clients
(* A step that changes nothing of what the files show. *)
<1>1. ASSUME UNCHANGED <<slot, events, status, overtaken, files, repository>>,
             answer'["status"] = answer["status"], at'["status"] = at["status"],
             NEW f \in files, InTime(f)
      PROVE  InTime(f)'
  BY <1>1, InTimeStays DEF Answered
<1>2. ASSUME UNCHANGED <<slot, events, status, overtaken, files, repository, initialized>>,
             answer'["status"] = answer["status"], at'["status"] = at["status"],
             \A f \in files : initialized /\ Lifted(f) => Lifted(f)' \/ InTime(f)
      PROVE  UpdateInv'
  BY <1>1, <1>2 DEF UpdateInv
<1>3. ASSUME UNCHANGED <<slot, events, status, overtaken, files, repository, ui, initialized>>,
             answer'["status"] = answer["status"], at'["status"] = at["status"]
      PROVE  UpdateInv'
  BY <1>2, <1>3 DEF Lifted
(* A query of the background thread. *)
<1>4. ASSUME UNCHANGED <<slot, events, status, overtaken, files, repository, ui, initialized>>,
             slot[0] # None, answer'["status"] \in QueryAnswers(slot[0].names)
      PROVE  UpdateInv'
  <2> SUFFICES ASSUME NEW f \in files, initialized PROVE Lifted(f)' \/ InTime(f)'
    BY <1>4 DEF UpdateInv
  <2>1. CASE Lifted(f)
    BY <1>4, <2>1, LiftedStays
  <2>2. CASE Closing
    BY <1>4, <2>2, HeadOfHandler DEF Lifted, Closing
  <2>3. CASE ~Closing /\ InTime(f)
    <3>1. plugin = "ready" /\ slot[0].names \in SUBSET Files
      BY <1>4, <2>3, SlotsTyped DEF ModuleInv, StatusThreads
    <3>2. f \in slot[0].names => answer'["status"].of[f] = repository[f]
      BY <1>4, <3>1, ReadyAnswers
    <3> QED
      BY <1>4, <2>3, <3>2, InTimeStays
  <2> QED
    BY <2>1, <2>2, <2>3 DEF UpdateInv
<1>5. ASSUME NEW c \in Clients, Signal(c) PROVE UpdateInv'
  <2>1. /\ UNCHANGED <<slot, events, status, overtaken, files, repository, ui, initialized, answer>>
        /\ Answered("status")' => Answered("status")
    BY <1>0, <1>5 DEF Signal, Answered, windowVars, moduleVars, statusVars
  <2> SUFFICES ASSUME NEW f \in files, initialized PROVE Lifted(f)' \/ InTime(f)'
    BY <2>1 DEF UpdateInv
  <2>2. InTime(f) => InTime(f)'
    BY <2>1, InTimeStays
  <2> QED
    BY <2>1, <2>2 DEF UpdateInv, Lifted
<1>6. CASE EntryQueries
  <2>1. /\ UNCHANGED <<slot, events, status, overtaken, files, repository, ui, initialized>>
        /\ slot[0] # None
    BY <1>6 DEF EntryQueries, StatusRuns, windowVars, moduleVars, statusVars
  <2>2. CASE RunQueryDirectly("status", slot[0].names)
    BY <1>0, <1>4, <2>1, <2>2 DEF RunQueryDirectly
  <2>3. CASE Push("status", "Query", slot[0].names)
    <3>1. ~Answered("status")'
      BY <1>0, <2>3 DEF Push, Answered
    <3> SUFFICES ASSUME NEW f \in files, initialized PROVE Lifted(f)' \/ InTime(f)'
      BY <2>1 DEF UpdateInv
    <3>2. InTime(f) => InTime(f)'
      BY <2>1, <3>1, InTimeStays
    <3> QED
      BY <2>1, <3>2 DEF UpdateInv, Lifted
  <2> QED
    BY <1>6, <2>2, <2>3 DEF EntryQueries, GetFilesStatus
<1>7. CASE EntryReturns
  <2>1. /\ UNCHANGED <<status, overtaken, files, repository, ui, initialized>>
        /\ at'["status"] = "idle" /\ events = 0
    BY <1>0, <1>7 DEF EntryReturns, StatusRuns, StatusInv, windowVars, moduleVars
  <2> SUFFICES ASSUME NEW f \in files, initialized PROVE Lifted(f)' \/ InTime(f)'
    BY <2>1 DEF UpdateInv
  <2>2. Lifted(f) => Lifted(f)'
    BY <2>1 DEF Lifted
  <2>3. Shown(f)' <=> Shown(f)
    BY <2>1 DEF Shown
  <2>4. f \in slot[0].names /\ Fresh(f) => Fresh(f)'
    BY <1>7, <2>1, AnswersToEntry DEF Fresh, Answered
  <2>5. InTime(f) => InTime(f)'
    BY <1>7, <2>1, <2>3, <2>4, AnswersToEntry DEF InTime
  <2> QED
    BY <2>2, <2>5 DEF UpdateInv
<1>8. CASE RunCommand
  <2>1. /\ UNCHANGED <<slot, events, status, overtaken, files, ui, initialized>>
        /\ running # None /\ running.by \in Clients
        /\ running.by = "window" => Head(ui).step = running.kind /\ Head(ui).names = running.names
        /\ running.by = "status" => running.kind = "Query" /\ running.names = slot[0].names
        /\ at[running.by] \in {"pushed", "waiting"}
    BY <1>8, HeldHaveClients DEF RunCommand, Types, CommandInv, IsOfClient, windowVars, statusVars
  <2>2. CASE running.by = "status"
    <3>1. UNCHANGED repository /\ slot[0] # None
      BY <1>8, <2>1, <2>2 DEF RunCommand, RunOnRepository, StatusInv
    <3>2. answer'["status"] \in QueryAnswers(slot[0].names)
      BY <1>0, <1>8, <2>1, <2>2 DEF RunCommand, RunQuery
    <3> QED
      BY <1>4, <2>1, <3>1, <3>2
  <2>3. CASE running.by = "window"
    <3>1. answer'["status"] = answer["status"] /\ at'["status"] = at["status"] /\ ui # <<>>
      BY <1>0, <1>8, <2>1, <2>3 DEF RunCommand, RunInitialize, RunOpenProject, RunQuery,
         RunUninitialize, Complete, CommandInv
    <3> SUFFICES ASSUME NEW f \in files, initialized PROVE Lifted(f)' \/ InTime(f)'
      BY <2>1 DEF UpdateInv
    <3>2. Lifted(f) => Lifted(f)'
      BY <2>1 DEF Lifted
    <3>3. CASE repository'[f] = repository[f]
      <4>1. InTime(f) => InTime(f)'
        BY <2>1, <3>1, <3>3, InTimeStays DEF Answered
      <4> QED
        BY <3>2, <4>1 DEF UpdateInv
    <3>4. CASE repository'[f] # repository[f]
      <4>1. running.kind \in Changing /\ f \in running.names
        BY <1>0, <1>8, <3>4 DEF RunCommand, RunOnRepository, Moved, Changing, Types, TypeOK
      <4>2. Lifted(f)
        BY <2>1, <2>3, <3>1, <4>1, HeadOfHandler DEF FormAt, Lifted, Refreshing
      <4> QED
        BY <3>2, <4>2
    <3> QED
      BY <3>3, <3>4
  <2> QED
    BY <2>1, <2>2, <2>3 DEF Clients
<1>9. CASE LoadPlugin \/ ThreadReady \/ CheckQueue \/ WaitForCommand \/ TakeCommand
  <2>1. UNCHANGED <<slot, events, status, overtaken, files, repository, ui, initialized, at, answer>>
    BY <1>9 DEF LoadPlugin, ThreadReady, CheckQueue, WaitForCommand, TakeCommand, windowVars,
       moduleVars, callVars, statusVars
  <2> QED
    BY <1>3, <2>1
<1>10. CASE Dispatch
  <2>1. /\ UNCHANGED <<slot, events, status, overtaken, files, repository, ui, initialized>>
        /\ answer'["status"] = answer["status"] /\ at'["status"] = at["status"]
    BY <1>0, <1>10 DEF Dispatch, GetFilesStatus, Push, RunQueryDirectly, windowVars, moduleVars,
       statusVars
  <2> QED
    BY <1>3, <2>1
(* The window goes on to another step, or gives the rest of its handler up. *)
<1>11. ASSUME ui # <<>>, ui' = Tail(ui), Head(ui).step \notin Refreshing \cup {"Requery"},
              UNCHANGED <<slot, events, status, overtaken, files, repository, initialized>>,
              answer'["status"] = answer["status"], at'["status"] = at["status"]
       PROVE  UpdateInv'
  BY <1>2, <1>11, LiftedStays
<1>12. ASSUME ui' = Do("Shutdown"),
              UNCHANGED <<slot, events, status, overtaken, files, repository, initialized>>
       PROVE  UpdateInv'
  BY <1>12, HandlersEnd DEF UpdateInv, Lifted
<1>13. ASSUME ui # <<>>, ui' = <<>>, Head(ui).step \in {"Query", "Dialog"},
              UNCHANGED <<slot, events, status, overtaken, files, repository, initialized>>,
              answer'["status"] = answer["status"], at'["status"] = at["status"]
       PROVE  UpdateInv'
  <2>1. EndsIn(ui).step = "Requery"
    BY <1>13, HeadOfHandler DEF FormAt
  <2>2. \A f \in files : ~Lifted(f)
    BY <1>13, <2>1 DEF Lifted, Refreshing, Changing
  <2> QED
    BY <1>2, <1>13, <2>2
<1>14. CASE DispatchReturned
  <2>1. /\ UNCHANGED <<events, files, repository>> /\ ui # <<>> /\ at["window"] = "returned"
        /\ answer'["status"] = answer["status"] /\ at'["status"] = at["status"]
        /\ Head(ui).step \in CommandKinds
    BY <1>0, <1>14 DEF DispatchReturned, CommandInv
  <2>2. Head(ui).step \notin Refreshing
    BY <2>1 DEF CommandKinds, Refreshing
  <2>3. CASE Head(ui).step = "Initialize"
    <3>1. /\ UNCHANGED <<slot, status, overtaken>>
          /\ initialized' => ui' = Tail(ui)
      BY <1>14, <2>3 DEF DispatchReturned, InitializeReturns
    <3>2. EndsIn(ui).step \in Refreshing
      BY <2>1, <2>3, HeadOfHandler DEF FormAt
    <3>3. initialized' => \A f \in files : Lifted(f)'
      BY <2>1, <2>2, <2>3, <3>1, <3>2, HeadOfHandler DEF Lifted
    <3> QED
      BY <2>1, <3>3 DEF UpdateInv
  <2>4. CASE Head(ui).step = "Requery"
    <3> DEFINE names == Head(ui).names
    <3>1. SingleStatus(names) /\ UNCHANGED initialized /\ names \in SUBSET Files
      BY <1>14, <2>1, <2>4, TailOfSteps DEF DispatchReturned, RequeryReturns
    <3> SUFFICES ASSUME NEW f \in files, initialized PROVE InTime(f)'
      BY <2>1, <3>1 DEF UpdateInv
    <3>2. f \in names => answer["window"].of[f] = repository[f]
      BY <2>1, <2>4 DEF RequeryInv, At, Answered
    <3>3. f \notin names => InTime(f)
      <4>1. EndsIn(ui) = Head(ui)
        BY <2>1, <2>4, HeadOfHandler
      <4>2. f \notin names => ~Lifted(f)
        BY <2>4, <4>1 DEF Lifted, Refreshing
      <4> QED
        BY <4>2 DEF UpdateInv
    <3> HIDE DEF names
    <3> QED
      BY <1>0, <2>1, <3>1, <3>2, <3>3, SingleUpdateKeepsUpToDate
  <2>5. CASE Head(ui).step \notin {"Initialize", "Requery"}
    <3>1. /\ UNCHANGED <<initialized, status, slot, overtaken>>
          /\ \/ ui' = Tail(ui)
             \/ ui' = Do("Shutdown")
             \/ ui' = <<>> /\ Head(ui).step = "Query"
      BY <1>14, <2>5 DEF DispatchReturned, OpenProjectReturns, CloseProjectReturns, QueryReturns,
         Next1
    <3> QED
      BY <1>11, <1>12, <1>13, <2>1, <2>2, <2>5, <3>1
  <2> QED
    BY <2>3, <2>4, <2>5
<1>15. CASE ShutdownBegins
  <2>1. ui' # <<>> /\ EndsIn(ui').step \in Refreshing
    BY <1>15, ShutdownBeginsWith, ShutdownKeepsForm
  <2> QED
    BY <2>1 DEF UpdateInv, Lifted
<1>16. CASE ShutdownStops
  <2>1. /\ UNCHANGED <<slot, events, status, overtaken, files, repository, initialized, answer, at>>
        /\ ui # <<>> /\ ui' = Tail(ui) /\ Head(ui).step = "Stop"
    BY <1>16 DEF ShutdownStops, At, Next1, statusVars
  <2> QED
    BY <1>11, <2>1 DEF Refreshing
<1>17. CASE ShutdownEnds
  BY <1>17 DEF ShutdownEnds, UpdateInv
<1>18. CASE CreateCommandThread
  <2>1. /\ UNCHANGED <<slot, events, status, overtaken, files, repository, initialized, answer, at>>
        /\ ui # <<>> /\ ui' = Tail(ui) /\ Head(ui).step = "CreateThread"
    BY <1>18 DEF CreateCommandThread, At, Next1, statusVars
  <2> QED
    BY <1>11, <2>1 DEF Refreshing
<1>19. CASE WaitForThread
  <2>1. /\ UNCHANGED <<slot, events, status, overtaken, files, repository, initialized, answer, at>>
        /\ ui # <<>> /\ Head(ui).step = "WaitForThread"
        /\ ui' = Tail(ui) \/ ui' = Do("Shutdown")
    BY <1>19 DEF WaitForThread, At, Next1, moduleVars, callVars, statusVars
  <2> QED
    BY <1>11, <1>12, <2>1 DEF Refreshing
<1>20. CASE UpdateProjectFileStatus
  <2>1. /\ UNCHANGED <<status, overtaken, files, repository, initialized, at, events>>
        /\ initialized => slot' = AskAgain
    BY <1>20 DEF UpdateProjectFileStatus, moduleVars, callVars
  <2> SUFFICES ASSUME NEW f \in files, initialized PROVE InTime(f)'
    BY <2>1 DEF UpdateInv
  <2>2. CASE slot[0] = None
    <3>1. events = 0 /\ at["status"] = "idle"
      BY <2>2 DEF StatusInv, Types, TypeOK
    <3>2. Fresh(f)'
      BY <2>1, <3>1 DEF Fresh, Answered
    <3> QED
      BY <2>1, <2>2, <3>2, AskAgainSlots DEF InTime
  <2>3. CASE slot[0] # None
    BY <2>1, <2>3, AskAgainSlots DEF InTime
  <2> QED
    BY <2>2, <2>3
<1>21. CASE OnThreadExit
  <2>1. UNCHANGED <<ui, files, initialized>>
    BY <1>21 DEF OnThreadExit, moduleVars
  <2> SUFFICES ASSUME NEW f \in files, initialized PROVE Lifted(f)' \/ InTime(f)'
    BY <2>1 DEF UpdateInv
  <2>2. InTime(f) => InTime(f)'
    BY <1>21, ExitKeepsUpToDate
  <2> QED
    BY <2>1, <2>2 DEF UpdateInv, Lifted
<1>22. CASE WaitForStatusThread
  <2>1. UNCHANGED <<files, initialized>> /\ ui # <<>> /\ ui' = Tail(ui)
        /\ Head(ui).step = "WaitForStatus"
    BY <1>22 DEF WaitForStatusThread, At, Next1, moduleVars
  <2>2. EndsIn(ui).step \in Refreshing
    BY <2>1, HeadOfHandler DEF FormAt
  <2>3. ui' # <<>> /\ EndsIn(ui') = EndsIn(ui)
    BY <2>1, <2>2, HeadOfHandler DEF Refreshing
  <2> QED
    BY <2>2, <2>3 DEF UpdateInv, Lifted
<1>23. CASE AnswerDialog
  <2>1. /\ UNCHANGED <<slot, events, status, overtaken, files, repository, initialized, answer, at>>
        /\ ui # <<>> /\ Head(ui).step = "Dialog" /\ (ui' = Tail(ui) \/ ui' = <<>>)
    BY <1>23 DEF AnswerDialog, At, Next1, moduleVars, callVars, statusVars
  <2> QED
    BY <1>11, <1>13, <2>1 DEF Refreshing
<1>24. CASE UNCHANGED vars
  <2>1. UNCHANGED <<slot, events, status, overtaken, files, repository, ui, initialized, at, answer>>
    BY <1>24 DEF vars, windowVars, moduleVars, callVars, statusVars
  <2> QED
    BY <1>3, <2>1
<1> QED
  BY <1>0, <1>5, <1>6, <1>7, <1>8, <1>9, <1>10, <1>14, <1>15, <1>16, <1>17, <1>18, <1>19, <1>20,
     <1>21, <1>22, <1>23, <1>24, UserKeepsUpToDate
  DEF Next, WindowWork, CommandThread, StatusThread

-----------------------------------------------------------------------------

QuietInvs == /\ Types /\ AliveInv /\ StatusInv /\ FormInv /\ CommandInv /\ ModuleInv
             /\ AnswerInv /\ RequeryInv /\ UpdateInv

LEMMA InitQuiet == Init => QuietInvs
<1> SUFFICES ASSUME Init PROVE QuietInvs
  OBVIOUS
<1>1. /\ ui = <<>> /\ queue = <<>> /\ running = None /\ at = [c \in Clients |-> "idle"]
      /\ plugin = "none" /\ thread = "none" /\ initialized = FALSE /\ events = 0
      /\ slot = [i \in 0 .. 1 |-> None]
  BY DEF Init
<1>2. at["window"] = "idle" /\ at["status"] = "idle" /\ slot[0] = None /\ slot[1] = None
  BY <1>1 DEF Clients
<1>3. Types
  BY InitTypes
<1>4. AliveInv /\ StatusInv
  BY <1>1, <1>2 DEF AliveInv, StatusInv
<1>5. FormInv
  BY <1>1, OneStepForm DEF FormInv
<1>6. CommandInv /\ ModuleInv /\ AnswerInv /\ RequeryInv /\ UpdateInv
  BY <1>1, <1>2 DEF CommandInv, ModuleInv, AnswerInv, RequeryInv, UpdateInv, At, Answered
<1> QED
  BY <1>3, <1>4, <1>5, <1>6 DEF QuietInvs

LEMMA QuietIsCurrent == QuietInvs => QuietStatusIsCurrent
<1> SUFFICES ASSUME QuietInvs, ui = <<>>, slot[0] = None, initialized, NEW f \in files \ overtaken
             PROVE  status[f] = FileStatus(repository[f])
  BY DEF QuietStatusIsCurrent
<1>1. slot[1] = None
  BY DEF QuietInvs, StatusInv
<1>2. InTime(f)
  BY DEF QuietInvs, UpdateInv, Lifted
<1> QED
  BY <1>1, <1>2 DEF InTime, Shown

\* If plug-ins answer their queries, whatever refreshes, check-outs, changes of the provider
\* and answers have met, the statuses that are left are those of the repository, but where
\* the answer of a thread that ran while a file was updated by itself came after.
THEOREM QuietStatuses ==
    ASSUME PluginFails = FALSE
    PROVE  Spec => []QuietStatusIsCurrent
<1>1. QuietInvs /\ [Next]_vars => QuietInvs'
  BY StepTypes, StepAlive, StepStatus, StepForm, StepCommand, StepModule, StepAnswer,
     StepRequery, StepUpdate
  DEF QuietInvs
<1> QED
  BY <1>1, InitQuiet, QuietIsCurrent, PTL DEF Spec

=============================================================================
