# A TLA+ model of the Decoda debugger

Decoda is an IDE that debugs Lua scripts inside a running Windows program. It
injects a DLL into the program; the DLL intercepts the program's calls to Lua and
talks to the IDE over two named pipes. This directory models that conversation:
the threads on both sides, the locks and events they wait for, the messages in
the pipes, and what becomes of breakpoints, stops and steps when all of it
interleaves. Around it stand the parts of the IDE that run on threads or processes of
their own: the parser of the project's symbols, source control, the watching of the
selected file, and the processes that hand a file to a running IDE. The last part is
the edited file: its breakpoints, markers and lines while a program runs an older
version of it. TLC checks small instances; TLAPS proves every safety property of the passing
runs for every size, some of a session under conditions that section 4 names.

Paths below are relative to the repository's `src/src`.

## 1. The system

### Components

| component | where | state it keeps | operations | modelled in |
|---|---|---|---|---|
| Pipe protocol | `Shared/Channel.cpp`, `Shared/Protocol.h` | two pipes of messages, open or closed at each end | write, read, flush, destroy | `Protocol` |
| Locks | `Shared/CriticalSection*.cpp` | owner of `m_criticalSection`, of `m_breakLock` | enter, try, leave | `DebugBackend` |
| Backend: program threads | `LuaInject/DebugBackend.cpp` | tables of VMs and scripts, breakpoints, ignored errors, mode, hooks, three Windows events | attach and detach a state, load, hook (call, return, line), break, error | `DebugBackend` |
| Backend: command thread | `LuaInject/DebugBackend.cpp:1043-1183` | the command being executed | Continue, StepOver, StepInto, Break, ToggleBreakpoint, DeleteAllBreakpoints, LoadDone, IgnoreException, Evaluate, Detach, cleanup | `DebugBackend` |
| Interception of Lua | `LuaInject/LuaDll.cpp` | the hook installed in each `lua_State` | hook modes, `lua_load`, `lua_newthread`, `lua_close` | the guards and effects of `DebugBackend`'s thread actions |
| Frontend: event thread | `Frontend/DebugFrontend.cpp:497-646` | `m_state`, `m_scripts` | read an event, queue it for the UI, end the session | `DebugFrontend` |
| Frontend: UI thread | `Frontend/MainFrame.cpp`, `Frontend/DebugFrontend.cpp` | queued events, selected VM, list of VMs, open dialog | handle an event, the Debug menu, Stop and Detach | `DebugFrontend` |
| Project breakpoints | `Frontend/Project.cpp` | the script and the breakpoints of each file | set, toggle, delete all, clean up after a session | `DebugFrontend` |
| Symbol parsing | `Frontend/SymbolParserThread.cpp`, `Frontend/SymbolParser.cpp` | queue, item being parsed, two locks, a semaphore, pending events | queue a file, parse, deliver, stop | `SymbolParsing` |
| Source control | `Frontend/SourceControl.cpp`, `Frontend/FileStatusThread.cpp`, `Frontend/MainFrame.cpp` | command queue, two events, provider, two status threads, the status of each file | open and close a project, check out, in, add, show, query, refresh, shut down | `SourceControl` |
| Line mapping | `Frontend/LineMapper.cpp` | two tables of lines | update, look up either way | `LineMapper` |
| Edited file | `Frontend/MainFrame.cpp`, `Frontend/CodeEdit.cpp` | text, markers, breakpoints, mapping, the file on the disk | insert, cut, save, reload, toggle, load a script, answer | `EditedFile` |
| Open files | `Frontend/MainFrame.cpp` | open files, selected page, tab order | open, select, page through, close, delete | `OpenFiles` |
| File watching | `Frontend/FileChangeWatcher.cpp` | file name, attributes, directory handle, end event | watch another file, notice a change, end | `OpenFiles` |
| Single instance | `Frontend/SingleInstance.cpp`, `Frontend/MainApp.cpp` | mapping, mutex, window handle, command | connect, hand over a file, open it | `Window` |
| Project files | `Frontend/Project.cpp`, `Frontend/MainFrame.cpp` | files with ids, scripts and symbols; what the explorer and the completions show | open a project, add, remove, save, match a script, end of a session | `SymbolParsing` |

`PROJECT.json` lists every component, with those that are not modelled and why;
section 7 says what comes next.

### How the two halves interact

1. A program thread that loads a script, or reaches the hook in a script the
   backend has not seen, registers the script and sends **LoadScript**. It then
   waits for `m_loadEvent`.
2. The event thread gives the script its number (the order of arrival) and queues
   the event. The UI thread finds the project file, sends a **ToggleBreakpoint**
   for each breakpoint of that file and then **LoadDone**, which sets
   `m_loadEvent`. For each toggle the backend answers **SetBreakpoint**.
3. A thread that reaches a breakpoint, or the end of a step, takes `m_breakLock`,
   sends **Break** (under `m_criticalSection`) and waits for `m_stepEvent`,
   keeping `m_breakLock`, so that a second thread cannot report a stop.
4. The event thread sets `m_state` to Broken as soon as it reads Break. The UI
   handles the event later; it may evaluate watches, which blocks the UI until
   the command thread has answered.
5. **Continue** and the steps set the mode and `m_stepEvent`.
6. **Detach** removes the hooks, sets `m_detachEvent`, on which every wait ends,
   and the frontend destroys its ends of the pipes.

The IDE also parses the Lua files of the project, whether or not it debugs: the UI
thread pushes a file's text and posts a semaphore; the parser thread takes the text,
parses it and posts an event to `SymbolParser`, which stores the symbols in the
file with that id, if there still is one, and posts the event again to `MainFrame`,
which updates the tree and the completions. Between any two of these steps the
window may remove the file or open another project.

Source control providers want their calls from one thread: the window, or a thread that
asks for the status of all files, puts a command into a queue, sets an event and waits
until the command thread has run it. A status thread posts an event when it is through;
the window then stores its answers and starts the one that queued up behind it. Another
thread waits for changes in the directory of the selected file and posts an event, and a
process that Explorer starts with a file stores the name in shared memory, posts a
message to the window it found there and ends.

A script the program has loaded may differ from the file in the editor. `LineMapper`
relates their lines; every breakpoint goes through it to the backend, and each answer
through it back, after the editor has said whether the text changed.

### What makes it hard

*Interleaving*: the program's threads, the command thread, the event thread and
the UI thread all run at once; Break, Evaluate and the cleanup take no lock.
*Ordering*: scripts are named by their position in two tables that are built
independently. *Shared signals*: one auto-reset event serves all threads.
*Staleness*: the state the UI acts on is changed by another thread; a VM found
before a wait is used after it. *Crashes*: either process may end at any moment.
*Blocking*: the UI waits for answers, for a pipe to drain, for the event thread, for
the parser thread, for the command thread of source control, for the watching thread.
*Two copies*: breakpoints are kept in the project, as markers in the editor and in the
backend, in two numberings of the lines; statuses in the repository, in an answer under
way and in the project.
The full list, each at its line, is under "hazards" in `PROJECT.json`.

### What makes each component correct

* locks: held exactly in their code regions (`LocksMatchPlaces`);
* stops: one at a time, reported before they end (`OneThreadStopped`,
  `StopsAreReported`), a step misses no line (`SteppingSeesEveryLine`), no step
  event is left behind to swallow a later stop (`StepEventHasTaker`);
* script tables: equal up to what is in the pipe (`ScriptTablesAgree`,
  `BreakNamesKnownScript`, `FileHasNoScriptYet`);
* breakpoints: both sides agree once messages have arrived (`BreakpointsAgree`),
  and a new script does not run before its breakpoints are set
  (`BreakpointsBeforeFirstLine`);
* frontend state: Broken exactly while a thread waits (`StateAgrees`), the list
  of VMs is the backend's (`VmListAgrees`);
* progress: waits end (`LoadWaitEnds`, `ResumeReleases`, `DetachReleases`), the
  UI never hangs (`UiComesBack`), closing ends the session (`SessionEnds`);
* symbol parsing: no wake-up is lost (`NoLostWakeup`), what is queued is parsed
  (`QueuedIsParsed`), symbols reach the file they were parsed from
  (`SymbolsBelongToTheFile`), the tree follows (`TreeFollowsTheFiles`), the locks
  never block for good (`QueueingEnds`), Stop ends and is final (`StopEnds`,
  `NoEventAfterStop`);
* source control: commands live while they are held (`CommandsAreAlive`), status
  threads take turns (`ExitEventIsOfFirstThread`, `NamesFixedOnceStarted`), the project
  ends up with what the repository says (`QuietStatusIsCurrent`), refreshes end
  (`RefreshEnds`), and so should calls (`DispatchReturns`, which fails);
* the edited file: lookups use the mapping of the texts at hand (`MappingIsCurrent`),
  which is a longest one (`MappingIsLongest`); markers, list and backend agree
  (`MarkersMatchBreakpoints`, `BackendHasListedLines`); a breakpoint stays with its line
  (`BreakpointsFollowTheirLines`);
* the window: the tab order is the order of use (`TabOrderIsRecency`), the editor is
  read-only when its file is (`StatusIsCurrent`), the watching thread ends
  (`EndThreadReturns`), a file handed over is opened (`FilesAreOpened`).

## 2. The modules

| module | what it is |
|---|---|
| `Protocol` | constants, pipes, events and commands that both halves share |
| `StopProtocol` | abstract: what the backend promises about stopping |
| `DebugBackend` | the injected DLL: program threads and command thread; closed by an arbitrary frontend (`Frontend`) as a specification of its own, `Spec` |
| `DebugFrontend` | the IDE: event thread, UI thread, user |
| `Session` | both composed over the pipes; session properties and fairness |
| `MCSession` | model values and symmetry for TLC |
| `SymbolParsing` | the parser thread, the window's handlers that queue files, the views |
| `MCSymbolParsing` | projects and disks for TLC |
| `SourceControl` | the command thread, the status threads and the window's handlers that use them; the plug-in is external |
| `LineMapper` | the algorithm, and `IsLongest`, what its result has to be |
| `EditedFile` | a file in the editor, its breakpoints, the disk, a program that loads it |
| `MCEditedFile` | texts for TLC |
| `OpenFiles` | pages, tab order, the selected file and the thread that watches it |
| `Window` | `OpenFiles` composed with the processes that hand files to the window |
| `MCWindow` | files, directories and processes for TLC |
| `DebugBackendProofs` | locks, exclusive stops, refinement of `StopProtocol`, type correctness |
| `SessionProofs` | a session implements the backend's specification; steps, stops and step events |
| `SessionTablesProofs` | scripts, virtual machines and breakpoints agree; a script waits for its breakpoints |
| `SymbolParsingProofs` | types, wake-ups, silence after Stop, symbols of the right file, the tree follows |
| `SourceControlProofs` | types, commands, status threads, statuses that are those of the repository when all is quiet |
| `LineMapperProofs` | the mapper finds a longest common subsequence, for every two texts |
| `EditedFileProofs` | types, a current and longest mapping, markers and list, edits, list and backend |
| `WindowProofs` | types, no file is lost, tab order, the editor follows its file |

`DebugBackend` does not know `DebugFrontend`: its specification `Spec` lets the
environment append any well-typed commands, read events and close pipes. That the real
frontend is such an environment (`BackendUnderSession`) is checked by the run `two_scripts` and
proved for every instance by `SessionImplementsBackend`, so that what is proved of `Spec`
holds in every session.

### State and code

A `lua_State` is identified with the thread that runs it. `pc[t]` says where a
thread is in the backend: `hook`, `attached`, `setHook` in `HookCallback`;
`regWait`, `regLock` in `RegisterScript` called from the hook; `load...` in
`PostLoadScript`; `break`, `send`, `step` in `BreakFromScript`; `err...` in
`ErrorHandler`. `ev[t]` is the hook event or load it handles. `vms` stands for
`m_vms`/`m_stateToVm`; `haveActiveBreakpoints`, `breakpointInStack`, `callCount`
are fields of a VM; `hookMode[t]` is the hook Lua has installed. `cs` and
`breakLock` are the holders of the two locks, `stepEvent`, `loadEvent`,
`detachEvent` the Windows events (the first two auto-reset).

*Granularity.* A region that holds `m_criticalSection` from entry to exit, and
whose state nobody touches without that lock, is one action. The command thread's
Break, Evaluate and cleanup run without the lock, and the places where they can
come between two steps of a Lua thread are separate actions: `UpdateHookMode`
chooses the hook and `SetHookMode` installs it; `Break` sets the mode and
`BreakHooks` the hooks. A try-lock is a test in the same step.

*Frontend.* `state` is `m_state`, `pending` the wx event queue, `ui` what the UI
thread is blocked in, `dialog` the stack of open modal dialogs: exception dialogs and the
message boxes of load errors (events are handled while one is open and may open another
over it; menus are not). Continue is two actions because the state is
changed before the command is written.

*Symbol parsing.* `worker` is the line of `Entry` the thread is at; a lock that is
taken and released with nothing between but reads of what it guards is a test in
one step. `window` is where the UI thread is: `queue` and `signal` in
`QueueForParsing`, `stop`, `exit`, `join` in `Stop`, `idle` between handlers.
`toQueue` holds the files that `SymbolParser::SetProject` still has to queue.
`parsed` and `forwarded` are the pending events of `SymbolParser` and of `MainFrame`.
`tree[f]` is what the explorer's items of file `f` point to.

*Source control.* `ui` is the list of steps the running handler of the window has still
to make; a step that dispatches a command waits in `at["window"]`, and so does a status
thread in `at["status"]`: `pushed` before its SetEvent, `waiting` after it, `early` when
the command was completed before, `returned` when it may go on. `thread` is the place in
`CommandThread`, `available` the auto-reset event it waits for, `slot` is
`m_fileStatusThread`. The repository is what the provider would answer; other programs do
not change it, so that a file another user has checked out stays his. `None` in an answer
is `Status_Error`.

*Edited file.* A text is the sequence of its lines as Scintilla counts them. `markers` is
how many breakpoint markers each line carries, `breakpoints` the vector of the project's
file, `dirty` is `m_lineMappingDirty`. Scintilla's treatment of markers is external
and modelled from its use: a deletion adds the markers of the lines that become one, an
insertion at the start of a line leaves them, which `CodeEdit::OnModified` puts right,
and replacing the whole text drops them. The backend is what the
session's model has of it: breakpoints that are toggled and answered in order.

*Window.* `at[p]` is the place of a process in `MainApp::OnInit` and
`SingleInstance::Connect`, one step for each access to what the processes share; `ui` is
the place in `OnNotebookPageChanged` and `FileChangeWatcher::SetFile`, `watcher` the one
in `ThreadProc`. Reading the attributes, storing and comparing them are steps of their
own, as neither side takes a lock.

*Histories.* Some properties hold except after something the code is known to get
wrong. A history variable records exactly that something, so that the property still
says what happens otherwise: `overtaken` in `SourceControl`, `stale`, `merged`, `apart`
in `EditedFile`, `missed` in `OpenFiles`, `overwritten` in `Window`. Section 5 names the
behaviour behind each; no guard reads them.

### Abstractions

* Payloads: the text of a script is the script, a call stack is the script of its
  top frame, an error message is a member of a small set.
* Scripts are numbered from 1; 0 stands for the code's -1.
* Which functions are on the Lua stack is left open: a function, or the stack,
  may have a breakpoint only if a registered script has one.
* In a `Session` a project file carries the name of its script, and its text is
  unchanged, so lines need no mapping; `EditedFile` has the mapping, with one file and
  one program.
* What `CleanWhiteSpace` leaves of a line is a function on lines, `Cleaned`; a read
  before the first line finds no equal line.
* `Channel::Destroy` flushes: `StopFlush` waits until all commands are read.
* An event is written in one step, also where the code writes its words without
  `m_criticalSection` (*Events written without the lock*, section 5).
* `DeleteAllBreakpoints` empties the scripts and then resets the VMs, one by one and without
  the lock (`DebugBackend.cpp:1353-1362`); here that is one step.
* Only the event pipe is bounded. The wait of the UI thread on a full command pipe
  (`Channel.cpp:145-163`) is left out: `Send` always succeeds while the pipe is open.
* Adding several existing files to a project is one operation for each of them.
* Left out: LuaJIT's workaround, `NameVM`, failure of `lua_checkstack`, aliases
  and title matching of script names, native frames.
* Undefined behaviour (a VM used after it was deleted) is a choice between going
  on and crashing; a crash of one thread ends the process.
* The symbols of a text are the text; a text is a path and a version. Files opened by
  "Save As" are left out.
* What another program does to a file, its text (`OtherWrites`) or its attribute
  (`AttributeChanges`), is one step, and only the attributes a change of which the thread
  asks for are modelled.

## 3. The runs

The runs of a session use `MCSession` and set `CHECK_DEADLOCK FALSE`: a session
really ends, and then nothing happens any more. `symbols` uses `MCSymbolParsing`; there
deadlock is checked, and only the closed window may stop. `source_control` and
`lost_command` run `SourceControl` itself, `edited_file` uses `MCEditedFile`, `window`
`MCWindow`; these stop when the user's operations are used up.

| run | instance | shows |
|---|---|---|
| `one_thread` | 1 thread, 1 script, 2 lines, all hook events, Continue/Step/Toggle | both sides agree on breakpoints, state and VMs; no step event is left over; `callCount` never goes negative |
| `two_scripts` | 1 thread, 2 scripts (one does not compile), errors, watches, all menu commands except Toggle, crash of the IDE | script tables agree, a script waits for its breakpoints, the frontend is an environment of `Spec` |
| `two_threads` | 2 symmetric threads, errors, call and line events, StepInto | locks, exclusive stops, refinement of `StopProtocol`, a step sees every line |
| `liveness` | 1 thread, watches, Continue/Detach/Stop, fairness | the five progress properties |
| `load_error_deadlock`, `watch_error_deadlock`, `detach_crash` | the smallest instance with the case | violations, section 5 |
| `symbols` | 2 paths, one of them no Lua file and not on disk, 2 projects, 2 file ids, 2 versions; every handler; fairness | no lost wake-up, symbols of the right file, the tree follows, queueing and Stop end, silence after Stop |
| `source_control` | 1 file, providers that do and do not answer queries from any thread, 3 operations of the user, every handler; fairness | commands are alive, status threads take turns, the project shows what the repository says once all is quiet, refreshes end |
| `lost_command` | 1 provider, the project opened once; fairness | violation, section 5 |
| `edited_file` | texts of up to 4 lines, 2 edits or foreign writes, 2 toggles, 2 sessions | the mapping is current and longest, markers, list and backend agree, breakpoints follow their lines |
| `window` | 3 processes, 2 of them with a file; 3 files in 2 directories, one read-only; 3 operations, 1 change of an attribute; fairness | tab order, read-only state, no file lost, the watching thread ends |

*Bounds.* `MaxUserActions` and `MaxProgramActions` (states opened, errors raised)
bound how much happens, `MaxCalls` the depth of calls while stepping, `EventCap`
the pipe. Two threads suffice for every race between program threads, as each
property relates at most two of them; two scripts suffice to tell indices apart;
two lines to tell a stop from the next. `EventCap = 2` makes writers wait for a
full pipe. One or two user actions reach every command in every state of the
backend, and the dialog and the answer to LoadScript add commands beyond them.
`UserMay`, `Errors`, `HookEvents` and `FailingScripts` choose which causes occur,
and section 5 names the combinations under which a property does not hold.

*Bounds of `symbols`.* Two file ids let a file go and another one come (or another
project be opened) while a result of the first is under way; two versions let a file
be saved while its older text is queued; a file is saved while at most `MaxQueue - 1`
items wait, and files added without saving queue more, so that the thread can be
behind by several texts and the count of 1 stands for more than one item. A third id or version adds only more of the same pending events:
every property relates one file to one item or event. `QueuedIsParsed` rests on the bounded
number of pushes: the queue is taken from its end, so that an item would stay for as long as
files are pushed faster than they are parsed.

*Bounds of `source_control`.* Three operations put a status thread into each slot and a
third operation in front of them, or change the provider under a refresh. With one file
every order of its answers occurs; the statuses of two files are never related. A command on two
files that succeeds for one of them is not in this run; with two files and two
operations its properties hold too (1,814,087 states), and `QuietStatuses` is about any number
of files. `RefreshEnds` excuses a client whose command nobody runs; `lost_command` shows that case.
`Capabilities` has both kinds of provider; `PluginFails` is FALSE, as a failed
query answers with whatever its buffer held (section 5). *Of `edited_file`.*
Four lines hold a kept line between two changed ones; two contents that come out equal when
cleaned, an empty last line, lines that occur twice, and a paste and a cut of several lines are
among them. Two sessions meet a mapping made from the disk while the editor holds
another text. *Of `window`.* Two senders meet in every place of their start;
with the files they bring, three operations close a page in the middle of paging. The two directories make
the thread end and start again while a file in the first one changes. `NobodyStarts`
keeps the user and other programs from acting in the middle of a process's start, not while its message
waits. A change that is made and taken back takes more than one: without senders, who touch nothing
that the watching thread uses, the properties hold with three changes too (442,518 states).

*Type invariants.* `TypeOK` of `DebugBackend` is checked in `one_thread` and proved.
`FrontendTypeOK` and those of `SymbolParsing`, `SourceControl`, `EditedFile` and `Window` are
proved, and the runs leave them out.

*Fairness.* Every thread in the backend's code, and the command thread, is
strongly fair: they are scheduled by Windows and enter critical sections, which
let a waiting thread in. The event thread and the UI thread are weakly fair, and
a modal dialog is closed at some time. Nothing is assumed of the program (it need
not call Lua again) or of the user. In `SymbolParsing` the parser thread is weakly fair,
and so are the window's steps inside a handler (`Queueing`, `Stopping`); that the
window handles its next event, or that the user does anything, is not assumed.
In `SourceControl` both kinds of threads and the window's own work are weakly fair, its
event loop included, but no operation of the user and no answer to a dialog is assumed. In
`Window` the handler of a changed page and the watching thread are.

## 4. The proofs

Everything here holds for every value of the constants that meets the modules'
assumptions (`ProtocolAssumption`, `BackendAssumption`, `FrontendAssumption`, which asks for
a finite set of lines; `ParsingAssumption`,
`SourceControlAssumption` and their `NoneIsNoValue`; `ContentsAssumption`, `TextAssumption`,
`BoundAssumption`, and `LinesAssumption`: the texts have fewer lines than the number that stands
for no line, as `LineMapper.h:82-83` takes for granted; `OpenFilesAssumption`, `WindowAssumption`).

* `LocksCorrect`: `Spec => []LocksMatchPlaces`. The invariant `LockInv` adds that
  every `pc` is a known place and that the command thread's place is a known one:
  without it a step could leave a place that no region accounts for.
* `OneStopped`: `Spec => []OneThreadStopped`, a consequence of `LockInv`: two
  stopped threads would both hold `m_breakLock`.
* `BackendImplementsStops`: `Spec => StopsAreReported`. `stopped` is the holder of
  `m_breakLock`, `reported` is that its place lies after the sending of Break,
  `permission` is `m_stepEvent`. Each action of a thread and of the command
  thread maps to one abstract step or a stutter, by `LockInv`.
* `TypeCorrect`: `Spec => []TypeOK`. The invariant `TypeInv` adds `EventsOK`: a
  line or load event carries a real script and the command thread evaluates on a
  real state, which is what makes the messages they write well typed.

The next theorems are about a `Session`. All use `SessionInv`, proved once
(`SessionInvariant`): the types of both halves, `LockInv`, that a queued LoadScript has an
index of the frontend's table and nothing follows the end of a session (`PendingOK`), and
that a thread past the entry of the backend works on a state that is known (`PlacesInv`).
*On the way* means in the pipe or in the queue of the UI thread.

* `FrontendTypes`: `SessionSpec => []FrontendTypeOK`.
* `SessionImplementsBackend`: `SessionSpec => BackendUnderSession`. Each command that a handler
  sends names a script, line or state the backend may be told of; for Evaluate and toggles
  that rests on the frontend's types, for the rest on what each handler writes.
* `StepsSeeLines`: `"Break" \notin UserMay` implies `SessionSpec => []SteppingSeesEveryLine`.
  `StepInv`: while the mode is not Continue, a thread that is about to install a hook installs
  the full one, and every state but the one a watch is evaluated in has it. Break takes no
  lock, and with it the property is false (*Break race*, section 5).
* `StateOfStop`, `StepEventTaken`: `SessionSpec => []StateAgrees` and
  `SessionSpec => []StepEventHasTaker`, without Lua errors and, where scripts fail to compile,
  with one thread. `TokenInv`: a waiting thread has exactly one token, and without such a thread
  there is none. The token is the Break event in the pipe, then the state Broken, then
  the UI thread in Continue, then its command, then the step event. With errors
  the dialog resumes a stop it was not opened for (*Stale exception dialog*), and two
  threads may wait after load errors (*Load error lets go of its locks*): then two tokens exist.
* `ScriptTables`, `BreakNames`: `NamesInv`. As long as the backend can tell anything, its table is
  the frontend's followed by the scripts announced in the pipe, in that order, no script
  occurs twice, and a Break stands behind the announcement of the script it names. It
  depends on `RegisterScript` appending to the table and writing the event under one hold of the lock.
* `FilesFree`: `FilesInv`. A file has the script of the frontend's table that it was matched
  with, an event that waits for the UI is of a script without a file, and two of them are of
  different scripts.
* `VmLists`: `VmsInv`. For each state (`Agrees`): with no news of it on the way both sides agree,
  and otherwise the last news on the way says what the backend knows.
* `BreakpointTables`: `"DeleteAll" \notin UserMay` implies `SessionSpec => []BreakpointsAgree`. The same
  argument for each script and line with the SetBreakpoint events; in addition a script without
  a file has no breakpoint in the backend, and toggles and answers under way are of scripts
  with a file (`BreakpointsInv`). Delete All clears the frontend at once while an
  answer may be on the way (*Delete All race*).
* `BreakpointsComeFirst`: one thread and `"Toggle" \notin UserMay` imply
  `SessionSpec => BreakpointsBeforeFirstLine`, an action property. A thread that awaits a script's
  breakpoints has one token (`LoadInv`): the LoadScript event in the pipe, then in the queue,
  then the LoadDone command, behind all toggles sent (`TogglesFirst`), then the load event.
  When it leaves the wait, the script is in the backend's table (`RegisteredInv`), hence in the
  frontend's, and it is handled (`HandledInv`: a script has its file or waits in the queue). With two
  threads there may be two tokens for one event (*Two loads*); a user who toggles a breakpoint of the
  script between the LoadDone and the wake-up has a toggle on the way that the thread need not wait for.

The rest is about the other parts.

* `ParsingTypes`, `NoWakeupLost`, `SilentAfterStop` of `SymbolParsing` follow from
  `ParsingInv`. To the types it adds where each lock is held and that the item in
  hand exists (`LocksInv`), that the window is in `QueueForParsing` exactly while
  files are left (`QueueInv`), and `NoLostWakeup` already from the thread's test of
  `m_exit` on (`WakeupInv`), one step earlier than the property needs it. Silence
  after Stop needs that a thread past its test of the handler holds `headLock`.
* `SymbolsReachTheirFile`: `Spec => []SymbolsBelongToTheFile`. `PathsInv` says that
  every item queued and every event posted carries a text of its file, if that file
  is still in the project, and an id already given out (`Belongs`). A step gives a
  file with an old id no other path (`IdsKept`), which carries it over to the next state.
* `TreeFollows`: `Spec => []TreeFollowsTheFiles`. The handler of `SymbolParser` that replaces the symbols
  of a file posts the event for `MainFrame` in the same step, and a tree
  made anew shows the symbols at hand. Stop drops the pending events, but only once no file is left (`ClosingInv`).

* `SourceControlTypes` of `SourceControl`: the invariant `Types` adds that the command
  thread has a command while it runs one.
* `HeldCommandsAreAlive`: `Spec => []CommandsAreAlive`. `AliveInv` states the property part by
  part, without the sequence made of the queue and the running command: a client in
  the queue, or whose command runs, has not returned, and no client is there twice. A push
  keeps it because a client pushes only when idle, a completion because the command
  left the queue when it was taken.
* `ExitIsOfFirstThread`, `NamesAreFixed`: `StatusInv` adds to the first property that a
  status thread in a call is the one in the first slot, runs, has names and has not posted
  its event; without that a query could return to a thread that is gone.
* `QuietStatuses`: `PluginFails = FALSE` implies `Spec => []QuietStatusIsCurrent`. Every file of
  the project is in time (what is shown is current, or a thread that waits or runs will answer
  for it after the change) or lifted (the window's handler still has an update of it to
  make). `UpdateInv` says so, and eight invariants carry it: what a handler still has to do
  keeps its form, so that each change of the repository is followed by an update
  (`FormInv`); a command that is held is the one its client waits for (`CommandInv`); the
  plug-in is ready until it is shut down, so that its queries answer (`ModuleInv`); an
  answer speaks only of the names asked for (`AnswerInv`, `RequeryInv`); and the types and the
  two invariants above. All were checked with TLC before they were proved.
* `LookupsUseCurrentMapping`: `Spec => []MappingIsCurrent`. Each step that changes the text or
  the source marks the mapping dirty, recomputes it or sets `stale`. `EventsInv` adds that the end of a session is the
  last event, so that a script is loaded only while its source is there.
* `TraceIsLongest`, `MatchesAreLongest`, `DiffIsLongest` of `LineMapper`. An induction over the
  cells of the table cannot be done with the library's theorems, which take an operator. It is
  done with a set instead: of the numbers of steps to a cell for which the claim fails there would be
  a least one, as the numbers up to it would be a least finite set (`LeastNumber`, `WFMin`). In this
  way the recursive functions `Table` and `Trace` are shown to exist (`TableExists`,
  `TraceExists`) and each cell to hold the size of a best matching of what is before it
  (`BestEverywhere`). Leaving out the equal ends loses nothing because of any matching at
  most as many pairs touch the lines left out as there are such lines, and the others match lines
  between the ends.
* `LookupsUseLongestMapping`: `Spec => []MappingIsLongest`, from the two above; what
  `CleanWhiteSpace` leaves of a text is a text with as many lines at most.
* `MarkersFollowTheList`: `Spec => []MarkersMatchBreakpoints`. `MarkersInv` adds that no line has two
  markers unless `merged`: a deletion adds the markers of the lines that become one, and
  only then is this the marker of the one entry the list keeps of them.
* `EditsKeepBreakpoints`: `Spec => BreakpointsFollowTheirLines`, an action property, from the
  types: each edit has a function from old to new lines, and a line whose contents occur
  once before and after can only have moved along it.
* `BackendAgreesWithList`: `Spec => []BackendHasListedLines`. `SyncedInv` speaks of each line of the
  script: the backend holds it exactly if the last answer on its way to the list says
  so, and without an answer exactly if the list has a line that comes from it. Where everything is still to be
  removed, the list has no line of the script. Answers find their entry because each
  line on its way is `Proper`: there and back through the mapping is the same line, by
  `DiffIsLongest`. `SessionInv` adds that a script has its `SessionEnd` on the way
  when the program is gone and that nothing is toggled before the script is handled.
* `NoFileIsLost`: `Spec => []FilesAreOpened`. The invariant says where each file is on its way:
  in the command that is not read yet, with a message posted or about to be posted, in the
  window's list, opened, or overwritten (`InstanceInv`).
* `TabOrderFollowsUse`: `Spec => []TabOrderIsRecency`. `TabInv` adds that no file is open twice, that
  the tab order has each page once and that a page is selected if there is one. Without
  the first a page could be removed twice from the order; without the second the
  renumbering of a close could give one number to two pages.
* `EditorFollowsFile`: `Spec => []StatusIsCurrent`. `WatchInv` says for each place of the window
  and of the thread what is known there: that a thread watches the directory of the file
  (`ThreadInv`), and that the status shown is the one stored unless an event is posted or the
  thread is about to post one (`ShownInv`). TLC checked it with three files, four operations and three
  changes (2,205,901 states) before it was proved, and found the last of the *Missed changes* of section 5.
* `EditedFileTypes`, `WindowTypes`: from the same invariants.

What is only model-checked is liveness (`LoadWaitEnds`, `ResumeReleases`, `DetachReleases`,
`UiComesBack`, `SessionEnds`, `QueueingEnds`, `QueuedIsParsed`, `StopEnds`, `RefreshEnds`,
`EndThreadReturns`): TLAPS does not do fairness and ENABLED here. The violations of section 5 are
counterexamples of TLC.

## 5. Where the code does not do what it says

Four runs end in a violation; the counterexample is a behaviour of the code.

* `load_error_deadlock` (`DebugBackend.cpp:456`): the handler of a load error
  takes `m_criticalSection`, then `m_breakLock`. A stopped thread holds the second
  until Continue or Detach, and both commands need the first.
* `watch_error_deadlock` (`DebugBackend.cpp:1542`): a watched expression fails in
  a C function while `m_breakLock` is free: the command thread waits for an event
  that only it sets.
* `detach_crash` (`DebugBackend.cpp:718`): a thread on its way into the hook or the
  error handler dereferences a VM that Detach and the cleanup have removed.
* `lost_command` (`SourceControl.cpp:1365`): a command found in the queue without
  waiting leaves the available event set; the next wait of the command thread ends at
  once, it finds the queue empty and quits. The window waits for its next
  command for ever. Opening a project with a provider is enough.

### Deviations

Further disagreements met while modelling. In a session the runs avoid them by
`UserMay`, `Errors` or the number of threads, and turning those on reproduces each one.

* *Two loads* (`DebugBackend.cpp:516`): `m_loadEvent` is one auto-reset event for all
  threads; with two in a load, the first LoadDone may release the other one, although the comment at
  line 514 lets it wait for its breakpoints (`BreakpointsBeforeFirstLine` fails with two threads and
  two scripts).
* *New coroutine* (`DebugBackend.cpp:956`): a state attached after a breakpoint was set
  has `haveActiveBreakpoints` false, turns its own hook off at its first call and never
  stops (`BreakpointKeepsHook` of `Session` fails).
* *Stale symbols* (`MainFrame.cpp:4533`): a file is saved while an earlier text of it is
  still queued; the thread takes the last item first, so the symbols of the older text
  arrive last and stay (`SymbolsOfTheSavedText` of `SymbolParsing` fails).

* *Break race* (`DebugBackend.cpp:963`): Break takes no lock; between the test of
  `m_mode` and the installation of the hook it is lost (`SteppingSeesEveryLine`
  fails with "Break" in `UserMay`).
* *Load error lets go of its locks before it waits* (`DebugBackend.cpp:472`): two
  threads may wait at once, although the comment at line 454 speaks of one.
* *Late write* (`Shared/Channel.cpp:133`): events queued before Stop are handled
  after the channels were destroyed; the assertion does not hold, and a release
  build ignores the failed write.
* *Events written without the lock* (`DebugBackend.cpp:1438-1444`, `686-694`): an Exception or
  a Message is written as several words without `m_criticalSection`, so that the words of
  another thread's event may come between them; no run shows this, as an event is one step here.
* *IDE dies without Detach* (`DebugBackend.cpp:1165`): the command thread cleans up
  without setting `m_detachEvent`; a waiting thread hangs (`LoadWaitEnds` fails
  with "Die").
* *Stale exception dialog* (`MainFrame.cpp:1949`): a second stop may happen while
  the dialog of the first is open; closing it continues the wrong one
  (`StateAgrees` fails with an error and "Continue").
* *Stale watch* (`MainFrame.cpp:2680`): OnBreak evaluates in a VM whose thread may
  run again.
* *Delete All race* (`MainFrame.cpp:4830`): files are cleared at once while a
  SetBreakpoint of an earlier toggle is under way (`BreakpointsAgree` fails with
  "Toggle" and "DeleteAll").
* *End of a batch* (`MainFrame.cpp:6075`): "final" means that the queue was empty when
  the thread looked; with a fast thread that is so after the first file of a project
  still being queued. Without a Lua file in the project no event comes, and
  "Loading Symbols" stays.
* *Completions after a batch* (`MainFrame.cpp:6087`): the tree is rebuilt, the
  completions are not; they show nothing of the project until another file is parsed.
* *Symbols during a batch* (`SymbolParser.cpp:151`): a tree that is rebuilt while the
  batch runs (the filter changes) points to symbols that the next event deletes.
* *A script's text is parsed instead of the saved one* (`SymbolParser.cpp:90`): while a
  file has a script, saving it parses the script's source again.
* *Existing file as new file* (`MainFrame.cpp:1298`): `AddFile` returns NULL for a file
  that is already in the project, and `UpdateForNewFile` is called with it.
* *Event handler* (`SymbolParser.cpp:43`): it is set after the thread was started,
  although `SymbolParserThread.h:52` asks for before; nothing is queued by then.

Source control:

* *Older answer after a newer one* (`MainFrame.cpp:5137`): a file that is checked out
  from the editor is updated by itself; a status thread that asked before may answer after, and
  the project keeps the older status (`overtaken`).
* *Failed query* (`SourceControl.cpp:372`): the result of the call is compared with 0 before
  it is stored, so a failure is never seen and the statuses are read from an
  uninitialized buffer (`PluginFails`).
* *Menus without a provider* (`MainFrame.cpp:3377`, `MainFrame.cpp:4978`): they are enabled by the status of a file, which
  stays when the provider is removed; the command is queued and nobody runs it.
* *Shutdown under a query* (`SourceControl.cpp:882`): nothing keeps a status thread from calling a
  provider that the window is shutting down; its command may also never be run.

The edited file:

* *Cleaning a line* (`LineMapper.cpp:256`): of several spaces in a row all but one are
  to go, but `erase(i)` takes everything to the end of the line; lines that differ after two
  spaces count as equal.
* *Before the first line* (`LineMapper.cpp:149`): when the shorter text is the end of the longer
  one the unsigned index wraps and `X[-1]` is read.
* *Behind the last entry* (`LineMapper.cpp:190-194`): when the new text is the
  beginning of the old one, the entry behind the end of `m_newToOld` is written.
* *Texts that come unmarked* (`stale`): `ReloadFile` switches the editor's events off,
  and when a script is loaded (`MainFrame.cpp:1889`) the mapping is made from the file on the disk while the
  editor may show another text; `DebugFrontend.h:50` calls it the current mapping.
* *Markers that come together* (`merged`, `MainFrame.cpp:2599-2600`): the comment keeps markers and list
  in sync; once two markers are on one line, or the whole text was replaced, they part.
* *Sides that part* (`apart`): edits while the program runs move the list and not the backend, and
  "Delete All" clears the list while an answer is under way.
* *A line that is gone* (`MainFrame.cpp:1931`): the answer for it is stored as a breakpoint in
  line 65535.
* *Last line* (`MainFrame.cpp:4786`): the check that refuses breakpoints on the empty line
  at the end compares one too high and is never true for it.
* *Empty text*: when either text has no lines all lines are mapped to the first, and
  the two tables are not each other's inverse.

The window:

* *Two files at once* (`MainApp.cpp:117-131`): the second process overwrites the command of the first before the
  window has read it; the first file is lost (`overwritten`) and the second opened twice.
* *Simultaneous starts* (`SingleInstance.cpp:55`): two processes that find no mapping both open a
  window, and the later one clears a command that was not read; one that finds the
  mapping before the handle was stored opens a window of its own.
* *Missed changes* (`missed`, `FileChangeWatcher.cpp:71`): a change between the showing of the status and
  the reading of the attributes, or before the notification is asked for, is compared with itself; the
  window and the thread store over each other's values; and when `OnFileEvent` shows a change before the
  thread has looked for it (`MainFrame.cpp:1982`) and the change is taken back, the thread finds nothing.
* *Paging backwards* (`MainFrame.cpp:1646`): the index is unsigned, so that from the first of three documents
  Ctrl+Shift+Tab goes to the first again, not to the last; only with a power of two
  is it right. `Wrapped` has the arithmetic.
* *Paging cut short* (`MainFrame.cpp:4295`): opening the file that paging has already selected ends paging
  without moving the page to the front; it stays where it was until another page is used.

## 6. Not modelled

Pure input and output, layout and vendored code: the patching of machine code
(`Hook.cpp`), symbol lookup (`DebugHelp.cpp`), the windows that only show what is
modelled elsewhere, settings files, the starting of a process and the injection of
the DLL. The repository's own code is under `src/src`; wxWidgets, Scintilla, tinyxml and
dbghelp under `src/libs` are vendored. Of the parts that are modelled these are left out:

* backend: the values Evaluate computes, class names, `NameVM`, LuaJIT's stack merge and
  native frames;
* source control: choosing a provider or a project, the dialog of a new project with
  a `SourceControl` of its own, what other users do to the repository while the IDE runs;
* file watching: a directory that cannot be watched, "Save As" under a new name, torn
  reads of the shared file name;
* open files: dragged and split tabs, a close that the user refuses, closing all;
* edited file: several editors, undo, other encodings.

Each component is listed in `PROJECT.json` with its status and reason.

## 7. Plan

Done: all modules of section 2 and the theorems of section 4. What could follow, in
this order:

1. `EditedFile` with several files, joined to `Session` in place of the unchanged text.
2. Evaluation: the environment built for a watch, the unified call stack.
