--------------------------- MODULE SymbolParsing ---------------------------
(***************************************************************************)
(* How the symbols of the project's files reach the Project Explorer.      *)
(* The window queues the text of a file for the parser thread; the thread  *)
(* posts the parsed symbols to SymbolParser, which stores them in the file *)
(* and forwards the event to MainFrame, which updates the tree and the     *)
(* completions.  Two threads, two critical sections and a semaphore whose  *)
(* count never passes 1 (SymbolParserThread.cpp, SymbolParser.cpp and the  *)
(* handlers of MainFrame.cpp that queue a file).                           *)
(*                                                                         *)
(* The parser itself is abstracted: the symbols of a text are the text.    *)
(* "Save As" under another name is left out: it queues the file the same   *)
(* way.  Each handler of the window runs to its end before the next event. *)
(***************************************************************************)
EXTENDS Naturals, Sequences, FiniteSets, SequencesExt

CONSTANTS
    Paths,        \* the files on disk
    LuaPaths,     \* those with the extension "lua"
    Projects,     \* the saved projects: sequences of paths
    InitialDisks, \* the versions on disk at the start: [Paths -> Nat]
    MaxFileId,    \* bound: files the window creates (Project::s_lastFileId)
    MaxVersion,   \* bound: versions of the text of one path
    MaxQueue,     \* bound: items waiting for the parser when a file is saved
    None          \* a null pointer, an index of -1, no symbols

ASSUME ParsingAssumption ==
    /\ LuaPaths \subseteq Paths
    /\ Projects \subseteq Seq(Paths)
    /\ InitialDisks \subseteq [Paths -> 0 .. MaxVersion]
    /\ MaxFileId \in Nat /\ MaxVersion \in Nat \ {0} /\ MaxQueue \in Nat

FileIds == 1 .. MaxFileId
Texts == [path : Paths, version : 1 .. MaxVersion]
Items == [fileId : FileIds, code : Texts]
Events == [fileId : FileIds, symbols : Texts, isFinal : BOOLEAN]
Files == [path : Paths, lua : BOOLEAN, temporary : BOOLEAN,
          script : Texts \cup {None}, symbols : Texts \cup {None}]

Threads == {"window", "worker"}

VARIABLES
    \* the parser thread and what it shares with the window
    items,          \* m_items, guarded by itemsLock
    head,           \* m_headItem, guarded by headLock
    itemsLock,      \* the owner of m_itemsLock, or None
    headLock,       \* the owner of m_headLock, or None
    itemsAvailable, \* the count of m_itemsAvailable
    handler,        \* m_eventHandler is set
    exit,           \* m_exit
    worker,         \* where the parser thread is
    isLast,         \* its local isLastItem
    \* the window
    window,         \* where the window's thread is
    toQueue,        \* the files the running handler has still to queue
    parsed,         \* events pending for SymbolParser
    forwarded,      \* events pending for MainFrame
    files,          \* m_project: the files by id, in the order of the ids
    lastFileId,     \* Project::s_lastFileId
    disk,           \* the version on disk of each path, 0 when there is none
    tree,           \* the symbols the Project Explorer shows for a file
    completions,    \* the symbols the completions were built from
    waiting         \* m_waitForFinalSymbolParse

shared == <<items, head, itemsLock, headLock, itemsAvailable, handler, exit>>
local == <<worker, isLast>>
events == <<parsed, forwarded>>
views == <<tree, completions, waiting>>
project == <<files, lastFileId, disk>>
vars == <<shared, local, window, toQueue, events, project, views>>

ASSUME NoneIsNoValue == None \notin Texts \cup Items \cup Threads

TypeOK ==
    /\ items \in Seq(Items) /\ head \in Items \cup {None}
    /\ itemsLock \in {"worker", None} /\ headLock \in {"worker", None}
    /\ itemsAvailable \in 0 .. 1
    /\ handler \in BOOLEAN /\ exit \in BOOLEAN /\ isLast \in BOOLEAN
    /\ worker \in {"test", "wait", "take", "head", "parse", "last", "post",
                   "free", "clear", "ended"}
    /\ window \in {"idle", "queue", "signal", "stop", "exit", "join", "closed"}
    /\ toQueue \in Seq(FileIds)
    /\ parsed \in Seq(Events) /\ forwarded \in Seq(Events)
    /\ DOMAIN files \subseteq 1 .. lastFileId
    /\ \A f \in DOMAIN files : files[f] \in Files
    /\ lastFileId \in 0 .. MaxFileId
    /\ disk \in [Paths -> 0 .. MaxVersion]
    /\ DOMAIN tree = DOMAIN files /\ DOMAIN completions \subseteq 1 .. lastFileId
    /\ \A f \in DOMAIN tree : tree[f] \in Texts \cup {None}
    /\ \A f \in DOMAIN completions : completions[f] \in Texts \cup {None}
    /\ waiting \in BOOLEAN

NoFiles == [f \in {} |-> None]

Init ==
    /\ items = <<>> /\ head = None /\ itemsLock = None /\ headLock = None
    /\ itemsAvailable = 0 /\ handler = TRUE /\ exit = FALSE
    /\ worker = "test" /\ isLast = FALSE
    /\ window = "idle" /\ toQueue = <<>>
    /\ parsed = <<>> /\ forwarded = <<>>
    /\ files = NoFiles /\ lastFileId = 0
    /\ disk \in InitialDisks
    /\ tree = NoFiles /\ completions = NoFiles
    /\ waiting = FALSE

-----------------------------------------------------------------------------
(***************************************************************************)
(* The parser thread: SymbolParserThread::Entry.                           *)
(***************************************************************************)

TestExit ==
    /\ worker = "test"
    /\ worker' = IF exit THEN "clear" ELSE "wait"
    /\ UNCHANGED <<shared, isLast, window, toQueue, events, project, views>>

WaitForItems ==
    /\ worker = "wait" /\ itemsAvailable > 0
    /\ itemsAvailable' = itemsAvailable - 1
    /\ worker' = "take"
    /\ UNCHANGED <<items, head, itemsLock, headLock, handler, exit, isLast,
                   window, toQueue, events, project, views>>

\* Mutant: the lock is kept when the queue is empty.
LookForItemKeepsLock ==
    /\ worker = "take" /\ itemsLock = None
    /\ itemsLock' = "worker"
    /\ worker' = IF items = <<>> THEN "test" ELSE "head"
    /\ UNCHANGED <<items, head, headLock, itemsAvailable, handler, exit, isLast,
                   window, toQueue, events, project, views>>

\* The items are locked; an empty queue ends the inner loop.
LookForItem ==
    /\ worker = "take" /\ itemsLock = None
    /\ IF items = <<>>
       THEN worker' = "test" /\ UNCHANGED itemsLock
       ELSE worker' = "head" /\ itemsLock' = "worker"
    /\ UNCHANGED <<items, head, headLock, itemsAvailable, handler, exit, isLast,
                   window, toQueue, events, project, views>>

\* The head is locked while the items still are: m_items.back() becomes it.
TakeItem ==
    /\ worker = "head" /\ headLock = None
    /\ headLock' = "worker" /\ itemsLock' = None
    /\ head' = Last(items) /\ items' = Front(items)
    /\ worker' = "parse"
    /\ UNCHANGED <<itemsAvailable, handler, exit, isLast, window, toQueue,
                   events, project, views>>

\* Only a thread that still has an event handler parses.
Parse ==
    /\ worker = "parse"
    /\ worker' = IF handler THEN "last" ELSE "free"
    /\ UNCHANGED <<shared, isLast, window, toQueue, events, project, views>>

AskIfLast ==
    /\ worker = "last" /\ itemsLock = None
    /\ isLast' = (items = <<>>)
    /\ worker' = "post"
    /\ UNCHANGED <<shared, window, toQueue, events, project, views>>

PostSymbols ==
    /\ worker = "post"
    /\ parsed' = Append(parsed, [fileId |-> head.fileId, symbols |-> head.code,
                                 isFinal |-> isLast])
    /\ worker' = "free"
    /\ UNCHANGED <<shared, isLast, window, toQueue, forwarded, project, views>>

\* Mutant: one item is taken for each count of the semaphore.
FreeItemWaits ==
    /\ worker = "free"
    /\ head' = None /\ headLock' = None /\ isLast' = FALSE
    /\ worker' = "test"
    /\ UNCHANGED <<items, itemsLock, itemsAvailable, handler, exit, window,
                   toQueue, events, project, views>>

\* The head item is deleted and headLock released.
FreeItem ==
    /\ worker = "free"
    /\ head' = None /\ headLock' = None /\ isLast' = FALSE
    /\ worker' = "take"
    /\ UNCHANGED <<items, itemsLock, itemsAvailable, handler, exit, window,
                   toQueue, events, project, views>>

ClearItems ==
    /\ worker = "clear" /\ itemsLock = None /\ headLock = None
    /\ items' = <<>> /\ head' = None
    /\ worker' = "ended"
    /\ UNCHANGED <<itemsLock, headLock, itemsAvailable, handler, exit, isLast,
                   window, toQueue, events, project, views>>

Worker ==
    \/ TestExit \/ WaitForItems \/ LookForItem \/ TakeItem \/ Parse
    \/ AskIfLast \/ PostSymbols \/ FreeItem \/ ClearItems

-----------------------------------------------------------------------------
(***************************************************************************)
(* The window queues files: SymbolParser::QueueForParsing is called with   *)
(* each file of toQueue in turn.                                           *)
(***************************************************************************)

\* The text SymbolParser::QueueForParsing passes on: the script's when the file
\* is loaded in the debugged process, else what is on disk.
CodeOf(f) ==
    IF files[f].script # None THEN files[f].script
    ELSE [path |-> files[f].path, version |-> disk[files[f].path]]

\* A file is queued if it is a Lua file with a script or a text on disk.
IsParsed(f) ==
    /\ files[f].lua
    /\ files[f].script # None \/ disk[files[f].path] > 0

SkipFile ==
    /\ window = "queue" /\ ~ IsParsed(Head(toQueue))
    /\ toQueue' = Tail(toQueue)
    /\ window' = IF Len(toQueue) = 1 THEN "idle" ELSE "queue"
    /\ UNCHANGED <<shared, local, events, project, views>>

PushItem ==
    /\ window = "queue" /\ IsParsed(Head(toQueue)) /\ itemsLock = None
    /\ items' = Append(items, [fileId |-> Head(toQueue),
                               code |-> CodeOf(Head(toQueue))])
    /\ window' = "signal"
    /\ UNCHANGED <<head, itemsLock, headLock, itemsAvailable, handler, exit,
                   local, toQueue, events, project, views>>

\* Mutant: the thread is signalled only when it already waits.
SignalItemIfWaiting ==
    /\ window = "signal"
    /\ itemsAvailable' = IF worker = "wait" THEN 1 ELSE itemsAvailable
    /\ toQueue' = Tail(toQueue)
    /\ window' = IF Len(toQueue) = 1 THEN "idle" ELSE "queue"
    /\ UNCHANGED <<items, head, itemsLock, headLock, handler, exit, local,
                   events, project, views>>

\* m_itemsAvailable.Post(): a count that is already 1 stays 1.
SignalItem ==
    /\ window = "signal"
    /\ itemsAvailable' = 1
    /\ toQueue' = Tail(toQueue)
    /\ window' = IF Len(toQueue) = 1 THEN "idle" ELSE "queue"
    /\ UNCHANGED <<items, head, itemsLock, headLock, handler, exit, local,
                   events, project, views>>

\* The handler goes on to queue the files of s.
StartQueueing(s) ==
    /\ toQueue' = s
    /\ window' = IF s = <<>> THEN "idle" ELSE "queue"

-----------------------------------------------------------------------------
(***************************************************************************)
(* The window's handlers.                                                  *)
(***************************************************************************)

NewFile(path, lua, temporary, script) ==
    [path |-> path, lua |-> lua, temporary |-> temporary, script |-> script,
     symbols |-> None]

SymbolsOf(fs) == [f \in DOMAIN fs |-> fs[f].symbols]

\* Mutant: every project numbers its files from 1.
SetProjectRestartsIds(s, saved) ==
    /\ window = "idle"
    /\ Len(s) <= MaxFileId
    /\ files' = [f \in 1 .. Len(s) |-> NewFile(s[f], s[f] \in LuaPaths, FALSE, None)]
    /\ lastFileId' = Len(s)
    /\ waiting' = (waiting \/ saved)
    /\ tree' = SymbolsOf(files')
    /\ completions' = SymbolsOf(files')
    /\ StartQueueing([i \in 1 .. Len(s) |-> i])
    /\ UNCHANGED <<shared, local, events, disk>>

\* MainFrame::SetProject with a project of the files in s; a project that has a
\* file name waits for the symbols of all its files.
SetProject(s, saved) ==
    /\ window = "idle"
    /\ lastFileId + Len(s) <= MaxFileId
    /\ files' = [f \in lastFileId + 1 .. lastFileId + Len(s) |->
                    NewFile(s[f - lastFileId], s[f - lastFileId] \in LuaPaths,
                            FALSE, None)]
    /\ lastFileId' = lastFileId + Len(s)
    /\ waiting' = (waiting \/ saved)
    /\ tree' = SymbolsOf(files')
    /\ completions' = SymbolsOf(files')
    /\ StartQueueing([i \in 1 .. Len(s) |-> lastFileId + i])
    /\ UNCHANGED <<shared, local, events, disk>>

NewProject == SetProject(<<>>, FALSE)

OpenProject == \E s \in Projects : SetProject(s, TRUE)

\* Project::AddFile or AddTemporaryFile, then MainFrame::UpdateForNewFile.
AddFile(file) ==
    /\ lastFileId < MaxFileId
    /\ lastFileId' = lastFileId + 1
    /\ files' = [f \in DOMAIN files \cup {lastFileId'} |->
                    IF f = lastFileId' THEN file ELSE files[f]]
    /\ tree' = [f \in DOMAIN files' |->
                    IF f = lastFileId' THEN None ELSE tree[f]]
    /\ completions' = SymbolsOf(files')
    /\ StartQueueing(<<lastFileId'>>)

AddExistingFile ==
    /\ window = "idle"
    /\ \E p \in Paths, temporary \in BOOLEAN :
        /\ disk[p] > 0
        /\ \A f \in DOMAIN files :
            files[f].path = p => files[f].temporary /\ ~ temporary
        /\ AddFile(NewFile(p, p \in LuaPaths, temporary, None))
    /\ UNCHANGED <<shared, local, events, disk, waiting>>

\* The file leaves the tree and then the project; the completions stay.
RemoveFile ==
    /\ window = "idle"
    /\ \E f \in DOMAIN files :
        /\ files' = [g \in DOMAIN files \ {f} |-> files[g]]
        /\ tree' = [g \in DOMAIN files \ {f} |-> tree[g]]
    /\ UNCHANGED <<shared, local, window, toQueue, events, lastFileId, disk,
                   completions, waiting>>

\* MainFrame::SaveFile: the file is written under its own name and queued.
SaveFile ==
    /\ window = "idle" /\ Len(items) < MaxQueue
    /\ \E f \in DOMAIN files :
        /\ disk[files[f].path] \in 1 .. MaxVersion - 1
        /\ disk' = [disk EXCEPT ![files[f].path] = @ + 1]
        /\ StartQueueing(<<f>>)
    /\ UNCHANGED <<shared, local, events, files, lastFileId, views>>

\* EventId_LoadScript: the script goes to the first file of its name that has no
\* script, or to a new temporary file of type "Lua".
LoadScript ==
    /\ window = "idle"
    /\ \E p \in Paths : \E v \in 1 .. disk[p] :
        LET source == [path |-> p, version |-> v]
            matching == {f \in DOMAIN files :
                            files[f].path = p /\ files[f].script = None}
        IN  \/ \E f \in matching :
                /\ \A g \in matching : f <= g
                /\ files' = [files EXCEPT ![f].script = source]
                /\ UNCHANGED <<window, toQueue, lastFileId, tree, completions>>
            \/ /\ matching = {}
               /\ AddFile(NewFile(p, TRUE, TRUE, source))
    /\ UNCHANGED <<shared, local, events, disk, waiting>>

\* The end of the debugging session: no file has a script any more, and the
\* temporary files that are not open are removed.
SessionEnd ==
    /\ window = "idle" /\ \E f \in DOMAIN files : files[f].script # None
    /\ \E open \in SUBSET DOMAIN files :
        LET kept == {f \in DOMAIN files : f \in open \/ ~ files[f].temporary}
        IN  /\ files' = [f \in kept |-> [files[f] EXCEPT !.script = None]]
            /\ tree' = [f \in kept |-> tree[f]]
    /\ UNCHANGED <<shared, local, window, toQueue, events, lastFileId, disk,
                   completions, waiting>>

\* SymbolParser::OnSymbolsParsed: the symbols of a file that is still in the
\* project are replaced and the event goes on to MainFrame.
ParserOnSymbolsParsed ==
    /\ window = "idle" /\ parsed # <<>>
    /\ parsed' = Tail(parsed)
    /\ LET event == Head(parsed)
       IN  IF event.fileId \in DOMAIN files
           THEN /\ files' = [files EXCEPT ![event.fileId].symbols = event.symbols]
                /\ forwarded' = Append(forwarded, event)
           ELSE UNCHANGED <<files, forwarded>>
    /\ UNCHANGED <<shared, local, window, toQueue, lastFileId, disk, views>>

\* Mutant: the final item of a batch updates its own file only.
FrameUpdatesFinalFile ==
    /\ window = "idle" /\ forwarded # <<>>
    /\ forwarded' = Tail(forwarded)
    /\ waiting' = (waiting /\ ~ Head(forwarded).isFinal)
    /\ IF waiting'
       THEN UNCHANGED <<tree, completions>>
       ELSE /\ tree' = [f \in DOMAIN files |-> IF f = Head(forwarded).fileId
                                               THEN files[f].symbols ELSE tree[f]]
            /\ completions' = SymbolsOf(files)
    /\ UNCHANGED <<shared, local, window, toQueue, parsed, project>>

\* MainFrame::OnSymbolsParsed: nothing while it waits, everything with the final
\* item, one file and the completions otherwise.
FrameOnSymbolsParsed ==
    /\ window = "idle" /\ forwarded # <<>>
    /\ forwarded' = Tail(forwarded)
    /\ LET event == Head(forwarded)
       IN  \/ /\ waiting /\ ~ event.isFinal
              /\ UNCHANGED views
           \/ /\ waiting /\ event.isFinal
              /\ waiting' = FALSE
              /\ tree' = SymbolsOf(files)
              /\ UNCHANGED completions
           \/ /\ ~ waiting
              /\ tree' = [f \in DOMAIN files |->
                            IF f = event.fileId THEN files[f].symbols ELSE tree[f]]
              /\ completions' = SymbolsOf(files)
              /\ UNCHANGED waiting
    /\ UNCHANGED <<shared, local, window, toQueue, parsed, project>>

\* MainFrame::~MainFrame: no project, then SymbolParserThread::Stop, which takes
\* headLock to clear the event handler, sets m_exit, posts and joins.
CloseWindow ==
    /\ window = "idle"
    /\ files' = NoFiles /\ tree' = NoFiles
    /\ window' = "stop"
    /\ UNCHANGED <<shared, local, toQueue, events, lastFileId, disk, completions,
                   waiting>>

\* Mutant: Stop clears the event handler without headLock.
ClearHandlerUnlocked ==
    /\ window = "stop"
    /\ handler' = FALSE
    /\ window' = "exit"
    /\ UNCHANGED <<items, head, itemsLock, headLock, itemsAvailable, exit, local,
                   toQueue, events, project, views>>

ClearHandler ==
    /\ window = "stop" /\ headLock = None
    /\ handler' = FALSE
    /\ window' = "exit"
    /\ UNCHANGED <<items, head, itemsLock, headLock, itemsAvailable, exit, local,
                   toQueue, events, project, views>>

\* Mutant: Stop sets m_exit without waking the thread.
TellToExitSilently ==
    /\ window = "exit"
    /\ exit' = TRUE
    /\ window' = "join"
    /\ UNCHANGED <<items, head, itemsLock, headLock, itemsAvailable, handler, local,
                   toQueue, events, project, views>>

TellToExit ==
    /\ window = "exit"
    /\ exit' = TRUE /\ itemsAvailable' = 1
    /\ window' = "join"
    /\ UNCHANGED <<items, head, itemsLock, headLock, handler, local, toQueue,
                   events, project, views>>

Join ==
    /\ window = "join" /\ worker = "ended"
    /\ window' = "closed"
    /\ parsed' = <<>> /\ forwarded' = <<>>
    /\ UNCHANGED <<shared, local, toQueue, project, views>>

\* The window is gone: the only state in which nothing happens any more.
Closed == window = "closed" /\ UNCHANGED vars

Queueing == SkipFile \/ PushItem \/ SignalItem
Stopping == ClearHandler \/ TellToExit \/ Join
Dispatching == ParserOnSymbolsParsed \/ FrameOnSymbolsParsed

Next ==
    \/ Worker \/ Queueing \/ Stopping \/ Dispatching
    \/ NewProject \/ OpenProject \/ AddExistingFile \/ RemoveFile \/ SaveFile
    \/ LoadScript \/ SessionEnd \/ CloseWindow \/ Closed

Spec == Init /\ [][Next]_vars

\* The parser thread runs when it can, and the window finishes the handler it is in.
Fairness == WF_vars(Worker) /\ WF_vars(Queueing) /\ WF_vars(Stopping)

FairSpec == Spec /\ Fairness

-----------------------------------------------------------------------------
(***************************************************************************)
(* Properties                                                              *)
(***************************************************************************)

\* While the thread waits for the semaphore with a count of 0, every item it has
\* not taken is about to be signalled: a count that saturates at 1 and a queue
\* that is pushed before it is signalled lose no wake-up
\* (SymbolParserThread.cpp:124-140, the semaphore of line 31).
NoLostWakeup ==
    worker = "wait" /\ itemsAvailable = 0 => items = <<>> \/ window = "signal"

\* "Clear the event handler so that we don't post a new message to it. If we did,
\* that message could be processed in the next event loop after the stop"
\* (SymbolParserThread.cpp:44-48): once Stop has released headLock the thread
\* posts no event, although it may have been parsing when Stop began.
NoEventAfterStop == [][~ handler => Len(parsed') <= Len(parsed)]_vars

\* The symbols stored in a file were parsed from a text of that file, also when
\* the answer comes after files were removed or another project was opened
\* (Project.h:71 "Unique id we use to match up symbol parsing results").
SymbolsBelongToTheFile ==
    \A f \in DOMAIN files :
        files[f].symbols # None => files[f].symbols.path = files[f].path

\* Outside of a batch, the tree shows of every file the symbols the file holds,
\* save for the files MainFrame has an event of: the tree keeps pointers to the
\* symbols, and SymbolParser::OnSymbolsParsed deletes them before MainFrame hears
\* of it (SymbolParser.cpp:148-156, MainFrame.cpp:6065-6100).
TreeFollowsTheFiles ==
    ~ waiting =>
        \A f \in DOMAIN files :
            \/ tree[f] = files[f].symbols
            \/ \E i \in DOMAIN forwarded : forwarded[i].fileId = f

\* A thread that holds a lock the other one wants always lets go of it: the window
\* gets through with queueing its files (the thread takes headLock while it holds
\* itemsLock, and itemsLock while it holds headLock).
QueueingEnds == window = "queue" ~> window = "idle"

\* Every file that was queued is taken by the thread, and its symbols are posted
\* or dropped.
QueuedIsParsed ==
    \A f \in FileIds :
        (\E i \in DOMAIN items : items[i].fileId = f)
            ~> (\A i \in DOMAIN items : items[i].fileId # f)

\* Closing the window stops the thread: the wait of Stop ends in every state the
\* thread can be in when Stop is called.
StopEnds == window = "stop" ~> window = "closed"

\* "Reparse the symbols for the file on save" (MainFrame.cpp:4532): when nothing is
\* queued, being parsed or pending, a file without a script that was parsed has the
\* symbols of the text it was last saved with.
Drained == items = <<>> /\ head = None /\ parsed = <<>> /\ window = "idle"

SymbolsOfTheSavedText ==
    Drained =>
        \A f \in DOMAIN files :
            files[f].script = None /\ files[f].symbols # None
                => files[f].symbols.version = disk[files[f].path]
=============================================================================
