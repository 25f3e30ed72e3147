----------------------------- MODULE OpenFiles ------------------------------
(* The open files of the window: the tabs and the order Ctrl+Tab goes        *)
(* through them (MainFrame.cpp), and the thread that watches the directory   *)
(* of the selected file so that its editor is read-only exactly when the     *)
(* file is (FileChangeWatcher.cpp).  The window runs one handler at a time;  *)
(* "ui" is where its handler for a changed page is.  m_fileName and          *)
(* m_fileAttributes are shared with the watching thread without a lock.      *)
(* Pages and places in the tab order count from one here.                    *)
EXTENDS Naturals, Sequences, SequencesExt

CONSTANTS
  Files,            \* the files of the project
  Directory,        \* where each of them is
  Protected,        \* those that are read-only at first
  MaxOperations,    \* bound: what the user does with the tabs
  MaxChanges,       \* bound: changes of a file's attribute by others
  None              \* no file, no directory, no attributes

VARIABLES
  openFiles,        \* m_openFiles, and the notebook's pages
  selection,        \* the notebook's page, 0 when there is none
  tabOrder,         \* m_tabOrder
  tabOrderIndex,    \* m_tabOrderIndex, 0 when no paging goes on
  readOnly,         \* what the editor of each file was last told
  protected,        \* the attribute of each file
  ui,               \* the step of OnNotebookPageChanged that comes next
  sameDirectory,    \* its local variable in SetFile
  found,            \* what GetFileAttributes gave the window
  fileName,         \* FileChangeWatcher::m_fileName
  attributes,       \* m_fileAttributes
  handle,           \* m_handle: the directory watched
  notified,         \* the directory changed since the thread last asked
  endEvent,         \* m_threadEndEvent is signalled
  watcher,          \* where the thread is
  saw,              \* its locals: the file it looked at and both attributes
  fileEvents,       \* FileEvents pending for the window
  operations, changes,
  recent,           \* history: the open files, the one used last first
  missed            \* history: a change fell where nothing compares it

tabVars     == <<openFiles, selection, tabOrder, tabOrderIndex, recent>>
statusVars  == <<readOnly, fileEvents>>
watchVars   == <<fileName, attributes, handle, notified, endEvent>>
threadVars  == <<watcher, saw>>
handlerVars == <<ui, sameDirectory, found>>
boundVars   == <<operations, changes>>
fileVars    == <<tabVars, statusVars, watchVars, threadVars, handlerVars,
                 boundVars, protected, missed>>

Directories == {Directory[f] : f \in Files}

ASSUME OpenFilesAssumption ==
  /\ None \notin Files \cup Directories
  /\ Protected \subseteq Files
  /\ MaxOperations \in Nat /\ MaxChanges \in Nat

NothingSeen == [file |-> None, old |-> None, new |-> None]

FilesInit ==
  /\ openFiles = <<>> /\ selection = 0
  /\ tabOrder = <<>> /\ tabOrderIndex = 0 /\ recent = <<>>
  /\ protected = [f \in Files |-> f \in Protected]
  /\ readOnly = [f \in Files |-> FALSE] /\ fileEvents = 0
  /\ ui = "idle" /\ sameDirectory = FALSE /\ found = None
  /\ fileName = None /\ attributes = None
  /\ handle = None /\ notified = FALSE /\ endEvent = FALSE
  /\ watcher = "none" /\ saw = NothingSeen
  /\ operations = 0 /\ changes = 0 /\ missed = FALSE

-----------------------------------------------------------------------------
(* The tabs.                                                                 *)

(* Mutant: the pages that follow keep their numbers.                         *)
RemovePageUnshifted(order, page) == RemoveFirst(order, page)

(* RemovePageFromTabOrder: the pages behind the removed one move up; "at     *)
(* most only one item can be removed".                                       *)
RemovePageFromTabOrder(order, page) ==
  LET rest == RemoveFirst(order, page)
  IN [i \in DOMAIN rest |-> IF rest[i] > page THEN rest[i] - 1 ELSE rest[i]]

(* SetMostRecentlyUsedPage, unless paging goes on: the page goes to the      *)
(* front, those before it one place down.                                    *)
SetMostRecentlyUsedPage(order, page) ==
  IF tabOrderIndex' = 0 THEN <<page>> \o RemoveFirst(order, page) ELSE order

(* The history of the same, by file.                                         *)
Used(file, list) ==
  IF tabOrderIndex' = 0 THEN <<file>> \o RemoveFirst(list, file) ELSE list

IndexOf(file) == CHOOSE i \in DOMAIN openFiles : openFiles[i] = file
IsOpen(file)  == Contains(openFiles, file)

(* The notebook selects a page; it tells the window unless it is the page    *)
(* that was selected.                                                        *)
Select(page) ==
  /\ selection' = page
  /\ IF page = selection
     THEN UNCHANGED <<tabOrder, recent, handlerVars>>
     ELSE /\ tabOrder' = SetMostRecentlyUsedPage(tabOrder, page)
          /\ recent' = Used(openFiles[page], recent)
          /\ ui' = "status" /\ UNCHANGED <<sameDirectory, found>>

(* OpenProjectFile, and OpenDocument when the file is not open.              *)
OpenProjectFile(file) ==
  /\ tabOrderIndex' = 0
  /\ IF IsOpen(file)
     THEN Select(IndexOf(file)) /\ UNCHANGED openFiles
     ELSE /\ openFiles' = Append(openFiles, file)
          /\ selection' = Len(openFiles')
          /\ tabOrder' = SetMostRecentlyUsedPage(tabOrder, selection')
          /\ recent' = Used(file, recent)
          /\ ui' = "status" /\ UNCHANGED <<sameDirectory, found>>

(* OpenDocument of a file that is open goes on with paging.                  *)
OpenDocument(file) ==
  IF IsOpen(file)
  THEN UNCHANGED <<openFiles, tabOrderIndex>> /\ Select(IndexOf(file))
  ELSE OpenProjectFile(file)

Idle == ui = "idle"

UserOperates ==
  /\ Idle
  /\ operations < MaxOperations /\ operations' = operations + 1
  /\ UNCHANGED <<changes, statusVars, watchVars, threadVars, protected, missed>>

OpenFromProject(file) == UserOperates /\ OpenProjectFile(file)

ClickTab(page) ==
  /\ UserOperates
  /\ UNCHANGED <<openFiles, tabOrderIndex>>
  /\ Select(page)

(* m_tabOrderIndex - 1 is unsigned when it meets the size: from the first    *)
(* place it goes to (2^32 - 1) % n, which is the last only when n divides    *)
(* 2^32.                                                                     *)
Wrapped(n) == ((((65536 % n) * (65536 % n)) % n) + (n - 1)) % n

(* OnWindowNextDocument, OnWindowPreviousDocument, by recent use; paging     *)
(* begins at the front and lasts until Ctrl is released.                     *)
PageThroughTabs ==
  LET n     == Len(tabOrder)
      place == IF tabOrderIndex = 0 THEN 0 ELSE tabOrderIndex - 1
  IN /\ UserOperates
     /\ n > 0
     /\ tabOrderIndex' \in
          {1 + ((place + 1) % n),
           1 + (IF place = 0 THEN Wrapped(n) ELSE (place - 1) % n)}
     /\ Select(tabOrder[tabOrderIndex'])
     /\ UNCHANGED openFiles

(* OnIdle sees that Ctrl is released.                                        *)
PagingEnds ==
  /\ Idle /\ tabOrderIndex # 0
  /\ tabOrderIndex' = 0
  /\ IF selection = 0 THEN UNCHANGED <<tabOrder, recent>>
     ELSE /\ tabOrder' = SetMostRecentlyUsedPage(tabOrder, selection)
          /\ recent' = Used(openFiles[selection], recent)
  /\ UNCHANGED <<openFiles, selection, statusVars, watchVars, threadVars,
                 handlerVars, boundVars, protected, missed>>

(* The page the notebook selects when one is removed: the one that follows   *)
(* the selected page, or the last; any other removal keeps the selection.    *)
SelectedAfter(page) ==
  IF page < selection THEN selection - 1
  ELSE IF page > selection THEN selection
  ELSE IF page = Len(openFiles) THEN page - 1 ELSE page

(* PreNotebookPageClose takes the file out of the lists, and the notebook    *)
(* then removes the page and reports a changed page, whichever was removed.  *)
CloseDocument(page) ==
  LET rest  == RemoveAt(openFiles, page)
      order == RemovePageFromTabOrder(tabOrder, page)
      list  == RemoveFirst(recent, openFiles[page])
      next  == SelectedAfter(page)
  IN /\ UserOperates
     /\ openFiles' = rest
     /\ selection' = next
     /\ UNCHANGED <<tabOrderIndex, sameDirectory, found>>
     /\ IF rest = <<>>
        THEN tabOrder' = order /\ recent' = list /\ UNCHANGED ui
        ELSE /\ tabOrder' = SetMostRecentlyUsedPage(order, next)
             /\ recent' = Used(rest[next], list)
             /\ ui' = "status"

(* DeleteProjectFile removes the page first: the changed page is reported    *)
(* while the lists still have the deleted one.                               *)
DeleteProjectFile(page) ==
  LET rest == RemoveAt(openFiles, page)
      next == SelectedAfter(page)
      old  == IF next >= page THEN next + 1 ELSE next
  IN /\ UserOperates
     /\ openFiles' = rest
     /\ selection' = next
     /\ UNCHANGED <<tabOrderIndex, sameDirectory, found>>
     /\ IF rest = <<>>
        THEN /\ tabOrder' = RemovePageFromTabOrder(tabOrder, page)
             /\ recent' = RemoveFirst(recent, openFiles[page]) /\ UNCHANGED ui
        ELSE /\ tabOrder' = RemovePageFromTabOrder(
                              SetMostRecentlyUsedPage(tabOrder, old), page)
             /\ recent' = RemoveFirst(Used(rest[next], recent), openFiles[page])
             /\ ui' = "status"

-----------------------------------------------------------------------------
(* OnNotebookPageChanged and FileChangeWatcher::SetFile; the tab order, that *)
(* nobody else looks at meanwhile, was brought up to date by Select.         *)

Selected == openFiles[selection]

(* UpdateDocumentReadOnlyStatus.                                             *)
UpdateDocumentReadOnlyStatus ==
  IF selection = 0 THEN UNCHANGED readOnly
  ELSE readOnly' = [readOnly EXCEPT ![Selected] = protected[Selected]]

ShowStatus ==
  /\ ui = "status" /\ ui' = "name"
  /\ UpdateDocumentReadOnlyStatus
  /\ missed' = FALSE
  /\ UNCHANGED <<fileEvents, sameDirectory, found, tabVars, watchVars,
                 threadVars, boundVars, protected>>

(* Mutant: the directories are compared after the name was stored.           *)
IsSameDirectoryLate(file) == TRUE

IsSameDirectory(file) ==
  fileName # None /\ Directory[file] = Directory[fileName]

SetFileName ==
  /\ ui = "name" /\ ui' = "look"
  /\ sameDirectory' = IsSameDirectory(Selected)
  /\ fileName' = Selected
  /\ UNCHANGED <<found, attributes, handle, notified, endEvent, tabVars,
                 statusVars, threadVars, boundVars, protected, missed>>

GetAttributes ==
  /\ ui = "look" /\ ui' = "store"
  /\ found' = protected[fileName]
  /\ UNCHANGED <<sameDirectory, tabVars, statusVars, watchVars, threadVars,
                 boundVars, protected, missed>>

(* The result of UpdateFileAttributes is not used: a change since the        *)
(* editor was told is noticed by nobody.  What the window stores may also be *)
(* older than what the thread has found since, and is compared in its place. *)
StoreAttributes ==
  /\ ui = "store"
  /\ attributes' = found
  /\ missed' = \/ missed
               \/ found # readOnly[Selected]
               \/ found # protected[fileName] /\ ~notified /\ watcher \in {"wait", "compare"}
  /\ ui' = IF sameDirectory /\ handle # None THEN "idle"
           ELSE IF watcher # "none" THEN "end" ELSE "watch"
  /\ UNCHANGED <<sameDirectory, found, fileName, handle, notified, endEvent,
                 tabVars, statusVars, threadVars, boundVars, protected>>

(* EndThread: the event is set, and the thread waited for.                   *)
SetThreadEndEvent ==
  /\ ui = "end" /\ ui' = "wait"
  /\ endEvent' = TRUE
  /\ UNCHANGED <<sameDirectory, found, fileName, attributes, handle, notified,
                 tabVars, statusVars, threadVars, boundVars, protected, missed>>

ThreadHasEnded ==
  /\ ui = "wait" /\ watcher = "none"
  /\ ui' = "watch"
  /\ UNCHANGED <<sameDirectory, found, tabVars, statusVars, watchVars,
                 threadVars, boundVars, protected, missed>>

(* The notification of the directory is asked for only after the attributes  *)
(* were read.                                                                *)
StartWatching ==
  /\ ui = "watch" /\ ui' = "idle"
  /\ handle' = Directory[fileName]
  /\ notified' = FALSE
  /\ watcher' = "wait"
  /\ missed' = (missed \/ protected[fileName] # attributes)
  /\ UNCHANGED <<sameDirectory, found, fileName, attributes, endEvent, saw,
                 tabVars, statusVars, boundVars, protected>>

-----------------------------------------------------------------------------
(* The thread.  It reads the old attributes, looks at the file, stores and   *)
(* compares in steps of their own, as nothing keeps the window away.         *)

(* WaitForMultipleObjects takes the directory before the event.              *)
WatcherWakes ==
  /\ watcher = "wait" /\ notified
  /\ notified' = FALSE
  /\ watcher' = "read"
  /\ UNCHANGED <<saw, fileName, attributes, handle, endEvent, tabVars,
                 statusVars, handlerVars, boundVars, protected, missed>>

(* Mutant: the end is looked for only when the directory changed.            *)
NoticesEndLate == endEvent /\ notified

NoticesEnd == endEvent /\ ~notified

WatcherEnds ==
  /\ watcher = "wait" /\ NoticesEnd
  /\ endEvent' = FALSE
  /\ watcher' = "none"
  /\ UNCHANGED <<saw, fileName, attributes, handle, notified, tabVars,
                 statusVars, handlerVars, boundVars, protected, missed>>

WatcherReads ==
  /\ watcher = "read" /\ watcher' = "look"
  /\ saw' = [saw EXCEPT !.old = attributes]
  /\ UNCHANGED <<tabVars, statusVars, watchVars, handlerVars, boundVars,
                 protected, missed>>

WatcherLooks ==
  /\ watcher = "look" /\ watcher' = "store"
  /\ saw' = [saw EXCEPT !.file = fileName, !.new = protected[fileName]]
  /\ UNCHANGED <<tabVars, statusVars, watchVars, handlerVars, boundVars,
                 protected, missed>>

(* What it stores may be of the file that was selected when it looked, and   *)
(* what it compares it with may not be what it replaces.                     *)
WatcherStores ==
  /\ watcher = "store" /\ watcher' = "compare"
  /\ attributes' = saw.new
  /\ missed' = (missed \/ saw.file # fileName \/ attributes # saw.old)
  /\ UNCHANGED <<saw, fileName, handle, notified, endEvent, tabVars, statusVars,
                 handlerVars, boundVars, protected>>

WatcherCompares ==
  /\ watcher = "compare" /\ watcher' = "wait"
  /\ fileEvents' = IF attributes # saw.old THEN fileEvents + 1 ELSE fileEvents
  /\ saw' = NothingSeen
  /\ UNCHANGED <<readOnly, tabVars, watchVars, handlerVars, boundVars,
                 protected, missed>>

(* What the thread has found so far.                                         *)
Known == IF watcher = "store" THEN saw.new ELSE attributes

(* OnFileEvent: the selected file is looked at, whichever the event names.   *)
(* When the window sees a change that the thread has still to look for, and  *)
(* the change is taken back before it does, nothing compares the two.        *)
OnFileEvent ==
  /\ Idle /\ fileEvents > 0
  /\ fileEvents' = fileEvents - 1
  /\ UpdateDocumentReadOnlyStatus
  /\ missed' = (missed \/ (selection # 0 /\ protected[Selected] # Known))
  /\ UNCHANGED <<tabVars, watchVars, threadVars, handlerVars, boundVars,
                 protected>>

(* Another program changes the attribute of a file.                          *)
AttributeChanges(file) ==
  /\ changes < MaxChanges /\ changes' = changes + 1
  /\ protected' = [protected EXCEPT ![file] = ~@]
  /\ notified' = (notified \/ handle = Directory[file])
  /\ UNCHANGED <<operations, fileName, attributes, handle, endEvent, tabVars,
                 statusVars, threadVars, handlerVars, missed>>

HandlerStep ==
  \/ ShowStatus \/ SetFileName \/ GetAttributes \/ StoreAttributes
  \/ SetThreadEndEvent \/ ThreadHasEnded \/ StartWatching
WatcherStep ==
  \/ WatcherWakes \/ WatcherEnds
  \/ WatcherReads \/ WatcherLooks \/ WatcherStores \/ WatcherCompares
UserStep ==
  \/ \E f \in Files : OpenFromProject(f)
  \/ \E p \in DOMAIN openFiles : ClickTab(p) \/ CloseDocument(p) \/ DeleteProjectFile(p)
  \/ PageThroughTabs

-----------------------------------------------------------------------------

(* The values the variables can have.                                        *)
FilesTypeOK ==
  /\ openFiles \in Seq(Files) /\ recent \in Seq(Files)
  /\ selection \in 0 .. Len(openFiles)
  /\ tabOrder \in Seq(Nat) /\ tabOrderIndex \in Nat
  /\ readOnly \in [Files -> BOOLEAN] /\ protected \in [Files -> BOOLEAN]
  /\ ui \in {"idle", "status", "name", "look", "store", "end", "wait", "watch"}
  /\ found \in BOOLEAN \cup {None} /\ attributes \in BOOLEAN \cup {None}
  /\ fileName \in Files \cup {None} /\ handle \in Directories \cup {None}
  /\ {sameDirectory, notified, endEvent, missed} \subseteq BOOLEAN
  /\ watcher \in {"none", "wait", "read", "look", "store", "compare"}
  /\ saw \in [file : Files \cup {None}, old : BOOLEAN \cup {None},
              new : BOOLEAN \cup {None}]
  /\ fileEvents \in Nat

(* SetMostRecentlyUsedPage, RemovePageFromTabOrder (MainFrame.h:1335): the   *)
(* page numbers of the tab order, renumbered at every close, name each open  *)
(* file once, in the order the files were used.                              *)
TabOrderIsRecency ==
  /\ Len(tabOrder) = Len(openFiles)
  /\ \A i \in DOMAIN tabOrder : tabOrder[i] \in DOMAIN openFiles
  /\ recent = [i \in DOMAIN tabOrder |-> openFiles[tabOrder[i]]]

(* FileChangeWatcher and OnFileEvent: once nothing is under way, the editor  *)
(* of the selected file is read-only exactly when the file is - unless a     *)
(* change fell between two looks that nothing compares, the window and the   *)
(* thread stored over each other's attributes, or the window saw a change    *)
(* before the thread did.                                                    *)
StatusIsCurrent ==
  (selection # 0 /\ Idle /\ watcher = "wait" /\ ~notified /\ fileEvents = 0 /\ ~missed)
    => readOnly[Selected] = protected[Selected]

(* FileChangeWatcher::EndThread: the window waits without a limit for the    *)
(* thread of the directory before, which always comes to its end.            *)
EndThreadReturns == (ui = "wait") ~> Idle

=============================================================================
