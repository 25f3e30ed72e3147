------------------------------- MODULE Window -------------------------------
(* The processes of the IDE that run at one time: the one whose window the   *)
(* user works in, and those Explorer starts with a file to open, which hand  *)
(* it to the window they find and end (SingleInstance.cpp, MainApp.cpp).     *)
(* They share a memory mapped file and a mutex; no mutex guards the window   *)
(* handle in it, nor the question whether the mapping is there.              *)
EXTENDS OpenFiles

CONSTANTS
  Main,             \* the process started without a file
  Senders,          \* those started with one
  FileOf            \* the file of each of them

Processes == {Main} \cup Senders

Places == {"start", "create", "map", "handle", "clear", "release", "connect",
           "send", "post", "done", "window"}

ASSUME WindowAssumption ==
  /\ Main \notin Senders /\ None \notin Processes
  /\ FileOf \in [Senders -> Files]

VARIABLES
  at,               \* where each process is in OnInit
  mapping,          \* the mapping was created
  hWnd,             \* Data::hWnd, a process or None
  command,          \* Data::commandLine: a file or None
  mutex,            \* "absent", "free" or the process that owns it
  target,           \* hWndPrev of each sender
  posted,           \* the Decoda_OpenFiles messages in each window's queue
  opening,          \* the files the main window's handler has still to open
  unread,           \* history: the command was not read yet
  overwritten,      \* history: files whose command was gone before it was read
  opened            \* history: files some window opened

instanceVars == <<at, mapping, hWnd, command, mutex, target, posted, opening,
                  unread, overwritten, opened>>
vars == <<fileVars, instanceVars>>

Init ==
  /\ FilesInit
  /\ at = [p \in Processes |-> "start"]
  /\ mapping = FALSE /\ hWnd = None /\ command = None /\ mutex = "absent"
  /\ target = [s \in Senders |-> None]
  /\ posted = [p \in Processes |-> 0]
  /\ opening = <<>>
  /\ unread = FALSE /\ overwritten = {} /\ opened = {}

GoTo(p, place) == at' = [at EXCEPT ![p] = place]

(* The process goes on with a window of its own and opens its file there.    *)
BecomesWindow(p) ==
  /\ GoTo(p, "window")
  /\ opened' = IF p = Main THEN opened ELSE opened \cup {FileOf[p]}

-----------------------------------------------------------------------------
(* SingleInstance::Connect.                                                  *)

OpenMapping(p) ==
  /\ at[p] = "start"
  /\ GoTo(p, IF mapping THEN "connect" ELSE "create")
  /\ UNCHANGED <<mapping, hWnd, command, mutex, target, posted, opening, unread,
                 overwritten, opened, fileVars>>

(* The mutex is owned by whoever creates it, not by who finds it there.      *)
CreateMutex(p) ==
  /\ at[p] = "create" /\ GoTo(p, "map")
  /\ mutex' = IF mutex = "absent" THEN p ELSE mutex
  /\ UNCHANGED <<mapping, hWnd, command, target, posted, opening, unread,
                 overwritten, opened, fileVars>>

(* CreateFileMapping opens a mapping that has appeared since.                *)
CreateMapping(p) ==
  /\ at[p] = "map" /\ GoTo(p, "handle")
  /\ mapping' = TRUE
  /\ UNCHANGED <<hWnd, command, mutex, target, posted, opening, unread,
                 overwritten, opened, fileVars>>

StoreHandle(p) ==
  /\ at[p] = "handle" /\ GoTo(p, "clear")
  /\ hWnd' = p
  /\ UNCHANGED <<mapping, command, mutex, target, posted, opening, unread,
                 overwritten, opened, fileVars>>

Lost == IF unread THEN {command} ELSE {}

ClearCommand(p) ==
  /\ at[p] = "clear" /\ GoTo(p, "release")
  /\ command' = None
  /\ overwritten' = overwritten \cup Lost /\ unread' = FALSE
  /\ UNCHANGED <<mapping, hWnd, mutex, target, posted, opening, opened, fileVars>>

ReleaseMutex(p) ==
  /\ at[p] = "release" /\ BecomesWindow(p)
  /\ mutex' = IF mutex = p THEN "free" ELSE mutex
  /\ UNCHANGED <<mapping, hWnd, command, target, posted, opening, unread,
                 overwritten, fileVars>>

(* Mutant: whoever finds the mapping takes it that there is a window.        *)
SendsToAny(p) == p \in Senders

(* OnInit hands its files over only to a window whose handle it was given;   *)
(* the creator may not have stored it yet.                                   *)
SendsFile(p) == p \in Senders /\ hWnd # None

Connect(p) ==
  /\ at[p] = "connect"
  /\ IF SendsFile(p)
     THEN /\ GoTo(p, "send") /\ target' = [target EXCEPT ![p] = hWnd]
          /\ UNCHANGED opened
     ELSE BecomesWindow(p) /\ UNCHANGED target
  /\ UNCHANGED <<mapping, hWnd, command, mutex, posted, opening, unread,
                 overwritten, fileVars>>

-----------------------------------------------------------------------------
(* The command.                                                              *)

(* SetCommand, in the mutex: the command there was is overwritten.           *)
SetCommand(s) ==
  /\ at[s] = "send" /\ GoTo(s, "post")
  /\ mutex = "free"
  /\ command' = FileOf[s]
  /\ overwritten' = overwritten \cup Lost /\ unread' = TRUE
  /\ UNCHANGED <<mapping, hWnd, mutex, target, posted, opening, opened, fileVars>>

(* PostMessage to no window is to no one.                                    *)
Post(s) ==
  /\ at[s] = "post" /\ GoTo(s, "done")
  /\ posted' = IF target[s] = None THEN posted
               ELSE [posted EXCEPT ![target[s]] = @ + 1]
  /\ UNCHANGED <<mapping, hWnd, command, mutex, target, opening, unread,
                 overwritten, opened, fileVars>>

Ready(p) == at[p] = "window" /\ (p = Main => Idle /\ opening = <<>>)

(* MSWProcessMessage: GetCommand, and the files are opened one by one.       *)
OnOpenFiles(p) ==
  /\ Ready(p)
  /\ posted[p] > 0 /\ posted' = [posted EXCEPT ![p] = @ - 1]
  /\ mutex = "free"
  /\ unread' = FALSE
  /\ IF p = Main
     THEN /\ opening' = IF command = None THEN <<>> ELSE <<command>>
          /\ UNCHANGED opened
     ELSE /\ opened' = opened \cup ({command} \ {None})
          /\ UNCHANGED opening
  /\ UNCHANGED <<at, mapping, hWnd, command, mutex, target, overwritten, fileVars>>

OpenNext ==
  /\ Idle /\ opening # <<>>
  /\ OpenDocument(Head(opening))
  /\ opening' = Tail(opening)
  /\ opened' = opened \cup {Head(opening)}
  /\ UNCHANGED <<at, mapping, hWnd, command, mutex, target, posted, unread,
                 overwritten, statusVars, watchVars, threadVars, boundVars,
                 protected, missed>>

-----------------------------------------------------------------------------

InstanceStep(p) ==
  \/ OpenMapping(p) \/ CreateMutex(p) \/ CreateMapping(p) \/ StoreHandle(p)
  \/ ClearCommand(p) \/ ReleaseMutex(p) \/ Connect(p) \/ OnOpenFiles(p)

SenderStep(s) == SetCommand(s) \/ Post(s)

(* Bound: nobody else acts in the middle of a process's start; its messages  *)
(* may wait in the queue meanwhile.                                          *)
NobodyStarts == \A p \in Processes : at[p] \in {"start", "done", "window"}

(* The main window works once it is there; the message handler opens its     *)
(* files before the user or an event gets the window's attention.            *)
WindowStep ==
  /\ at[Main] = "window"
  /\ \/ HandlerStep \/ WatcherStep
     \/ opening = <<>> /\ (PagingEnds \/ OnFileEvent)
     \/ NobodyStarts /\ \E f \in Files : AttributeChanges(f)
     \/ NobodyStarts /\ opening = <<>> /\ UserStep
  /\ UNCHANGED instanceVars

Next ==
  \/ \E p \in Processes : InstanceStep(p)
  \/ \E s \in Senders : SenderStep(s)
  \/ OpenNext
  \/ WindowStep

Spec == Init /\ [][Next]_vars

FairSpec ==
  /\ Spec
  /\ WF_vars(HandlerStep /\ UNCHANGED instanceVars)
  /\ WF_vars(WatcherStep /\ UNCHANGED instanceVars)

-----------------------------------------------------------------------------

(* The values the variables can have.                                        *)
TypeOK ==
  /\ FilesTypeOK
  /\ at \in [Processes -> Places]
  /\ {mapping, unread} \subseteq BOOLEAN
  /\ hWnd \in Processes \cup {None} /\ command \in Files \cup {None}
  /\ mutex \in Processes \cup {"absent", "free"}
  /\ target \in [Senders -> Processes \cup {None}]
  /\ posted \in [Processes -> Nat]
  /\ opening \in Seq(Files)
  /\ overwritten \subseteq Files \cup {None} /\ opened \subseteq Files

(* MainApp::OnInit "Send the command line to the other window"               *)
(* (MainApp.cpp:120): when every message has been handled, a file given to a *)
(* process that ended was opened by some window, unless its command was      *)
(* overwritten by that of another process, or cleared by a process that      *)
(* started at the same time, before it was read.                             *)
FilesAreOpened ==
  (NobodyStarts /\ opening = <<>> /\ \A p \in Processes : posted[p] = 0)
    => \A s \in Senders : at[s] # "start" => FileOf[s] \in opened \cup overwritten

=============================================================================
