------------------------ MODULE SymbolParsingProofs ------------------------
(***************************************************************************)
(* Theorems about SymbolParsing: types, wake-ups, the silence after Stop,  *)
(* and that symbols reach the file they were parsed for.                   *)
(***************************************************************************)
EXTENDS SymbolParsing, SequenceTheorems, TLAPS

\* Where the thread holds headLock, from the locker of line 81 to its end.
Holding == {"parse", "last", "post", "free"}

LocksInv ==
    /\ worker \in Holding <=> headLock = "worker"
    /\ worker = "head" <=> itemsLock = "worker"
    /\ worker \in Holding => head \in Items
    /\ worker = "head" => items # <<>>
    /\ worker \in {"last", "post"} => handler

QueueInv ==
    /\ toQueue \in Seq(DOMAIN files)
    /\ window \in {"queue", "signal"} <=> toQueue # <<>>

\* NoLostWakeup, from the moment the thread found the queue empty.
WakeupInv ==
    worker \in {"test", "wait"} /\ itemsAvailable = 0
        => items = <<>> \/ window = "signal"

ParsingInv == TypeOK /\ LocksInv /\ QueueInv /\ WakeupInv

-----------------------------------------------------------------------------

LEMMA SeqLast ==
    ASSUME NEW S, NEW s \in Seq(S), s # <<>>
    PROVE  Last(s) \in S /\ Front(s) \in Seq(S)
BY DEF Last, Front

LEMMA SeqTail ==
    ASSUME NEW S, NEW s \in Seq(S), s # <<>>
    PROVE  /\ Head(s) \in S /\ Tail(s) \in Seq(S)
           /\ Len(s) = 1 <=> Tail(s) = <<>>
<1>1. Head(s) \in S /\ Tail(s) \in Seq(S) /\ Len(Tail(s)) = Len(s) - 1
  BY HeadTailProperties
<1>2. Len(Tail(s)) = 0 <=> Tail(s) = <<>>
  BY <1>1, EmptySeq
<1> QED
  BY <1>1, <1>2, LenProperties

LEMMA InitHolds == Init => ParsingInv
<1> SUFFICES ASSUME Init PROVE ParsingInv
  OBVIOUS
<1> USE ParsingAssumption, NoneIsNoValue
<1>1. disk \in [Paths -> 0 .. MaxVersion]
  BY DEF Init
<1>2. DOMAIN NoFiles = {}
  BY DEF NoFiles
<1>3. TypeOK
  <2>1. items \in Seq(Items) /\ parsed \in Seq(Events) /\ forwarded \in Seq(Events)
        /\ toQueue \in Seq(FileIds)
    BY DEF Init
  <2>2. /\ DOMAIN files = {} /\ DOMAIN tree = {} /\ DOMAIN completions = {}
    BY <1>2 DEF Init
  <2>3. 0 \in 0 .. MaxFileId
    OBVIOUS
  <2>4. /\ DOMAIN files \subseteq 1 .. lastFileId
        /\ DOMAIN tree = DOMAIN files /\ DOMAIN completions \subseteq 1 .. lastFileId
        /\ \A f \in DOMAIN files : files[f] \in Files
        /\ \A f \in DOMAIN tree : tree[f] \in Texts \cup {None}
        /\ \A f \in DOMAIN completions : completions[f] \in Texts \cup {None}
    BY <2>2
  <2>5. /\ worker = "test" /\ window = "idle"
        /\ itemsLock = None /\ headLock = None /\ head = None
        /\ itemsAvailable = 0 /\ lastFileId = 0
    BY DEF Init
  <2>6. /\ handler \in BOOLEAN /\ exit \in BOOLEAN
        /\ isLast \in BOOLEAN /\ waiting \in BOOLEAN
    BY Zenon DEF Init
  <2> QED
    BY <1>1, <2>1, <2>3, <2>4, <2>5, <2>6 DEF TypeOK
<1> QED
  BY <1>3 DEF Init, ParsingInv, TypeOK, LocksInv, QueueInv, WakeupInv, NoFiles,
             Holding, Threads

\* A step of the parser thread changes nothing of the window but appends events.
LEMMA WorkerStep ==
    ASSUME ParsingInv, Worker
    PROVE  ParsingInv'
<1> USE ParsingAssumption, NoneIsNoValue
        DEF ParsingInv, LocksInv, QueueInv, WakeupInv, Holding, Threads
<1>1. CASE TestExit
  BY <1>1 DEF TestExit, TypeOK, shared, events, project, views
<1>2. CASE WaitForItems
  BY <1>2 DEF WaitForItems, TypeOK, shared, events, project, views
<1>3. CASE LookForItem
  BY <1>3 DEF LookForItem, TypeOK, shared, events, project, views
<1>4. CASE TakeItem
  <2>1. Last(items) \in Items /\ Front(items) \in Seq(Items)
    BY <1>4, SeqLast DEF TakeItem, TypeOK
  <2> QED
    BY <1>4, <2>1 DEF TakeItem, TypeOK, shared, events, project, views
<1>5. CASE Parse
  BY <1>5 DEF Parse, TypeOK, shared, events, project, views
<1>6. CASE AskIfLast
  BY <1>6 DEF AskIfLast, TypeOK, shared, events, project, views
<1>7. CASE PostSymbols
  <2>1. [fileId |-> head.fileId, symbols |-> head.code, isFinal |-> isLast] \in Events
    BY <1>7 DEF PostSymbols, TypeOK, Items, Events
  <2>2. parsed' \in Seq(Events)
    BY <1>7, <2>1, AppendProperties DEF PostSymbols, TypeOK
  <2> QED
    BY <1>7, <2>2 DEF PostSymbols, TypeOK, shared, events, project, views
<1>8. CASE FreeItem
  BY <1>8 DEF FreeItem, TypeOK, shared, events, project, views
<1>9. CASE ClearItems
  BY <1>9 DEF ClearItems, TypeOK, shared, events, project, views
<1> QED
  BY <1>1, <1>2, <1>3, <1>4, <1>5, <1>6, <1>7, <1>8, <1>9 DEF Worker

\* What PushItem queues is a text: of the script, or of a file that is on disk.
LEMMA CodeIsText ==
    ASSUME TypeOK, NEW f \in DOMAIN files, IsParsed(f)
    PROVE  CodeOf(f) \in Texts
<1>1. files[f] \in Files /\ disk[files[f].path] \in 0 .. MaxVersion
  BY DEF TypeOK, Files
<1>2. CASE files[f].script # None
  BY <1>1, <1>2 DEF CodeOf, Files
<1>3. CASE files[f].script = None
  <2>1. disk[files[f].path] \in 1 .. MaxVersion
    BY <1>1, <1>3, ParsingAssumption DEF IsParsed
  <2>2. CodeOf(f) = [path |-> files[f].path, version |-> disk[files[f].path]]
    BY <1>3 DEF CodeOf
  <2> QED
    BY <1>1, <2>1, <2>2 DEF Files, Texts
<1> QED
  BY <1>2, <1>3

LEMMA QueueingStep ==
    ASSUME ParsingInv, Queueing
    PROVE  ParsingInv'
<1> USE ParsingAssumption, NoneIsNoValue
        DEF ParsingInv, LocksInv, QueueInv, WakeupInv, Holding, Threads
<1>0. /\ Head(toQueue) \in DOMAIN files /\ Tail(toQueue) \in Seq(DOMAIN files)
      /\ Len(toQueue) = 1 <=> Tail(toQueue) = <<>>
      /\ toQueue # <<>>
  BY SeqTail DEF Queueing, SkipFile, PushItem, SignalItem
<1>a. Head(toQueue) \in FileIds /\ Tail(toQueue) \in Seq(FileIds)
  BY SeqTail, <1>0 DEF TypeOK
<1>1. CASE SkipFile
  BY <1>0, <1>1, <1>a DEF SkipFile, TypeOK, shared, local, events, project, views
<1>2. CASE PushItem
  <2>1. CodeOf(Head(toQueue)) \in Texts
    <3>1. IsParsed(Head(toQueue))
      BY <1>2 DEF PushItem
    <3> QED
      BY <1>0, <3>1, CodeIsText
  <2>2. Head(toQueue) \in FileIds
    BY <1>a
  <2>3. [fileId |-> Head(toQueue), code |-> CodeOf(Head(toQueue))] \in Items
    BY <2>1, <2>2 DEF Items
  <2>4. items' \in Seq(Items) /\ items' # <<>>
    <3> DEFINE item == [fileId |-> Head(toQueue), code |-> CodeOf(Head(toQueue))]
    <3>1. items \in Seq(Items) /\ item \in Items
      BY <2>3 DEF TypeOK
    <3>2. items' = Append(items, item)
      BY <1>2 DEF PushItem
    <3> HIDE DEF item
    <3>3. Append(items, item) \in Seq(Items) /\ Append(items, item) # <<>>
      BY <3>1, AppendProperties
    <3> QED
      BY <3>2, <3>3
  <2> QED
    BY <1>0, <1>2, <2>4 DEF PushItem, TypeOK, local, events, project, views
<1>3. CASE SignalItem
  BY <1>0, <1>3, <1>a DEF SignalItem, TypeOK, shared, local, events, project, views
<1> QED
  BY <1>1, <1>2, <1>3 DEF Queueing

LEMMA StoppingStep ==
    ASSUME ParsingInv, Stopping \/ Closed
    PROVE  ParsingInv'
<1> USE ParsingAssumption, NoneIsNoValue
        DEF ParsingInv, LocksInv, QueueInv, WakeupInv, Holding, Threads
<1>1. CASE ClearHandler
  BY <1>1 DEF ClearHandler, TypeOK, shared, local, events, project, views
<1>2. CASE TellToExit
  BY <1>2 DEF TellToExit, TypeOK, shared, local, events, project, views
<1>3. CASE Join
  BY <1>3 DEF Join, TypeOK, shared, local, events, project, views
<1>4. CASE Closed
  BY <1>4 DEF Closed, vars, TypeOK, shared, local, events, project, views
<1> QED
  BY <1>1, <1>2, <1>3, <1>4 DEF Stopping

LEMMA DispatchingStep ==
    ASSUME ParsingInv, Dispatching
    PROVE  ParsingInv'
<1> USE ParsingAssumption, NoneIsNoValue
        DEF ParsingInv, LocksInv, QueueInv, WakeupInv, Holding, Threads
<1>1. CASE ParserOnSymbolsParsed
  <2>1. Head(parsed) \in Events /\ Tail(parsed) \in Seq(Events)
    BY <1>1, SeqTail DEF ParserOnSymbolsParsed, TypeOK
  <2>2. DOMAIN files' = DOMAIN files
    BY <1>1 DEF ParserOnSymbolsParsed
  <2>3. \A f \in DOMAIN files' : files'[f] \in Files
    <3>1. CASE Head(parsed).fileId \in DOMAIN files
      <4>1. files' = [files EXCEPT ![Head(parsed).fileId].symbols = Head(parsed).symbols]
        BY <1>1, <3>1 DEF ParserOnSymbolsParsed
      <4>2. Head(parsed).symbols \in Texts
        BY <2>1 DEF Events
      <4>3. ASSUME NEW f \in DOMAIN files
            PROVE  files'[f] \in Files
        <5>1. files[f] \in Files
          BY DEF TypeOK
        <5>2. \/ files'[f] = files[f]
              \/ files'[f] = [files[f] EXCEPT !.symbols = Head(parsed).symbols]
          BY <4>1
        <5> QED
          BY <4>2, <5>1, <5>2 DEF Files
      <4> QED
        BY <2>2, <4>3
    <3>2. CASE Head(parsed).fileId \notin DOMAIN files
      BY <1>1, <3>2 DEF ParserOnSymbolsParsed, TypeOK
    <3> QED
      BY <3>1, <3>2
  <2>4. forwarded' \in Seq(Events)
    <3>1. \/ forwarded' = Append(forwarded, Head(parsed))
          \/ forwarded' = forwarded
      BY <1>1 DEF ParserOnSymbolsParsed
    <3>2. forwarded \in Seq(Events)
      BY DEF TypeOK
    <3>3. Append(forwarded, Head(parsed)) \in Seq(Events)
      BY <2>1, <3>2, AppendProperties
    <3> QED
      BY <3>1, <3>2, <3>3
  <2> QED
    BY <1>1, <2>1, <2>2, <2>3, <2>4
    DEF ParserOnSymbolsParsed, TypeOK, shared, local, events, project, views
<1>2. CASE FrameOnSymbolsParsed
  <2>1. Head(forwarded) \in Events /\ Tail(forwarded) \in Seq(Events)
    BY <1>2, SeqTail DEF FrameOnSymbolsParsed, TypeOK
  <2>2. /\ DOMAIN SymbolsOf(files) = DOMAIN files
        /\ \A f \in DOMAIN files : SymbolsOf(files)[f] \in Texts \cup {None}
    BY DEF SymbolsOf, TypeOK, Files
  <2>3. /\ DOMAIN tree' = DOMAIN files
        /\ \A f \in DOMAIN files : tree'[f] \in Texts \cup {None}
    BY <1>2, <2>1, <2>2 DEF FrameOnSymbolsParsed, views, TypeOK, Files
  <2>4. /\ DOMAIN completions' \subseteq 1 .. lastFileId
        /\ \A f \in DOMAIN completions' : completions'[f] \in Texts \cup {None}
    BY <1>2, <2>1, <2>2 DEF FrameOnSymbolsParsed, views, TypeOK
  <2>5. waiting' \in BOOLEAN
    BY <1>2 DEF FrameOnSymbolsParsed, views, TypeOK
  <2> QED
    BY <1>2, <2>1, <2>3, <2>4, <2>5
    DEF FrameOnSymbolsParsed, TypeOK, shared, local, events, project
<1> QED
  BY <1>1, <1>2 DEF Dispatching

\* What the window's handlers leave in the project and its views.
ProjectTypes ==
    /\ DOMAIN files \subseteq 1 .. lastFileId
    /\ \A f \in DOMAIN files : files[f] \in Files
    /\ lastFileId \in 0 .. MaxFileId
    /\ disk \in [Paths -> 0 .. MaxVersion]
    /\ DOMAIN tree = DOMAIN files /\ DOMAIN completions \subseteq 1 .. lastFileId
    /\ \A f \in DOMAIN tree : tree[f] \in Texts \cup {None}
    /\ \A f \in DOMAIN completions : completions[f] \in Texts \cup {None}
    /\ waiting \in BOOLEAN
    /\ toQueue \in Seq(FileIds)
    /\ window \in {"idle", "queue", "signal", "stop", "exit", "join", "closed"}

\* A handler leaves the thread and the events alone, so that its project is all
\* there is to look at.
LEMMA HandlerStep ==
    ASSUME ParsingInv, ProjectTypes', QueueInv', window = "idle",
           UNCHANGED <<shared, local, events>>
    PROVE  ParsingInv'
<1> USE DEF ParsingInv, shared, local, events
<1>1. TypeOK'
  BY DEF TypeOK, ProjectTypes
<1>2. LocksInv'
  BY DEF LocksInv
<1>3. WakeupInv'
  BY DEF WakeupInv
<1> QED
  BY <1>1, <1>2, <1>3

LEMMA SetProjectStep ==
    ASSUME ParsingInv, NEW s \in Seq(Paths), NEW saved \in BOOLEAN,
           SetProject(s, saved)
    PROVE  ParsingInv'
<1> USE ParsingAssumption DEF ParsingInv
<1> DEFINE new == lastFileId + 1 .. lastFileId + Len(s)
           fs == [f \in new |-> NewFile(s[f - lastFileId],
                                        s[f - lastFileId] \in LuaPaths, FALSE, None)]
<1>1. lastFileId \in Nat /\ Len(s) \in Nat /\ lastFileId + Len(s) <= MaxFileId
  BY LenProperties DEF TypeOK, SetProject
<1>2. files' = fs /\ lastFileId' = lastFileId + Len(s)
  BY DEF SetProject
<1>3. \A f \in new : fs[f] \in Files
  <2>1. ASSUME NEW f \in new PROVE fs[f] \in Files
    <3>1. f - lastFileId \in 1 .. Len(s)
      BY <1>1
    <3>2. s[f - lastFileId] \in Paths
      BY <3>1, ElementOfSeq
    <3>3. (s[f - lastFileId] \in LuaPaths) \in BOOLEAN
      OBVIOUS
    <3>4. fs[f] = NewFile(s[f - lastFileId], s[f - lastFileId] \in LuaPaths, FALSE, None)
      OBVIOUS
    <3> QED
      BY <3>2, <3>3, <3>4 DEF NewFile, Files
  <2> QED
    BY <2>1
<1>4. /\ DOMAIN files' = new
      /\ \A f \in new : files'[f] \in Files
  BY <1>2, <1>3
<1>5. /\ DOMAIN SymbolsOf(files') = new
      /\ \A f \in new : SymbolsOf(files')[f] \in Texts \cup {None}
  BY <1>4 DEF SymbolsOf, Files
<1>6. /\ toQueue' = [i \in 1 .. Len(s) |-> lastFileId + i]
      /\ toQueue' \in Seq(new) /\ Len(toQueue') = Len(s)
  BY <1>1 DEF SetProject, StartQueueing
<1>7. toQueue' \in Seq(FileIds)
  BY <1>1, <1>6 DEF FileIds
<1>8. window' = IF toQueue' = <<>> THEN "idle" ELSE "queue"
  BY DEF SetProject, StartQueueing
<1>9. QueueInv'
  BY <1>4, <1>6, <1>8 DEF QueueInv
<1>10. waiting' \in BOOLEAN
  BY DEF SetProject
<1>11. tree' = SymbolsOf(files') /\ completions' = SymbolsOf(files') /\ disk' = disk
  BY DEF SetProject
<1>12. new \subseteq 1 .. lastFileId' /\ lastFileId' \in 0 .. MaxFileId
  BY <1>1, <1>2
<1>13. disk \in [Paths -> 0 .. MaxVersion]
  BY DEF TypeOK
<1>14. ProjectTypes'
  BY <1>4, <1>5, <1>7, <1>8, <1>10, <1>11, <1>12, <1>13 DEF ProjectTypes
<1> QED
  BY <1>9, <1>14, HandlerStep DEF SetProject

LEMMA AddFileStep ==
    ASSUME ParsingInv, NEW file \in Files, file.symbols = None, window = "idle",
           AddFile(file), UNCHANGED <<shared, local, events, disk, waiting>>
    PROVE  ParsingInv'
<1> USE ParsingAssumption DEF ParsingInv
<1>1. /\ lastFileId \in Nat /\ lastFileId' = lastFileId + 1
      /\ lastFileId' \in 1 .. MaxFileId
  BY DEF AddFile, TypeOK
<1>2. /\ DOMAIN files' = DOMAIN files \cup {lastFileId'}
      /\ \A f \in DOMAIN files' : files'[f] \in Files
  BY DEF AddFile, TypeOK
<1>3. /\ DOMAIN SymbolsOf(files') = DOMAIN files'
      /\ \A f \in DOMAIN files' : SymbolsOf(files')[f] \in Texts \cup {None}
  BY <1>2 DEF SymbolsOf, Files
<1>4. /\ DOMAIN tree' = DOMAIN files'
      /\ \A f \in DOMAIN files' : tree'[f] \in Texts \cup {None}
  BY <1>2 DEF AddFile, TypeOK
<1>5. toQueue' = <<lastFileId'>> /\ window' = "queue"
  BY DEF AddFile, StartQueueing
<1>6. toQueue' \in Seq(FileIds) /\ toQueue' \in Seq(DOMAIN files') /\ toQueue' # <<>>
  BY <1>1, <1>2, <1>5 DEF FileIds
<1>7. QueueInv'
  BY <1>5, <1>6 DEF QueueInv
<1>8. DOMAIN files' \subseteq 1 .. lastFileId'
  BY <1>1, <1>2 DEF TypeOK
<1>9. completions' = SymbolsOf(files')
  BY DEF AddFile
<1>10. disk \in [Paths -> 0 .. MaxVersion] /\ waiting \in BOOLEAN
  BY DEF TypeOK
<1>11. lastFileId' \in 0 .. MaxFileId
  BY <1>1
<1>12. ProjectTypes'
  BY <1>2, <1>3, <1>4, <1>5, <1>6, <1>8, <1>9, <1>10, <1>11 DEF ProjectTypes
<1> QED
  BY <1>7, <1>12, HandlerStep

LEMMA AddExistingFileStep ==
    ASSUME ParsingInv, AddExistingFile PROVE ParsingInv'
<1>1. PICK p \in Paths, temporary \in BOOLEAN :
        AddFile(NewFile(p, p \in LuaPaths, temporary, None))
  BY DEF AddExistingFile
<1>2. (p \in LuaPaths) \in BOOLEAN
  OBVIOUS
<1>3. /\ NewFile(p, p \in LuaPaths, temporary, None) \in Files
      /\ NewFile(p, p \in LuaPaths, temporary, None).symbols = None
  BY <1>2 DEF NewFile, Files
<1> QED
  BY <1>1, <1>3, AddFileStep DEF AddExistingFile

LEMMA RemoveFileStep ==
    ASSUME ParsingInv, RemoveFile PROVE ParsingInv'
<1> USE DEF ParsingInv
<1>1. PICK f \in DOMAIN files :
        /\ files' = [g \in DOMAIN files \ {f} |-> files[g]]
        /\ tree' = [g \in DOMAIN files \ {f} |-> tree[g]]
  BY DEF RemoveFile
<1>2. window = "idle" /\ toQueue = <<>> /\ toQueue' = toQueue /\ window' = window
  BY DEF RemoveFile, QueueInv
<1>3. QueueInv'
  BY <1>2 DEF QueueInv
<1>4. ProjectTypes'
  BY <1>1, <1>2 DEF RemoveFile, ProjectTypes, TypeOK
<1> QED
  BY <1>3, <1>4, HandlerStep DEF RemoveFile

LEMMA SaveFileStep ==
    ASSUME ParsingInv, SaveFile PROVE ParsingInv'
<1> USE ParsingAssumption DEF ParsingInv
<1>1. PICK f \in DOMAIN files :
        /\ disk[files[f].path] \in 1 .. MaxVersion - 1
        /\ disk' = [disk EXCEPT ![files[f].path] = @ + 1]
        /\ toQueue' = <<f>> /\ window' = "queue"
  BY DEF SaveFile, StartQueueing
<1>2. f \in FileIds
  BY DEF TypeOK, FileIds
<1>3. toQueue' \in Seq(FileIds) /\ toQueue' \in Seq(DOMAIN files) /\ toQueue' # <<>>
  BY <1>1, <1>2
<1>4. disk' \in [Paths -> 0 .. MaxVersion]
  <2>1. disk \in [Paths -> 0 .. MaxVersion] /\ files[f].path \in Paths
    BY DEF TypeOK, Files
  <2>2. disk[files[f].path] + 1 \in 0 .. MaxVersion
    BY <1>1, <2>1
  <2> QED
    BY <1>1, <2>1, <2>2
<1>5. QueueInv'
  BY <1>1, <1>3 DEF QueueInv, SaveFile
<1>6. ProjectTypes'
  BY <1>1, <1>3, <1>4 DEF SaveFile, ProjectTypes, TypeOK, views
<1> QED
  BY <1>5, <1>6, HandlerStep DEF SaveFile

LEMMA LoadScriptStep ==
    ASSUME ParsingInv, LoadScript PROVE ParsingInv'
<1> USE ParsingAssumption DEF ParsingInv
<1>a. PICK p \in Paths : \E v \in 1 .. disk[p] :
        \/ \E f \in DOMAIN files :
            /\ files' = [files EXCEPT ![f].script = [path |-> p, version |-> v]]
            /\ UNCHANGED <<window, toQueue, lastFileId, tree, completions>>
        \/ AddFile(NewFile(p, TRUE, TRUE, [path |-> p, version |-> v]))
  BY DEF LoadScript
<1>1. PICK v \in 1 .. disk[p] :
        \/ \E f \in DOMAIN files :
            /\ files' = [files EXCEPT ![f].script = [path |-> p, version |-> v]]
            /\ UNCHANGED <<window, toQueue, lastFileId, tree, completions>>
        \/ AddFile(NewFile(p, TRUE, TRUE, [path |-> p, version |-> v]))
  BY <1>a
<1> DEFINE source == [path |-> p, version |-> v]
<1>2. source \in Texts
  BY DEF TypeOK, Texts
<1>3. CASE AddFile(NewFile(p, TRUE, TRUE, source))
  <2>1. /\ NewFile(p, TRUE, TRUE, source) \in Files
        /\ NewFile(p, TRUE, TRUE, source).symbols = None
    BY <1>2 DEF NewFile, Files
  <2> QED
    BY <1>3, <2>1, AddFileStep DEF LoadScript
<1>4. ASSUME NEW f \in DOMAIN files,
             files' = [files EXCEPT ![f].script = source],
             UNCHANGED <<window, toQueue, lastFileId, tree, completions>>
      PROVE  ParsingInv'
  <2>1. DOMAIN files' = DOMAIN files
    BY <1>4
  <2>2. ASSUME NEW g \in DOMAIN files PROVE files'[g] \in Files
    <3>1. files[g] \in Files
      BY DEF TypeOK
    <3>2. files'[g] = files[g] \/ files'[g] = [files[g] EXCEPT !.script = source]
      BY <1>4
    <3> QED
      BY <1>2, <3>1, <3>2 DEF Files
  <2>3. QueueInv'
    BY <1>4, <2>1 DEF QueueInv
  <2>4. ProjectTypes'
    BY <1>4, <2>1, <2>2 DEF ProjectTypes, LoadScript, TypeOK
  <2> QED
    BY <2>3, <2>4, HandlerStep DEF LoadScript
<1> QED
  BY <1>1, <1>3, <1>4

LEMMA SessionEndStep ==
    ASSUME ParsingInv, SessionEnd PROVE ParsingInv'
<1> USE ParsingAssumption DEF ParsingInv
<1>1. PICK open \in SUBSET DOMAIN files :
        LET kept == {f \in DOMAIN files : f \in open \/ ~ files[f].temporary}
        IN  /\ files' = [f \in kept |-> [files[f] EXCEPT !.script = None]]
            /\ tree' = [f \in kept |-> tree[f]]
  BY DEF SessionEnd
<1> DEFINE kept == {f \in DOMAIN files : f \in open \/ ~ files[f].temporary}
<1>2. /\ DOMAIN files' = kept /\ DOMAIN tree' = kept
      /\ \A f \in kept : files'[f] = [files[f] EXCEPT !.script = None]
      /\ \A f \in kept : tree'[f] = tree[f]
  BY <1>1
<1>3. ASSUME NEW f \in kept PROVE files'[f] \in Files
  <2>1. files[f] \in Files /\ files'[f] = [files[f] EXCEPT !.script = None]
    BY <1>2 DEF TypeOK
  <2> QED
    BY <2>1 DEF Files
<1>4. toQueue = <<>> /\ toQueue' = toQueue /\ window' = window /\ window = "idle"
  BY DEF SessionEnd, QueueInv
<1>5. QueueInv'
  BY <1>4 DEF QueueInv
<1>6. ProjectTypes'
  BY <1>2, <1>3, <1>4 DEF ProjectTypes, SessionEnd, TypeOK
<1> QED
  BY <1>5, <1>6, HandlerStep DEF SessionEnd

LEMMA CloseWindowStep ==
    ASSUME ParsingInv, CloseWindow PROVE ParsingInv'
<1> USE ParsingAssumption DEF ParsingInv
<1>1. toQueue = <<>> /\ toQueue' = toQueue /\ window' = "stop"
  BY DEF CloseWindow, QueueInv
<1>2. DOMAIN files' = {} /\ DOMAIN tree' = {}
  BY DEF CloseWindow, NoFiles
<1>3. QueueInv'
  BY <1>1 DEF QueueInv
<1>4. ProjectTypes'
  BY <1>1, <1>2 DEF ProjectTypes, CloseWindow, TypeOK
<1> QED
  BY <1>3, <1>4, HandlerStep DEF CloseWindow

\* Every step preserves the invariant.
LEMMA ParsingInvStep ==
    ASSUME ParsingInv, [Next]_vars PROVE ParsingInv'
<1>1. CASE NewProject
  <2>1. <<>> \in Seq(Paths) /\ FALSE \in BOOLEAN
    OBVIOUS
  <2> QED
    BY <1>1, <2>1, SetProjectStep DEF NewProject
<1>2. CASE OpenProject
  BY <1>2, SetProjectStep, ParsingAssumption DEF OpenProject
<1>3. CASE UNCHANGED vars
  BY <1>3 DEF vars, ParsingInv, TypeOK, LocksInv, QueueInv, WakeupInv, shared, local,
              events, project, views
<1> QED
  BY <1>1, <1>2, <1>3, WorkerStep, QueueingStep, StoppingStep, DispatchingStep,
     AddExistingFileStep, RemoveFileStep, SaveFileStep, LoadScriptStep, SessionEndStep,
     CloseWindowStep DEF Next

THEOREM ParsingInvariant == Spec => []ParsingInv
<1>1. ParsingInv /\ [Next]_vars => ParsingInv'
  BY ParsingInvStep
<1> QED
  BY <1>1, InitHolds, PTL DEF Spec

-----------------------------------------------------------------------------

\* Items, events and files keep their types, whatever the order in which files are
\* added, removed and parsed.
THEOREM ParsingTypes == Spec => []TypeOK
<1>1. ParsingInv => TypeOK
  BY DEF ParsingInv
<1> QED
  BY <1>1, ParsingInvariant, PTL

\* The thread never sleeps on a queue that nobody is about to signal.
THEOREM NoWakeupLost == Spec => []NoLostWakeup
<1>1. ParsingInv => NoLostWakeup
  BY DEF ParsingInv, WakeupInv, NoLostWakeup
<1> QED
  BY <1>1, ParsingInvariant, PTL

\* Once Stop has cleared the event handler the thread posts nothing: it tests the
\* handler and posts under one hold of headLock.
THEOREM SilentAfterStop == Spec => NoEventAfterStop
<1>1. ASSUME ParsingInv, [Next]_vars, ~ handler
      PROVE  Len(parsed') <= Len(parsed)
  <2> USE <1>1 DEF ParsingInv
  <2>0. parsed \in Seq(Events) /\ Len(parsed) \in Nat
    BY LenProperties DEF TypeOK
  <2>1. CASE parsed' = parsed
    BY <2>0, <2>1
  <2>2. CASE PostSymbols
    BY <2>2 DEF PostSymbols, LocksInv
  <2>3. CASE ParserOnSymbolsParsed
    BY <2>0, <2>3, HeadTailProperties DEF ParserOnSymbolsParsed
  <2>4. CASE Join
    BY <2>0, <2>4 DEF Join
  <2>5. CASE UNCHANGED vars
    BY <2>1, <2>5 DEF vars, events
  <2>6. CASE Worker /\ ~ PostSymbols
    BY <2>1, <2>6 DEF Worker, TestExit, WaitForItems, LookForItem, TakeItem, Parse,
       AskIfLast, FreeItem, ClearItems, events
  <2>7. CASE Queueing
    BY <2>1, <2>7 DEF Queueing, SkipFile, PushItem, SignalItem, events
  <2>8. CASE ClearHandler \/ TellToExit \/ Closed
    BY <2>1, <2>8 DEF ClearHandler, TellToExit, Closed, vars, events
  <2>9. CASE FrameOnSymbolsParsed
    BY <2>1, <2>9 DEF FrameOnSymbolsParsed
  <2>10. CASE NewProject \/ OpenProject
    BY <2>1, <2>10 DEF NewProject, OpenProject, SetProject, events
  <2>11. CASE AddExistingFile \/ RemoveFile \/ SaveFile \/ LoadScript
              \/ SessionEnd \/ CloseWindow
    BY <2>1, <2>11 DEF AddExistingFile, RemoveFile, SaveFile, LoadScript,
       SessionEnd, CloseWindow, events
  <2> QED
    BY <2>2, <2>3, <2>4, <2>5, <2>6, <2>7, <2>8, <2>9, <2>10, <2>11
    DEF Next, Stopping, Dispatching
<1>2. ParsingInv /\ [Next]_vars => [~ handler => Len(parsed') <= Len(parsed)]_vars
  BY <1>1
<1> QED
  BY <1>2, ParsingInvariant, PTL DEF Spec, NoEventAfterStop

-----------------------------------------------------------------------------
(***************************************************************************)
(* Symbols reach their own file: what is on its way to a file was read     *)
(* from that file's path, and an id is never given out twice.              *)
(***************************************************************************)

Belongs(f, text) ==
    /\ f <= lastFileId
    /\ f \in DOMAIN files => text.path = files[f].path

Queued(item) == head = item \/ \E i \in DOMAIN items : items[i] = item

Posted(event) == \E i \in DOMAIN parsed : parsed[i] = event

ScriptsBelong ==
    \A f \in DOMAIN files :
        files[f].script # None => files[f].script.path = files[f].path

PathsInv ==
    /\ \A item \in Items : Queued(item) => Belongs(item.fileId, item.code)
    /\ \A event \in Events : Posted(event) => Belongs(event.fileId, event.symbols)
    /\ ScriptsBelong
    /\ SymbolsBelongToTheFile

\* A step keeps the ids it has given out: a file of the new project is an old file
\* under its old path, or has a new id.
IdsKept ==
    /\ lastFileId' >= lastFileId
    /\ \A f \in DOMAIN files' :
        \/ f > lastFileId
        \/ f \in DOMAIN files /\ files'[f].path = files[f].path

LEMMA BelongsKept ==
    ASSUME ParsingInv, ParsingInv', IdsKept, NEW f \in FileIds, NEW text,
           Belongs(f, text)
    PROVE  Belongs(f, text)'
<1> USE ParsingAssumption
<1>1. lastFileId \in Nat /\ lastFileId' \in Nat /\ f \in Nat
  BY DEF ParsingInv, TypeOK, FileIds
<1> QED
  BY <1>1 DEF Belongs, IdsKept

\* Every step keeps the ids.
LEMMA StepKeepsIds ==
    ASSUME ParsingInv, [Next]_vars PROVE IdsKept
<1> USE ParsingAssumption
<1>0. lastFileId \in Nat /\ DOMAIN files \subseteq 1 .. lastFileId
  BY DEF ParsingInv, TypeOK
<1>1. CASE UNCHANGED <<files, lastFileId>>
  BY <1>0, <1>1 DEF IdsKept
<1>2. ASSUME NEW s \in Seq(Paths), NEW saved, SetProject(s, saved) PROVE IdsKept
  <2>1. Len(s) \in Nat
    BY LenProperties
  <2>2. /\ lastFileId' = lastFileId + Len(s)
        /\ DOMAIN files' = lastFileId + 1 .. lastFileId + Len(s)
    BY <1>2 DEF SetProject
  <2> QED
    BY <1>0, <2>1, <2>2 DEF IdsKept
<1>3. ASSUME NEW file, AddFile(file) PROVE IdsKept
  <2>1. /\ lastFileId' = lastFileId + 1
        /\ DOMAIN files' = DOMAIN files \cup {lastFileId'}
        /\ \A f \in DOMAIN files : f # lastFileId' => files'[f] = files[f]
    BY <1>3 DEF AddFile
  <2> QED
    BY <1>0, <2>1 DEF IdsKept
<1>4. CASE NewProject
  <2>1. <<>> \in Seq(Paths)
    OBVIOUS
  <2> QED
    BY <1>2, <1>4, <2>1 DEF NewProject
<1>5. CASE OpenProject
  BY <1>2, <1>5 DEF OpenProject
<1>6. CASE AddExistingFile
  BY <1>3, <1>6 DEF AddExistingFile
<1>7. CASE RemoveFile
  BY <1>0, <1>7 DEF RemoveFile, IdsKept
<1>8. CASE LoadScript
  <2>1. PICK p \in Paths : \E v \in 1 .. disk[p] :
        \/ \E f \in DOMAIN files :
            /\ files' = [files EXCEPT ![f].script = [path |-> p, version |-> v]]
            /\ UNCHANGED <<window, toQueue, lastFileId, tree, completions>>
        \/ AddFile(NewFile(p, TRUE, TRUE, [path |-> p, version |-> v]))
    BY <1>8 DEF LoadScript
  <2>2. ASSUME NEW f \in DOMAIN files, NEW text, lastFileId' = lastFileId,
               files' = [files EXCEPT ![f].script = text]
        PROVE  IdsKept
    <3>1. DOMAIN files' = DOMAIN files
      BY <2>2
    <3>2. ASSUME NEW g \in DOMAIN files PROVE files'[g].path = files[g].path
      <4>1. files[g] \in Files
        BY DEF ParsingInv, TypeOK
      <4>2. files'[g] = files[g] \/ files'[g] = [files[g] EXCEPT !.script = text]
        BY <2>2
      <4> QED
        BY <4>1, <4>2 DEF Files
    <3> QED
      BY <1>0, <2>2, <3>1, <3>2 DEF IdsKept
  <2> QED
    BY <1>3, <2>1, <2>2
<1>9. CASE SessionEnd
  <2>1. /\ lastFileId' = lastFileId /\ DOMAIN files' \subseteq DOMAIN files
        /\ \A f \in DOMAIN files' : files'[f] = [files[f] EXCEPT !.script = None]
    BY <1>9 DEF SessionEnd
  <2>2. \A f \in DOMAIN files : files[f] \in Files
    BY DEF ParsingInv, TypeOK
  <2> QED
    BY <1>0, <2>1, <2>2 DEF IdsKept, Files
<1>10. CASE ParserOnSymbolsParsed
  <2>1. lastFileId' = lastFileId /\ DOMAIN files' = DOMAIN files
    BY <1>10 DEF ParserOnSymbolsParsed
  <2>2. ASSUME NEW f \in DOMAIN files PROVE files'[f].path = files[f].path
    <3>1. files[f] \in Files
      BY DEF ParsingInv, TypeOK
    <3>2. \/ files'[f] = files[f]
          \/ files'[f] = [files[f] EXCEPT !.symbols = Head(parsed).symbols]
      BY <1>10 DEF ParserOnSymbolsParsed
    <3> QED
      BY <3>1, <3>2 DEF Files
  <2> QED
    BY <1>0, <2>1, <2>2 DEF IdsKept
<1>11. CASE CloseWindow
  BY <1>0, <1>11 DEF CloseWindow, NoFiles, IdsKept
<1>12. CASE Worker
  BY <1>1, <1>12 DEF Worker, TestExit, WaitForItems, LookForItem, TakeItem, Parse,
     AskIfLast, PostSymbols, FreeItem, ClearItems, project
<1>13. CASE Queueing \/ Stopping \/ Closed \/ FrameOnSymbolsParsed
  BY <1>1, <1>13 DEF Queueing, SkipFile, PushItem, SignalItem, Stopping, ClearHandler,
     TellToExit, Join, Closed, vars, FrameOnSymbolsParsed, project
<1>14. CASE SaveFile \/ UNCHANGED vars
  BY <1>1, <1>14 DEF SaveFile, vars, project
<1> QED
  BY <1>4, <1>5, <1>6, <1>7, <1>8, <1>9, <1>10, <1>11, <1>12, <1>13, <1>14
  DEF Next, Dispatching

\* An item that is queued after a step was queued before it, or was just pushed.
LEMMA QueuedBelong ==
    ASSUME ParsingInv, ParsingInv', IdsKept, PathsInv, [Next]_vars,
           NEW item \in Items, Queued(item)'
    PROVE  Belongs(item.fileId, item.code)'
<1>0. items \in Seq(Items)
  BY DEF ParsingInv, TypeOK
<1>1. SUFFICES Belongs(item.fileId, item.code)
  BY BelongsKept DEF Items
<1>2. SUFFICES ASSUME ~ Queued(item) PROVE Belongs(item.fileId, item.code)
  BY DEF PathsInv
<1>3. CASE TakeItem
  <2>1. items # <<>>
    BY <1>3 DEF ParsingInv, LocksInv, TakeItem
  <2>2. /\ Len(items) \in Nat \ {0} /\ DOMAIN items = 1 .. Len(items)
        /\ head' = items[Len(items)]
        /\ items' = SubSeq(items, 1, Len(items) - 1)
    BY <1>0, <1>3, <2>1, EmptySeq, LenProperties DEF TakeItem, Last, Front
  <2>3. /\ DOMAIN items' = 1 .. Len(items) - 1
        /\ \A i \in 1 .. Len(items) - 1 : items'[i] = items[i]
    BY <1>0, <2>2
  <2> QED
    BY <1>2, <2>2, <2>3 DEF Queued
<1>4. CASE PushItem
  <2> DEFINE pushed == [fileId |-> Head(toQueue), code |-> CodeOf(Head(toQueue))]
  <2>1. items' = Append(items, pushed) /\ head' = head
    BY <1>4 DEF PushItem
  <2>2. /\ DOMAIN items' = 1 .. Len(items) + 1 /\ DOMAIN items = 1 .. Len(items)
        /\ items'[Len(items) + 1] = pushed
        /\ \A i \in 1 .. Len(items) : items'[i] = items[i]
    BY <1>0, <2>1
  <2>3. item = pushed
    BY <1>0, <1>2, <2>1, <2>2, LenProperties DEF Queued
  <2>4. Head(toQueue) \in DOMAIN files
    BY <1>4, SeqTail DEF PushItem, ParsingInv, QueueInv
  <2>5. CodeOf(Head(toQueue)).path = files[Head(toQueue)].path
    BY <2>4 DEF CodeOf, PathsInv, ScriptsBelong
  <2>6. Head(toQueue) <= lastFileId
    BY <2>4 DEF ParsingInv, TypeOK
  <2> QED
    BY <2>3, <2>5, <2>6 DEF Belongs
<1>5. CASE FreeItem \/ ClearItems
  BY <1>2, <1>5, NoneIsNoValue DEF FreeItem, ClearItems, Queued
<1>6. CASE UNCHANGED <<items, head>>
  BY <1>2, <1>6 DEF Queued
<1>7. CASE Worker /\ ~ TakeItem /\ ~ FreeItem /\ ~ ClearItems
  BY <1>6, <1>7 DEF Worker, TestExit, WaitForItems, LookForItem, Parse, AskIfLast,
     PostSymbols, shared
<1>8. CASE SkipFile \/ SignalItem \/ Stopping \/ Closed \/ Dispatching
  BY <1>6, <1>8 DEF SkipFile, SignalItem, Stopping, ClearHandler, TellToExit, Join,
     Closed, vars, Dispatching, ParserOnSymbolsParsed, FrameOnSymbolsParsed, shared
<1>9. CASE NewProject \/ OpenProject \/ AddExistingFile \/ RemoveFile \/ SaveFile
           \/ LoadScript \/ SessionEnd \/ CloseWindow \/ UNCHANGED vars
  BY <1>6, <1>9 DEF NewProject, OpenProject, SetProject, AddExistingFile, RemoveFile,
     SaveFile, LoadScript, SessionEnd, CloseWindow, vars, shared
<1> QED
  BY <1>3, <1>4, <1>5, <1>7, <1>8, <1>9 DEF Next, Queueing

\* An event that is pending after a step was pending before it, or carries the head.
LEMMA PostedBelong ==
    ASSUME ParsingInv, ParsingInv', IdsKept, PathsInv, [Next]_vars,
           NEW event \in Events, Posted(event)'
    PROVE  Belongs(event.fileId, event.symbols)'
<1>0. parsed \in Seq(Events)
  BY DEF ParsingInv, TypeOK
<1>1. SUFFICES Belongs(event.fileId, event.symbols)
  BY BelongsKept DEF Events
<1>2. SUFFICES ASSUME ~ Posted(event) PROVE Belongs(event.fileId, event.symbols)
  BY DEF PathsInv
<1>3. CASE PostSymbols
  <2> DEFINE posted == [fileId |-> head.fileId, symbols |-> head.code,
                        isFinal |-> isLast]
  <2>1. parsed' = Append(parsed, posted)
    BY <1>3 DEF PostSymbols
  <2>2. /\ DOMAIN parsed' = 1 .. Len(parsed) + 1 /\ DOMAIN parsed = 1 .. Len(parsed)
        /\ parsed'[Len(parsed) + 1] = posted
        /\ \A i \in 1 .. Len(parsed) : parsed'[i] = parsed[i]
    BY <1>0, <2>1
  <2>3. event = posted
    BY <1>0, <1>2, <2>2, LenProperties DEF Posted
  <2>4. head \in Items
    BY <1>3 DEF PostSymbols, ParsingInv, LocksInv, Holding
  <2>5. Belongs(head.fileId, head.code)
    BY <2>4 DEF PathsInv, Queued
  <2> QED
    BY <2>3, <2>5
<1>4. CASE ParserOnSymbolsParsed
  <2>1. parsed # <<>> /\ parsed' = Tail(parsed)
    BY <1>4 DEF ParserOnSymbolsParsed
  <2>2. /\ DOMAIN parsed = 1 .. Len(parsed) /\ Len(parsed) \in Nat \ {0}
        /\ DOMAIN parsed' = 1 .. Len(parsed) - 1
        /\ \A i \in 1 .. Len(parsed) - 1 : parsed'[i] = parsed[i + 1]
    BY <1>0, <2>1, EmptySeq, LenProperties, HeadTailProperties
  <2> QED
    BY <1>2, <2>2 DEF Posted
<1>5. CASE Join
  BY <1>5 DEF Join, Posted
<1>6. CASE parsed' = parsed
  BY <1>2, <1>6 DEF Posted
<1>7. CASE Worker /\ ~ PostSymbols
  BY <1>6, <1>7 DEF Worker, TestExit, WaitForItems, LookForItem, TakeItem, Parse,
     AskIfLast, FreeItem, ClearItems, events
<1>8. CASE Queueing \/ ClearHandler \/ TellToExit \/ Closed \/ FrameOnSymbolsParsed
  BY <1>6, <1>8 DEF Queueing, SkipFile, PushItem, SignalItem, ClearHandler, TellToExit,
     Closed, vars, FrameOnSymbolsParsed, events
<1>9. CASE NewProject \/ OpenProject \/ AddExistingFile \/ RemoveFile \/ SaveFile
           \/ LoadScript \/ SessionEnd \/ CloseWindow \/ UNCHANGED vars
  BY <1>6, <1>9 DEF NewProject, OpenProject, SetProject, AddExistingFile, RemoveFile,
     SaveFile, LoadScript, SessionEnd, CloseWindow, vars, events
<1> QED
  BY <1>3, <1>4, <1>5, <1>7, <1>8, <1>9 DEF Next, Stopping, Dispatching

FileBelongs(file) ==
    /\ file.script # None => file.script.path = file.path
    /\ file.symbols # None => file.symbols.path = file.path

\* A file of the new project is an old one, is new and empty, has just been given the
\* script of its name, or the symbols of an event that belongs to it.
LEMMA FilesBelong ==
    ASSUME ParsingInv, PathsInv, [Next]_vars
    PROVE  \A f \in DOMAIN files' : FileBelongs(files'[f])
<1>0. /\ \A f \in DOMAIN files : FileBelongs(files[f])
      /\ \A f \in DOMAIN files : files[f] \in Files
  BY DEF PathsInv, ScriptsBelong, SymbolsBelongToTheFile, FileBelongs, ParsingInv,
         TypeOK
<1>1. CASE files' = files
  BY <1>0, <1>1
<1>2. ASSUME NEW s, NEW saved, SetProject(s, saved)
      PROVE  \A f \in DOMAIN files' : FileBelongs(files'[f])
  BY <1>2 DEF SetProject, NewFile, FileBelongs
<1>3. ASSUME NEW file, FileBelongs(file), AddFile(file)
      PROVE  \A f \in DOMAIN files' : FileBelongs(files'[f])
  <2>1. \A f \in DOMAIN files' :
            files'[f] = file \/ (f \in DOMAIN files /\ files'[f] = files[f])
    BY <1>3 DEF AddFile
  <2> QED
    BY <1>0, <1>3, <2>1
<1>4. CASE NewProject \/ OpenProject
  BY <1>2, <1>4 DEF NewProject, OpenProject
<1>5. CASE AddExistingFile
  <2>1. PICK p \in Paths, temporary \in BOOLEAN :
            AddFile(NewFile(p, p \in LuaPaths, temporary, None))
    BY <1>5 DEF AddExistingFile
  <2>2. FileBelongs(NewFile(p, p \in LuaPaths, temporary, None))
    BY DEF FileBelongs, NewFile
  <2> QED
    BY <1>3, <2>1, <2>2
<1>6. CASE LoadScript
  <2>1. PICK p \in Paths : \E v \in 1 .. disk[p] :
        \/ \E f \in DOMAIN files :
            /\ files[f].path = p
            /\ files' = [files EXCEPT ![f].script = [path |-> p, version |-> v]]
        \/ AddFile(NewFile(p, TRUE, TRUE, [path |-> p, version |-> v]))
    BY <1>6 DEF LoadScript
  <2>2. PICK v \in 1 .. disk[p] :
        \/ \E f \in DOMAIN files :
            /\ files[f].path = p
            /\ files' = [files EXCEPT ![f].script = [path |-> p, version |-> v]]
        \/ AddFile(NewFile(p, TRUE, TRUE, [path |-> p, version |-> v]))
    BY <2>1
  <2> DEFINE source == [path |-> p, version |-> v]
  <2>3. FileBelongs(NewFile(p, TRUE, TRUE, source))
    BY DEF FileBelongs, NewFile
  <2>4. ASSUME NEW f \in DOMAIN files, files[f].path = p,
               files' = [files EXCEPT ![f].script = source],
               NEW g \in DOMAIN files
        PROVE  FileBelongs(files'[g])
    <3>1. \/ files'[g] = files[g]
          \/ files[g].path = p /\ files'[g] = [files[g] EXCEPT !.script = source]
      BY <2>4
    <3>2. source.path = p
      OBVIOUS
    <3> QED
      BY <1>0, <3>1, <3>2 DEF FileBelongs, Files
  <2>5. ASSUME NEW f \in DOMAIN files, files' = [files EXCEPT ![f].script = source]
        PROVE  DOMAIN files' = DOMAIN files
    BY <2>5
  <2> QED
    BY <1>3, <2>2, <2>3, <2>4, <2>5
<1>7. CASE SessionEnd
  <2>1. /\ DOMAIN files' \subseteq DOMAIN files
        /\ \A f \in DOMAIN files' : files'[f] = [files[f] EXCEPT !.script = None]
    BY <1>7 DEF SessionEnd
  <2> QED
    BY <1>0, <2>1 DEF FileBelongs, Files
<1>8. CASE RemoveFile
  BY <1>0, <1>8 DEF RemoveFile
<1>9. CASE ParserOnSymbolsParsed
  <2> DEFINE event == Head(parsed)
  <2>1. event \in Events /\ Posted(event)
    <3>1. parsed \in Seq(Events) /\ parsed # <<>>
      BY <1>9 DEF ParsingInv, TypeOK, ParserOnSymbolsParsed
    <3>2. 1 \in DOMAIN parsed /\ parsed[1] = event
      BY <3>1, EmptySeq, LenProperties
    <3> QED
      BY <3>1, <3>2, SeqTail DEF Posted
  <2>2. Belongs(event.fileId, event.symbols)
    BY <2>1 DEF PathsInv
  <2>3. CASE event.fileId \in DOMAIN files
    <3>1. files' = [files EXCEPT ![event.fileId].symbols = event.symbols]
      BY <1>9, <2>3 DEF ParserOnSymbolsParsed
    <3>2. event.symbols.path = files[event.fileId].path
      BY <2>2, <2>3 DEF Belongs
    <3>3. ASSUME NEW f \in DOMAIN files PROVE FileBelongs(files'[f])
      <4>1. \/ files'[f] = files[f]
            \/ /\ event.symbols.path = files[f].path
               /\ files'[f] = [files[f] EXCEPT !.symbols = event.symbols]
        BY <3>1, <3>2
      <4> QED
        BY <1>0, <4>1 DEF FileBelongs, Files
    <3> QED
      BY <3>1, <3>3
  <2> QED
    BY <1>1, <1>9, <2>3 DEF ParserOnSymbolsParsed
<1>10. CASE CloseWindow
  BY <1>10 DEF CloseWindow, NoFiles
<1>11. CASE Worker
  BY <1>1, <1>11 DEF Worker, TestExit, WaitForItems, LookForItem, TakeItem, Parse,
     AskIfLast, PostSymbols, FreeItem, ClearItems, project
<1>12. CASE Queueing \/ Stopping \/ Closed \/ FrameOnSymbolsParsed
  BY <1>1, <1>12 DEF Queueing, SkipFile, PushItem, SignalItem, Stopping, ClearHandler,
     TellToExit, Join, Closed, vars, FrameOnSymbolsParsed, project
<1>13. CASE SaveFile \/ UNCHANGED vars
  BY <1>1, <1>13 DEF SaveFile, vars, project
<1> QED
  BY <1>4, <1>5, <1>6, <1>7, <1>8, <1>9, <1>10, <1>11, <1>12, <1>13
  DEF Next, Dispatching

\* The symbols of a file come from that file, however late they arrive: what is queued
\* or posted belongs to its file as long as the file is in the project, and an id is
\* never used again.
THEOREM SymbolsReachTheirFile == Spec => []SymbolsBelongToTheFile
<1>1. Init => PathsInv
  <2> SUFFICES ASSUME Init PROVE PathsInv
    OBVIOUS
  <2>1. DOMAIN files = {} /\ items = <<>> /\ parsed = <<>> /\ head = None
    BY DEF Init, NoFiles
  <2> QED
    BY <2>1, NoneIsNoValue
    DEF PathsInv, Queued, Posted, ScriptsBelong, SymbolsBelongToTheFile
<1>2. ParsingInv /\ ParsingInv' /\ PathsInv /\ [Next]_vars => PathsInv'
  <2> SUFFICES ASSUME ParsingInv, ParsingInv', PathsInv, [Next]_vars PROVE PathsInv'
    OBVIOUS
  <2>1. IdsKept
    BY StepKeepsIds
  <2>2. \A item \in Items : Queued(item)' => Belongs(item.fileId, item.code)'
    BY <2>1, QueuedBelong
  <2>3. \A event \in Events : Posted(event)' => Belongs(event.fileId, event.symbols)'
    BY <2>1, PostedBelong
  <2>4. ScriptsBelong' /\ SymbolsBelongToTheFile'
    BY FilesBelong DEF ScriptsBelong, SymbolsBelongToTheFile, FileBelongs
  <2>5. Items' = Items /\ Events' = Events
    BY DEF Items, Events
  <2> QED
    BY <2>2, <2>3, <2>4, <2>5 DEF PathsInv
<1>3. PathsInv => SymbolsBelongToTheFile
  BY DEF PathsInv
<1> QED
  BY <1>1, <1>2, <1>3, ParsingInvariant, PTL DEF Spec

-----------------------------------------------------------------------------

\* The tree shows the symbols of f, or MainFrame has still to hear of them.
Shown(f) ==
    \/ tree[f] = files[f].symbols
    \/ \E i \in DOMAIN forwarded : forwarded[i].fileId = f

\* A window that closes has no project, so that Join may drop the pending events.
ClosingInv == window \in {"stop", "exit", "join", "closed"} => DOMAIN files = {}

LEMMA ClosingStep ==
    ASSUME ParsingInv, ClosingInv, [Next]_vars
    PROVE  ClosingInv'
<1>0. window \in {"idle", "queue", "signal", "stop", "exit", "join", "closed"}
  BY DEF ParsingInv, TypeOK
<1>1. CASE UNCHANGED <<window, files>>
  BY <1>1 DEF ClosingInv
<1>2. CASE window' \in {"idle", "queue", "signal"}
  BY <1>2 DEF ClosingInv
<1>3. CASE Worker \/ Dispatching \/ RemoveFile \/ SessionEnd
  BY <1>0, <1>1, <1>2, <1>3 DEF Worker, TestExit, WaitForItems, LookForItem, TakeItem, Parse,
     AskIfLast, PostSymbols, FreeItem, ClearItems, project, Dispatching,
     ParserOnSymbolsParsed, FrameOnSymbolsParsed, RemoveFile, SessionEnd
<1>4. CASE Queueing \/ SaveFile
  BY <1>2, <1>4 DEF Queueing, SkipFile, PushItem, SignalItem, SaveFile, StartQueueing
<1>5. CASE NewProject \/ OpenProject \/ AddExistingFile
  BY <1>2, <1>5 DEF NewProject, OpenProject, SetProject, AddExistingFile, AddFile,
     StartQueueing
<1>6. CASE LoadScript
  BY <1>2, <1>6 DEF LoadScript, AddFile, StartQueueing
<1>7. CASE Stopping
  BY <1>7 DEF Stopping, ClearHandler, TellToExit, Join, ClosingInv, project
<1>8. CASE CloseWindow
  BY <1>8 DEF CloseWindow, NoFiles, ClosingInv
<1>9. CASE Closed \/ UNCHANGED vars
  BY <1>1, <1>9 DEF Closed, vars, project
<1> QED
  BY <1>3, <1>4, <1>5, <1>6, <1>7, <1>8, <1>9 DEF Next

\* A step that takes no event from forwarded.
LEMMA ShownKept ==
    ASSUME ~ waiting => \A f \in DOMAIN files : Shown(f),
           ~ waiting' => ~ waiting,
           forwarded' = forwarded,
           \A f \in DOMAIN files' :
               \/ tree'[f] = files'[f].symbols
               \/ /\ f \in DOMAIN files /\ tree'[f] = tree[f]
                  /\ files'[f].symbols = files[f].symbols
    PROVE  TreeFollowsTheFiles'
BY DEF Shown, TreeFollowsTheFiles

LEMMA TreeStep ==
    ASSUME ParsingInv, ClosingInv, TreeFollowsTheFiles, [Next]_vars
    PROVE  TreeFollowsTheFiles'
<1>0. /\ ~ waiting => \A f \in DOMAIN files : Shown(f)
      /\ forwarded \in Seq(Events) /\ waiting \in BOOLEAN
      /\ \A f \in DOMAIN files : files[f] \in Files
  BY DEF TreeFollowsTheFiles, Shown, ParsingInv, TypeOK
<1>1. CASE UNCHANGED <<files, forwarded, tree, waiting>>
  BY <1>0, <1>1, ShownKept
<1>2. ASSUME NEW s, NEW saved \in BOOLEAN, SetProject(s, saved)
      PROVE  TreeFollowsTheFiles'
  <2>1. \A f \in DOMAIN files' : tree'[f] = files'[f].symbols
    BY <1>2 DEF SetProject, SymbolsOf
  <2>2. forwarded' = forwarded /\ (~ waiting' => ~ waiting)
    BY <1>2 DEF SetProject, events
  <2> QED
    BY <1>0, <2>1, <2>2, ShownKept
<1>3. ASSUME NEW file, file.symbols = None, AddFile(file),
             UNCHANGED <<forwarded, waiting>>
      PROVE  TreeFollowsTheFiles'
  <2>1. ASSUME NEW f \in DOMAIN files'
        PROVE  \/ tree'[f] = files'[f].symbols
               \/ /\ f \in DOMAIN files /\ tree'[f] = tree[f]
                  /\ files'[f].symbols = files[f].symbols
    BY <1>3 DEF AddFile
  <2> QED
    BY <1>0, <1>3, <2>1, ShownKept
<1>4. CASE NewProject \/ OpenProject
  BY <1>2, <1>4 DEF NewProject, OpenProject
<1>5. CASE AddExistingFile
  <2>1. PICK p \in Paths, temporary \in BOOLEAN :
            AddFile(NewFile(p, p \in LuaPaths, temporary, None))
    BY <1>5 DEF AddExistingFile
  <2>2. NewFile(p, p \in LuaPaths, temporary, None).symbols = None
    BY DEF NewFile
  <2> QED
    BY <1>3, <1>5, <2>1, <2>2 DEF AddExistingFile, events
<1>6. CASE LoadScript
  <2>1. PICK p \in Paths : \E v \in 1 .. disk[p] :
        \/ \E f \in DOMAIN files :
            /\ files' = [files EXCEPT ![f].script = [path |-> p, version |-> v]]
            /\ UNCHANGED <<window, toQueue, lastFileId, tree, completions>>
        \/ AddFile(NewFile(p, TRUE, TRUE, [path |-> p, version |-> v]))
    BY <1>6 DEF LoadScript
  <2>2. UNCHANGED <<forwarded, waiting>>
    BY <1>6 DEF LoadScript, events
  <2>3. ASSUME NEW text, NEW f \in DOMAIN files, tree' = tree,
               files' = [files EXCEPT ![f].script = text]
        PROVE  TreeFollowsTheFiles'
    <3>1. ASSUME NEW g \in DOMAIN files
          PROVE  files'[g].symbols = files[g].symbols
      BY <1>0, <2>3 DEF Files
    <3> QED
      BY <1>0, <2>2, <2>3, <3>1, ShownKept
  <2>4. ASSUME NEW text, AddFile(NewFile(p, TRUE, TRUE, text))
        PROVE  TreeFollowsTheFiles'
    <3>1. NewFile(p, TRUE, TRUE, text).symbols = None
      BY DEF NewFile
    <3> QED
      BY <1>3, <2>2, <2>4, <3>1
  <2> QED
    BY <2>1, <2>3, <2>4
<1>7. CASE SessionEnd
  <2>1. /\ DOMAIN files' \subseteq DOMAIN files
        /\ \A f \in DOMAIN files' : /\ files'[f] = [files[f] EXCEPT !.script = None]
                                     /\ tree'[f] = tree[f]
        /\ UNCHANGED <<forwarded, waiting>>
    BY <1>7 DEF SessionEnd, events
  <2>2. \A f \in DOMAIN files' : files'[f].symbols = files[f].symbols
    BY <1>0, <2>1 DEF Files
  <2> QED
    BY <1>0, <2>1, <2>2, ShownKept
<1>8. CASE RemoveFile
  <2>1. /\ DOMAIN files' \subseteq DOMAIN files
        /\ \A f \in DOMAIN files' : files'[f] = files[f] /\ tree'[f] = tree[f]
        /\ UNCHANGED <<forwarded, waiting>>
    BY <1>8 DEF RemoveFile, events
  <2> QED
    BY <1>0, <2>1, ShownKept
<1>9. CASE ParserOnSymbolsParsed
  <2> DEFINE event == Head(parsed)
  <2>1. CASE event.fileId \in DOMAIN files
    <3>1. /\ files' = [files EXCEPT ![event.fileId].symbols = event.symbols]
          /\ forwarded' = Append(forwarded, event)
          /\ UNCHANGED <<tree, waiting>>
      BY <1>9, <2>1 DEF ParserOnSymbolsParsed, views
    <3>2. /\ DOMAIN forwarded = 1 .. Len(forwarded) /\ Len(forwarded) \in Nat
          /\ DOMAIN forwarded' = 1 .. Len(forwarded) + 1
          /\ \A i \in 1 .. Len(forwarded) : forwarded'[i] = forwarded[i]
          /\ forwarded'[Len(forwarded) + 1] = event
      BY <1>0, <3>1
    <3>3. ASSUME NEW f \in DOMAIN files, Shown(f)
          PROVE  Shown(f)'
      BY <3>1, <3>2, <3>3 DEF Shown
    <3> QED
      BY <1>0, <3>1, <3>3 DEF TreeFollowsTheFiles, Shown
  <2> QED
    BY <1>1, <1>9, <2>1 DEF ParserOnSymbolsParsed, views
<1>10. CASE FrameOnSymbolsParsed
  <2> DEFINE event == Head(forwarded)
  <2>1. /\ files' = files /\ forwarded # <<>> /\ forwarded' = Tail(forwarded)
        /\ \/ waiting'
           \/ \A f \in DOMAIN files : tree'[f] = files[f].symbols
           \/ /\ ~ waiting
              /\ tree' = [f \in DOMAIN files |->
                            IF f = event.fileId THEN files[f].symbols ELSE tree[f]]
    BY <1>10 DEF FrameOnSymbolsParsed, SymbolsOf, project, views
  <2>2. /\ DOMAIN forwarded = 1 .. Len(forwarded) /\ Len(forwarded) \in Nat \ {0}
        /\ DOMAIN forwarded' = 1 .. Len(forwarded) - 1
        /\ \A i \in 1 .. Len(forwarded) - 1 : forwarded'[i] = forwarded[i + 1]
        /\ event = forwarded[1]
    BY <1>0, <2>1, EmptySeq, LenProperties, HeadTailProperties
  <2>3. ASSUME NEW f \in DOMAIN files, Shown(f), f # event.fileId
        PROVE  \/ tree[f] = files[f].symbols
               \/ \E i \in DOMAIN forwarded' : forwarded'[i].fileId = f
    <3>1. SUFFICES ASSUME NEW i \in DOMAIN forwarded, forwarded[i].fileId = f
                   PROVE  \E j \in DOMAIN forwarded' : forwarded'[j].fileId = f
      BY <2>3 DEF Shown
    <3>2. i # 1
      BY <2>2, <2>3, <3>1
    <3>3. i - 1 \in DOMAIN forwarded' /\ forwarded'[i - 1] = forwarded[i]
      BY <2>2, <3>1, <3>2
    <3> QED
      BY <3>1, <3>3
  <2> QED
    BY <1>0, <2>1, <2>3 DEF TreeFollowsTheFiles
<1>11. CASE CloseWindow
  BY <1>11 DEF CloseWindow, NoFiles, TreeFollowsTheFiles
<1>12. CASE Join
  <2>1. DOMAIN files' = {}
    BY <1>12 DEF Join, ClosingInv, project
  <2> QED
    BY <2>1 DEF TreeFollowsTheFiles
<1>13. CASE Worker
  BY <1>1, <1>13 DEF Worker, TestExit, WaitForItems, LookForItem, TakeItem, Parse,
     AskIfLast, PostSymbols, FreeItem, ClearItems, events, project, views
<1>14. CASE Queueing \/ ClearHandler \/ TellToExit \/ Closed
  BY <1>1, <1>14 DEF Queueing, SkipFile, PushItem, SignalItem, ClearHandler,
     TellToExit, Closed, vars, events, project, views
<1>15. CASE SaveFile \/ UNCHANGED vars
  BY <1>1, <1>15 DEF SaveFile, vars, events, project, views
<1> QED
  BY <1>4, <1>5, <1>6, <1>7, <1>8, <1>9, <1>10, <1>11, <1>12, <1>13, <1>14, <1>15
  DEF Next, Dispatching, Stopping

\* Outside of a batch the tree shows of every file the symbols the file holds, unless
\* MainFrame still has an event of the file: its pointers to symbols that were deleted
\* are always about to be replaced (SymbolParser.cpp:148-156).
THEOREM TreeFollows == Spec => []TreeFollowsTheFiles
<1>1. Init => ClosingInv /\ TreeFollowsTheFiles
  BY DEF Init, NoFiles, ClosingInv, TreeFollowsTheFiles
<1>2. ParsingInv /\ ClosingInv /\ TreeFollowsTheFiles /\ [Next]_vars
        => ClosingInv' /\ TreeFollowsTheFiles'
  BY ClosingStep, TreeStep
<1> QED
  BY <1>1, <1>2, ParsingInvariant, PTL DEF Spec
=============================================================================
