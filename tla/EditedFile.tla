----------------------------- MODULE EditedFile -----------------------------
(* A file that is open in an editor while the program runs a version of it:  *)
(* the text and its markers (CodeEdit), the breakpoints of the project file, *)
(* the line mapping of the script, and the breakpoints the backend holds, in *)
(* lines of the version it loaded.  The file stays open and is the only one. *)
EXTENDS LineMapper, SequencesExt, TLC

CONSTANTS
  Contents,         \* what a line may hold; Empty is one of them
  FirstText,        \* the file as it is opened
  Pastes,           \* the runs of lines an edit may insert
  Typed,            \* what an edit may turn a line into
  OtherTexts,       \* what another program may write to the file
  MaxLines,         \* bound: the lines of a text
  MaxEdits,         \* bound: edits and writes to the file by others
  MaxToggles,       \* bound: clicks into the margin and "Delete All"
  MaxSessions,      \* bound: debugging sessions
  NoSource          \* the source of a script that is not loaded

VARIABLES
  text,             \* the document of the editor
  markers,          \* how many breakpoint markers each of its lines carries
  modified,         \* the text was changed since it was read or saved
  dirty,            \* m_lineMappingDirty
  disk,             \* the file
  newer,            \* the file is newer than OpenFile::timeStamp
  breakpoints,      \* Project::File::breakpoints
  loaded,           \* File::scriptIndex is set
  source,           \* Script::source, once the backend has loaded the file
  mapping,          \* Script::lineMapper
  running,          \* a program is being debugged
  backend,          \* the breakpoints of the script in the backend
  commands,         \* the command channel
  events,           \* the event channel and the window's queue
  edits, toggles, sessions,
  stale,            \* history: a text came without marking the mapping dirty
  merged,           \* history: a line carried two markers, or all were lost
  apart             \* history: the text or the lists changed on one side only

documentVars == <<text, markers, modified, dirty, breakpoints>>
sessionVars  == <<loaded, source, running, backend, sessions>>
channelVars  == <<commands, events>>
vars == <<text, markers, modified, dirty, disk, newer, breakpoints, loaded, source, mapping,
          running, backend, commands, events, edits, toggles, sessions,
          stale, merged, apart>>

ASSUME ContentsAssumption == Empty \in Contents /\ Cleaned \in [Contents -> Contents]
ASSUME TextAssumption ==
  /\ FirstText \in Seq(Contents) \ {<<>>}
  /\ OtherTexts \subseteq Seq(Contents) \ {<<>>}
  /\ Pastes \subseteq Seq(Contents) \ {<<>>}
  /\ Typed \subseteq Contents
  /\ NoSource \notin Seq(Contents)
ASSUME BoundAssumption ==
  /\ MaxLines \in Nat /\ MaxEdits \in Nat /\ MaxToggles \in Nat /\ MaxSessions \in Nat
(* LineMapper.h:82-83: "We store shorts to save memory. That gives us 60k    *)
(* lines, which should be more than sufficient for code files."              *)
ASSUME LinesAssumption ==
  /\ MaxLines < InvalidLine
  /\ \A t \in OtherTexts \cup {FirstText} : Len(t) <= MaxLines

Toggle(line)             == [id |-> "Toggle", line |-> line]
RemoveAll                == [id |-> "RemoveAll"]
LoadScript               == [id |-> "LoadScript"]
SetBreakpoint(line, set) == [id |-> "SetBreakpoint", line |-> line, set |-> set]
SessionEnd               == [id |-> "SessionEnd"]

Init ==
  /\ text = FirstText /\ disk = FirstText /\ newer = FALSE
  /\ markers = [l \in DOMAIN FirstText |-> 0]
  /\ modified = FALSE /\ dirty = TRUE
  /\ breakpoints = <<>>
  /\ loaded = FALSE /\ source = NoSource /\ mapping = NoMapping
  /\ running = FALSE /\ backend = {}
  /\ commands = <<>> /\ events = <<>>
  /\ edits = 0 /\ toggles = 0 /\ sessions = 0
  /\ stale = FALSE /\ merged = FALSE /\ apart = FALSE

-----------------------------------------------------------------------------
(* The document.                                                             *)

Occurrences(list, line) == Cardinality({i \in DOMAIN list : list[i] = line})

(* Project::SetBreakpoint; of several entries the first is taken out.        *)
Listed(list, line, set) ==
  IF set THEN IF Contains(list, line) THEN list ELSE Append(list, line)
         ELSE RemoveFirst(list, line)

(* UpdateFileBreakpoint: a marker more, or one fewer, on a line of the text. *)
(* Scintilla reports either as a change of the document.                     *)
Mark(line, set) ==
  IF line \notin DOMAIN markers THEN markers
  ELSE [markers EXCEPT ![line] = IF set THEN @ + 1 ELSE IF @ = 0 THEN 0 ELSE @ - 1]

(* The markers without one for every entry of the list.                      *)
Unmarked ==
  [l \in DOMAIN markers |->
     LET n == Occurrences(breakpoints, l)
     IN IF markers[l] > n THEN markers[l] - n ELSE 0]

Replaced(from, to, lines) ==
  SubSeq(text, 1, from - 1) \o lines \o SubSeq(text, to + 1, Len(text))

Doubled(marks) == \E l \in DOMAIN marks : marks[l] > 1

(* A change of the text, with what becomes of the markers and of the list.   *)
Edit(after, movedMarkers, movedBreakpoints, lost) ==
  /\ edits < MaxEdits /\ edits' = edits + 1
  /\ Len(after) \in 1 .. MaxLines
  /\ text' = after /\ modified' = TRUE
  /\ markers' = movedMarkers
  /\ breakpoints' = movedBreakpoints
  /\ dirty' = TRUE
  /\ merged' = (merged \/ lost \/ Doubled(movedMarkers))
  /\ apart' = (apart \/ running)
  /\ UNCHANGED <<disk, newer, mapping, stale, toggles>>
  /\ UNCHANGED sessionVars /\ UNCHANGED channelVars

(* OnCodeEditModified, lines were added: breakpoints below the line move     *)
(* down, those on it too when the change is at its start.                    *)
ShiftDown(line, added, atStart) ==
  [i \in DOMAIN breakpoints |->
     IF breakpoints[i] > line \/ (atStart /\ breakpoints[i] >= line)
     THEN breakpoints[i] + added ELSE breakpoints[i]]

(* Mutant: what is deleted is not collapsed.                                 *)
ShiftUpAll(line, removed) ==
  [i \in DOMAIN breakpoints |->
     IF breakpoints[i] >= line + removed THEN breakpoints[i] - removed
                                         ELSE breakpoints[i]]

(* ... lines were removed: breakpoints below them move up; of those on them  *)
(* the first goes to the line that is left and the others are dropped.       *)
ShiftUp(line, removed) ==
  LET Inside(i) == breakpoints[i] \in line .. line + removed - 1
      first     == {i \in DOMAIN breakpoints :
                      Inside(i) /\ \A k \in 1 .. i - 1 : ~Inside(k)}
      moved(i)  == IF breakpoints[i] >= line + removed THEN breakpoints[i] - removed
                   ELSE IF Inside(i) THEN line ELSE breakpoints[i]
  IN LinesAt([i \in DOMAIN breakpoints |-> moved(i)],
             {i \in DOMAIN breakpoints : Inside(i) => i \in first})

(* Mutant: the markers of the line stay where Scintilla leaves them.         *)
MarkersLeft(line, added, atStart) ==
  [l \in 1 .. Len(text) + added |->
     IF l <= line THEN markers[l]
     ELSE IF l <= line + added THEN 0
     ELSE markers[l - added]]

(* The markers after lines were inserted.  Scintilla leaves those of the     *)
(* line where it is; CodeEdit::OnModified takes one of them to the line the  *)
(* old text went to when the change is at its start.                         *)
MarkersAfterInsert(line, added, atStart) ==
  LET moves == IF atStart /\ markers[line] > 0 THEN 1 ELSE 0
  IN [l \in 1 .. Len(text) + added |->
        IF l < line THEN markers[l]
        ELSE IF l = line THEN markers[l] - moves
        ELSE IF l = line + added /\ added > 0 THEN moves
        ELSE IF l < line + added THEN 0
        ELSE markers[l - added]]

(* The markers after line ends were removed: those of the lines that become  *)
(* one come together.                                                        *)
MarkersAfterDelete(line, removed) ==
  [l \in 1 .. Len(text) - removed |->
     IF l < line THEN markers[l]
     ELSE IF l > line THEN markers[l + removed]
     ELSE Cardinality(UNION {{k} \X (1 .. markers[k]) : k \in line .. line + removed})]

(* Lines are pasted or typed at the start of a line.                         *)
InsertBefore(line, lines) ==
  Edit(Replaced(line, line - 1, lines), MarkersAfterInsert(line, Len(lines), TRUE),
       ShiftDown(line, Len(lines), TRUE), FALSE)

(* ... or behind the last character of one that has any.                     *)
InsertBehind(line, lines) ==
  /\ text[line] # Empty
  /\ Edit(Replaced(line + 1, line, lines), MarkersAfterInsert(line, Len(lines), FALSE),
          ShiftDown(line, Len(lines), FALSE), FALSE)

(* The text from somewhere in one line to somewhere in a later one is cut:   *)
(* what is left of both is one line, the head of the one or the tail of the  *)
(* other when the cut is at the end or at the start of a line.               *)
DeleteLines(line, removed) ==
  /\ line + removed <= Len(text)
  /\ \E rest \in {text[line], text[line + removed]} :
       Edit(Replaced(line, line + removed, <<rest>>),
            MarkersAfterDelete(line, removed), ShiftUp(line, removed), FALSE)

(* The whole text is cut: Scintilla starts over without any marker, and says *)
(* so as a deletion like any other.                                          *)
DeleteAll ==
  /\ text # <<Empty>>
  /\ Edit(<<Empty>>, <<0>>, ShiftUp(1, Len(text) - 1), TRUE)

(* A change inside a line: no lines are added, only the mapping is dirty.    *)
ChangeLine(line, contents) ==
  /\ contents # text[line]
  /\ Edit([text EXCEPT ![line] = contents], markers, breakpoints, FALSE)

-----------------------------------------------------------------------------
(* The file.                                                                 *)

(* SaveFile.                                                                 *)
Save ==
  /\ modified
  /\ disk' = text /\ modified' = FALSE /\ newer' = FALSE
  /\ UNCHANGED <<text, markers, dirty, breakpoints, mapping, edits, toggles,
                 stale, merged, apart>>
  /\ UNCHANGED sessionVars /\ UNCHANGED channelVars

(* Another program writes the file.                                          *)
OtherWrites ==
  /\ edits < MaxEdits /\ edits' = edits + 1
  /\ disk' \in OtherTexts \ {disk}
  /\ newer' = TRUE
  /\ UNCHANGED <<mapping, toggles, stale, merged, apart>>
  /\ UNCHANGED documentVars /\ UNCHANGED sessionVars /\ UNCHANGED channelVars

(* CheckReload, and the user keeps the text: the question is not put again.  *)
KeepText ==
  /\ newer /\ newer' = FALSE
  /\ UNCHANGED <<disk, mapping, edits, toggles, stale, merged, apart>>
  /\ UNCHANGED documentVars /\ UNCHANGED sessionVars /\ UNCHANGED channelVars

(* CheckReload and ReloadFile: the text is replaced with the editor's events *)
(* off, so that neither the mapping is marked nor the breakpoints moved.     *)
(* Those behind the end go, the others get their markers back with the       *)
(* events on again; later the editor may report new fold levels.             *)
Reload ==
  /\ newer /\ newer' = FALSE
  /\ text' = disk /\ modified' = FALSE
  /\ breakpoints' =
       LinesAt(breakpoints, {i \in DOMAIN breakpoints : breakpoints[i] <= Len(disk)})
  /\ markers' = [l \in DOMAIN disk |-> Occurrences(breakpoints, l)]
  /\ dirty' \in {dirty \/ breakpoints' # <<>>, TRUE}
  /\ stale' = (stale \/ ~dirty')
  /\ merged' = Doubled(markers')
  /\ apart' = (apart \/ running)
  /\ UNCHANGED <<disk, mapping, edits, toggles>>
  /\ UNCHANGED sessionVars /\ UNCHANGED channelVars

-----------------------------------------------------------------------------
(* The window.                                                               *)

(* Mutant: the mapping is made once, when the script is loaded.              *)
MappingKept == mapping

(* UpdateLineMappingIfNecessary, before every lookup of a loaded script.     *)
UpdateLineMappingIfNecessary ==
  IF loaded /\ dirty THEN Update(source, text) ELSE mapping

Send(sent) == commands' = IF running THEN commands \o sent ELSE commands

(* ToggleBreakpoint on a line the backend has: it is asked to, and the list  *)
(* follows with its answer.                                                  *)
ToggleInBackend(line) ==
  LET oldLine == GetOldLine(UpdateLineMappingIfNecessary, line)
  IN /\ toggles < MaxToggles /\ toggles' = toggles + 1
     /\ loaded /\ oldLine # InvalidLine
     /\ Send(<<Toggle(oldLine)>>)
     /\ mapping' = UpdateLineMappingIfNecessary
     /\ dirty' = FALSE
     /\ stale' = (stale /\ ~dirty)
     /\ UNCHANGED <<text, markers, modified, breakpoints, disk, newer, events,
                    edits, merged, apart>>
     /\ UNCHANGED sessionVars

(* ... on any other line the list and the markers change at once.            *)
ToggleLocally(line) ==
  LET set == ~Contains(breakpoints, line)
  IN /\ toggles < MaxToggles /\ toggles' = toggles + 1
     /\ loaded => GetOldLine(UpdateLineMappingIfNecessary, line) = InvalidLine
     /\ breakpoints' = Listed(breakpoints, line, set)
     /\ markers' = Mark(line, set)
     /\ mapping' = UpdateLineMappingIfNecessary
     /\ dirty' = TRUE
     /\ stale' = (stale /\ ~(loaded /\ dirty))
     /\ merged' = (merged \/ Doubled(markers'))
     /\ UNCHANGED <<text, modified, disk, newer, edits, apart>>
     /\ UNCHANGED sessionVars /\ UNCHANGED channelVars

DeleteAllBreakpoints ==
  /\ toggles < MaxToggles /\ toggles' = toggles + 1
  /\ breakpoints' = <<>>
  /\ markers' = Unmarked
  /\ dirty' = (dirty \/ breakpoints # <<>>)
  /\ Send(<<RemoveAll>>)
  /\ apart' = (apart \/ (running /\ (commands # <<>> \/ events # <<>>)))
  /\ UNCHANGED <<text, modified, disk, newer, mapping, events, edits, stale, merged>>
  /\ UNCHANGED sessionVars

(* A session is started, which saves the file, or a process is attached to.  *)
(* Both are offered once the state is Inactive again, and that is set by     *)
(* Shutdown, in the handler of the last event of the session before.         *)
StartSession(saves) ==
  /\ ~running /\ events = <<>>
  /\ sessions < MaxSessions /\ sessions' = sessions + 1
  /\ running' = TRUE
  /\ IF saves /\ modified
     THEN disk' = text /\ modified' = FALSE /\ newer' = FALSE
     ELSE UNCHANGED <<disk, modified, newer>>
  /\ UNCHANGED <<text, markers, dirty, breakpoints, loaded, source, mapping,
                 backend, edits, toggles, stale, merged, apart>>
  /\ UNCHANGED channelVars

(* The event handler of the window takes the first event.                    *)
NextEvent(id) == events # <<>> /\ Head(events).id = id /\ events' = Tail(events)

(* OnLoadScript: the mapping is made from the file, not from the editor; the *)
(* list is emptied, and the backend is asked for each entry the script has.  *)
OnLoadScript ==
  LET fromDisk == Update(source, disk)
      oldLines == [i \in DOMAIN breakpoints |-> GetOldLine(fromDisk, breakpoints[i])]
      sent     == LinesAt(oldLines, {i \in DOMAIN oldLines : oldLines[i] # InvalidLine})
  IN /\ NextEvent("LoadScript")
     /\ loaded' = TRUE
     /\ mapping' = fromDisk
     /\ breakpoints' = <<>> /\ markers' = Unmarked
     /\ dirty' = (dirty \/ breakpoints # <<>>)
     /\ Send([i \in DOMAIN sent |-> Toggle(sent[i])])
     /\ stale' = (~dirty' /\ text # disk)
     /\ apart' = (text # disk)
     /\ UNCHANGED <<text, modified, disk, newer, source, running, backend,
                    edits, toggles, sessions, merged>>

(* Mutant: the line of the event is taken as it is.                          *)
LineOfEvent(line) == line

(* The line of an event, in the text of the editor.                          *)
OldToNewLine(line) == GetNewLine(UpdateLineMappingIfNecessary, line)

(* OnSetBreakpoint: a line that is gone is listed as InvalidLine.            *)
OnSetBreakpoint ==
  LET line == OldToNewLine(Head(events).line)
      set  == Head(events).set
  IN /\ NextEvent("SetBreakpoint")
     /\ breakpoints' = Listed(breakpoints, line, set)
     /\ markers' = Mark(line, set)
     /\ mapping' = UpdateLineMappingIfNecessary
     /\ dirty' = TRUE
     /\ stale' = (stale /\ ~dirty)
     /\ merged' = (merged \/ Doubled(markers'))
     /\ UNCHANGED <<text, modified, disk, newer, commands, edits, toggles, apart>>
     /\ UNCHANGED sessionVars

(* OnSessionEnd: the scripts are dropped, the files keep their breakpoints.  *)
OnSessionEnd ==
  /\ NextEvent("SessionEnd")
  /\ loaded' = FALSE /\ source' = NoSource /\ mapping' = NoMapping
  /\ stale' = FALSE
  /\ UNCHANGED <<disk, newer, running, backend, commands, edits, toggles,
                 sessions, merged, apart>>
  /\ UNCHANGED documentVars

-----------------------------------------------------------------------------
(* The backend.                                                              *)

(* The program loads the file.                                               *)
ProgramLoads ==
  /\ running /\ source = NoSource
  /\ source' = disk
  /\ events' = Append(events, LoadScript)
  /\ UNCHANGED <<disk, newer, loaded, mapping, running, backend, commands, edits,
                 toggles, sessions, stale, merged, apart>>
  /\ UNCHANGED documentVars

BackendToggles ==
  /\ commands # <<>> /\ Head(commands).id = "Toggle"
  /\ LET line == Head(commands).line
     IN /\ backend' = SymDiff(backend, {line})
        /\ events' = Append(events, SetBreakpoint(line, line \notin backend))
  /\ commands' = Tail(commands)
  /\ UNCHANGED <<disk, newer, loaded, source, mapping, running, edits, toggles,
                 sessions, stale, merged, apart>>
  /\ UNCHANGED documentVars

BackendRemovesAll ==
  /\ commands # <<>> /\ Head(commands).id = "RemoveAll"
  /\ backend' = {}
  /\ commands' = Tail(commands)
  /\ UNCHANGED <<disk, newer, loaded, source, mapping, running, events, edits,
                 toggles, sessions, stale, merged, apart>>
  /\ UNCHANGED documentVars

(* The program ends; what it has not read is lost.                           *)
ProgramEnds ==
  /\ running /\ running' = FALSE
  /\ backend' = {} /\ commands' = <<>>
  /\ events' = Append(events, SessionEnd)
  /\ UNCHANGED <<disk, newer, loaded, source, mapping, edits, toggles, sessions,
                 stale, merged, apart>>
  /\ UNCHANGED documentVars

Editing ==
  \/ \E line \in DOMAIN text :
       \/ \E lines \in Pastes : InsertBefore(line, lines) \/ InsertBehind(line, lines)
       \/ \E removed \in 1 .. Len(text) - 1 : DeleteLines(line, removed)
       \/ \E contents \in Typed : ChangeLine(line, contents)
  \/ DeleteAll

Next ==
  \/ Editing
  \/ Save \/ OtherWrites \/ KeepText \/ Reload
  \/ \E line \in DOMAIN text : ToggleInBackend(line) \/ ToggleLocally(line)
  \/ DeleteAllBreakpoints
  \/ \E saves \in BOOLEAN : StartSession(saves)
  \/ OnLoadScript \/ OnSetBreakpoint \/ OnSessionEnd
  \/ ProgramLoads \/ BackendToggles \/ BackendRemovesAll \/ ProgramEnds

Spec == Init /\ [][Next]_vars

-----------------------------------------------------------------------------

(* The values the variables can have.                                        *)
TypeOK ==
  /\ text \in Seq(Contents) \ {<<>>} /\ disk \in Seq(Contents) \ {<<>>}
  /\ markers \in [DOMAIN text -> Nat]
  /\ breakpoints \in Seq(Nat)
  /\ source \in (Seq(Contents) \ {<<>>}) \cup {NoSource}
  /\ mapping \in [oldToNew : Seq(Nat), newToOld : Seq(Nat)]
  /\ {modified, dirty, newer, loaded, running, stale, merged, apart} \subseteq BOOLEAN
  /\ backend \subseteq Nat
  /\ loaded => source # NoSource
  /\ commands \in Seq([id : {"Toggle"}, line : Nat] \cup {RemoveAll})
  /\ events \in Seq([id : {"SetBreakpoint"}, line : Nat, set : BOOLEAN]
                      \cup {LoadScript, SessionEnd})

(* UpdateLineMappingIfNecessary (MainFrame.cpp:2438): a mapping that is not  *)
(* marked dirty is the one of the script and the text in the editor, except  *)
(* after a text came without marking it: when the file was read again, or    *)
(* when a script was mapped to a file the editor does not show.              *)
MappingIsCurrent ==
  (loaded /\ ~dirty /\ ~stale) => mapping = Update(source, text)

(* LineMapper::Diff: such a mapping keeps lines that are equal once cleaned, *)
(* in their order, both of its tables say the same, and it keeps as many     *)
(* lines as any could.                                                       *)
MappingIsLongest ==
  LET X == DivideIntoLines(source)
      Y == DivideIntoLines(text)
  IN (loaded /\ ~dirty /\ ~stale /\ X # <<>> /\ Y # <<>>) => IsLongest(mapping, X, Y)

(* OnCodeEditModified "to keep things in sync" (MainFrame.cpp:2600): the     *)
(* markers Scintilla moves and the list the window moves are on the same     *)
(* lines, as long as no line had to carry two markers and they were not all  *)
(* thrown away with the text.                                                *)
MarkersMatchBreakpoints ==
  ~merged => \A l \in DOMAIN text : markers[l] = Occurrences(breakpoints, l)

(* OnCodeEditModified: whatever is inserted or cut around it, a line that is *)
(* the only one of its contents before and after keeps its breakpoint.       *)
FollowsItsLine ==
  \A l \in DOMAIN text, m \in DOMAIN text' :
    (/\ text[l] = text'[m]
     /\ Occurrences(text, text[l]) = 1
     /\ Occurrences(text', text[l]) = 1
     /\ Contains(breakpoints, l))
      => Contains(breakpoints', m)
BreakpointsFollowTheirLines == [][Editing => FollowsItsLine]_vars

(* ToggleBreakpoint, OnLoadScript, OnSetBreakpoint: when every command and   *)
(* event has been handled, the backend stops on exactly the lines of its     *)
(* version that the listed lines of the text come from - as long as neither  *)
(* the text changed while the program ran nor "Delete All" met an answer,    *)
(* and the text has lines.                                                   *)
BackendHasListedLines ==
  (loaded /\ running /\ commands = <<>> /\ events = <<>> /\ ~apart
   /\ DivideIntoLines(text) # <<>>) =>
    backend = {GetOldLine(Update(source, text), breakpoints[i]) :
                 i \in DOMAIN breakpoints} \ {InvalidLine}

=============================================================================
