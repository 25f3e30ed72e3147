------------------------------ MODULE Protocol ------------------------------
(***************************************************************************)
(* What the debugger's two halves share: the pipe of the events that the   *)
(* backend (inside the debugged process) sends to the frontend, the pipe of*)
(* the commands the frontend sends back, and the messages in them.  Payloads are abstracted to what  *)
(* the receiving side acts on: the text of a script is the script itself,  *)
(* the call stack of a Break event is the script index of its top frame,   *)
(* and an error message is a member of a small set.                        *)
(***************************************************************************)
EXTENDS Integers, Sequences

CONSTANTS
  LuaThreads,   (* the threads of the debugged process that run Lua; each
                   runs one lua_State, which carries the thread's name      *)
  Scripts,      (* the scripts the process may load                         *)
  Lines,        (* the lines of a script                                    *)
  Errors,       (* the messages a Lua error may carry                       *)
  Nobody        (* no thread                                                *)

ASSUME ProtocolAssumption ==
  /\ Lines \subseteq Nat \ {0}
  /\ Nobody \notin LuaThreads

VARIABLES
  events,        \* the pipe that carries events
  commands,      \* the pipe that carries commands
  reply,         \* an answer to Evaluate is in the command pipe
  eventsOpen,    \* the frontend has not destroyed its end of the event pipe
  commandsOpen   \* nor of the command pipe

pipeEnds == <<eventsOpen, commandsOpen>>
channelVars == <<events, commands, reply, pipeEnds>>

(* A script travels as its position in the table of scripts; 0 stands for   *)
(* the source's -1, "no script".                                            *)
Index == Nat

Event ==
  [id : {"CreateVM", "DestroyVM", "LoadError", "Message"}, vm : LuaThreads]
    \cup [id : {"LoadScript"}, vm : LuaThreads, script : Scripts]
    \cup [id : {"Break"}, vm : LuaThreads, index : Index]
    \cup [id : {"Exception"}, vm : LuaThreads, error : Errors]
    \cup [id : {"SetBreakpoint"}, index : Index, line : Lines, set : BOOLEAN]

Command ==
  [id : {"Continue", "StepOver", "StepInto", "Break", "LoadDone",
         "DeleteAllBreakpoints"}]
    \cup [id : {"ToggleBreakpoint"}, index : Index, line : Lines]
    \cup [id : {"IgnoreException"}, error : Errors]
    \cup [id : {"Evaluate"}, vm : LuaThreads]
    \cup [id : {"Detach"}, continueRunning : BOOLEAN]

ChannelTypeOK ==
  /\ events \in Seq(Event)
  /\ commands \in Seq(Command)
  /\ reply \in BOOLEAN
  /\ eventsOpen \in BOOLEAN /\ commandsOpen \in BOOLEAN

ChannelInit ==
  /\ events = <<>> /\ commands = <<>> /\ reply = FALSE
  /\ eventsOpen = TRUE /\ commandsOpen = TRUE

=============================================================================
