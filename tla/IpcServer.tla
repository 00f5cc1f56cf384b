------------------------------ MODULE IpcServer ------------------------------
(***************************************************************************)
(* IpcServer (ipc_server.h, ipc_server.cpp) and the end of main.cpp: the   *)
(* life of the named pipe, its client, the reading of commands from it,    *)
(* and the shutdown of the process.                                        *)
(*                                                                         *)
(*   main    waits for a shutdown request and then calls Stop              *)
(*   pipe    the pipe thread, PipeThreadProc                               *)
(*   client  the user interface at the other end of the pipe (external)    *)
(*                                                                         *)
(* There is one instance of the pipe at a time; a handle is a number that  *)
(* Windows may use again once it is closed.  What the client writes is a   *)
(* sequence of chunks, each what one ReadFile returns: the lines that end  *)
(* in it and the bytes it begins of the next.                              *)
(***************************************************************************)
EXTENDS Integers, Sequences

CONSTANTS Handle,      \* handle values
          NoHandle,    \* INVALID_HANDLE_VALUE
          Chunks,      \* what a ReadFile may return
          MaxMessage,  \* MAX_MESSAGE_SIZE
          MaxClients,  \* bound on the connections made
          MaxInput,    \* bound on the chunks a client writes
          Failures     \* whether CreateNamedPipeW may fail

\* What a line can be: an empty one is skipped.
Command == {"empty", "other", "shutdown"}

\* A ReadFile returns at most 4096 bytes, less than MAX_MESSAGE_SIZE.
ASSUME IpcAssumption ==
    /\ NoHandle \notin Handle
    /\ \A chunk \in Chunks : /\ chunk.commands \in Seq(Command)
                             /\ chunk.rest \in 0 .. MaxMessage
    /\ MaxMessage \in Nat /\ MaxClients \in Nat /\ MaxInput \in Nat
    /\ Failures \in BOOLEAN

VARIABLES
  running,            \* running_
  shutdownRequested,  \* shutdown_requested_
  interrupted,        \* g_shutdown_requested
  currentPipe         \* current_pipe_

VARIABLES
  pcMain,             \* where main is
  stopping,           \* Stop: h
  pcPipe,             \* where the pipe thread is
  pipe,               \* PipeThreadProc: pipe
  line,               \* line_buf: its complete commands and the bytes after them
  command             \* the command being processed

VARIABLES
  state,              \* of each handle's pipe, "closed" when it is not open
  input,              \* chunks written and not yet read
  clients,            \* how many connections were made
  written             \* how many chunks the client of this one has written

flags      == <<running, shutdownRequested, interrupted>>
mainVars   == <<pcMain, stopping>>
threadVars == <<pcPipe, pipe, line, command>>
pipeVars   == <<state, input, clients, written>>
vars       == <<flags, currentPipe, mainVars, threadVars, pipeVars>>

EmptyLine == [commands |-> <<>>, rest |-> 0]

\* Start has been called: main waits and the pipe thread begins.
Init == /\ running = TRUE /\ shutdownRequested = FALSE /\ interrupted = FALSE
        /\ currentPipe = NoHandle
        /\ pcMain = "wait" /\ stopping = NoHandle
        /\ pcPipe = "top" /\ pipe = NoHandle
        /\ line = EmptyLine /\ command = "none"
        /\ state = [h \in Handle |-> "closed"]
        /\ input = <<>> /\ clients = 0 /\ written = 0

-----------------------------------------------------------------------------
(* The pipe, as Windows implements it *)

Close(h) == /\ state' = [state EXCEPT ![h] = "closed"]
            /\ input' = <<>>
            /\ UNCHANGED <<clients, written>>

\* DisconnectNamedPipe discards what was not read; on a handle that is closed,
\* or in use by nobody, it fails without effect.
Disconnect(h) == /\ IF state[h] \in {"connected", "left"}
                      THEN state' = [state EXCEPT ![h] = "cut"] /\ input' = <<>>
                      ELSE UNCHANGED <<state, input>>
                 /\ UNCHANGED <<clients, written>>

ClientConnect == /\ clients < MaxClients
                 /\ \E h \in Handle : /\ state[h] = "listening"
                                      /\ state' = [state EXCEPT ![h] = "connected"]
                 /\ clients' = clients + 1
                 /\ written' = 0
                 /\ UNCHANGED <<flags, currentPipe, mainVars, threadVars, input>>

ClientWrite == /\ \E h \in Handle : state[h] = "connected"
               /\ written < MaxInput
               /\ \E chunk \in Chunks : input' = Append(input, chunk)
               /\ written' = written + 1
               /\ UNCHANGED <<flags, currentPipe, mainVars, threadVars, state, clients>>

ClientLeave == /\ \E h \in Handle : /\ state[h] = "connected"
                                    /\ state' = [state EXCEPT ![h] = "left"]
               /\ UNCHANGED <<flags, currentPipe, mainVars, threadVars, input, clients,
                              written>>

-----------------------------------------------------------------------------
(* PipeThreadProc *)

PipeTop == /\ pcPipe = "top"
           /\ pcPipe' = IF running THEN "create" ELSE "done"
           /\ UNCHANGED <<flags, currentPipe, mainVars, pipe, line, command, pipeVars>>

PipeCreate == /\ pcPipe = "create"
              /\ \A h \in Handle : state[h] = "closed"
              /\ \E h \in Handle : /\ pipe' = h
                                   /\ state' = [state EXCEPT ![h] = "listening"]
              /\ pcPipe' = "store"
              /\ UNCHANGED <<flags, currentPipe, mainVars, line, command, input, clients,
                             written>>

\* The retry after a failed creation.
PipeCreateFails == /\ pcPipe = "create"
                   /\ Failures
                   /\ pcPipe' = "top"
                   /\ UNCHANGED <<flags, currentPipe, mainVars, pipe, line, command,
                                  pipeVars>>

PipeStore == /\ pcPipe = "store"
             /\ currentPipe' = pipe
             /\ pcPipe' = "connect"
             /\ UNCHANGED <<flags, mainVars, pipe, line, command, pipeVars>>

\* ConnectNamedPipe returns when a client is there, or with an error: the
\* client has come and gone, or the handle was closed.
PipeConnect == /\ pcPipe = "connect"
               /\ state[pipe] # "listening"
               /\ pcPipe' = IF state[pipe] = "connected" THEN "serve" ELSE "abandon"
               /\ line' = EmptyLine
               /\ UNCHANGED <<flags, currentPipe, mainVars, pipe, command, pipeVars>>

\* Bug: the thread closes its handle whether or not Stop has taken it.
PipeReleaseAlways(from, to, next) ==
    /\ pcPipe = from
    /\ currentPipe' = IF currentPipe = pipe THEN NoHandle ELSE currentPipe
    /\ pcPipe' = to
    /\ UNCHANGED <<flags, mainVars, pipe, line, command, pipeVars>>

\* compare_exchange_strong: who takes the handle out of current_pipe_ closes it.
PipeRelease(from, to, next) ==
    /\ pcPipe = from
    /\ IF currentPipe = pipe
         THEN currentPipe' = NoHandle /\ pcPipe' = to
         ELSE UNCHANGED currentPipe /\ pcPipe' = next
    /\ UNCHANGED <<flags, mainVars, pipe, line, command, pipeVars>>

PipeClose(from, next) == /\ pcPipe = from
                         /\ Close(pipe)
                         /\ pcPipe' = next
                         /\ UNCHANGED <<flags, currentPipe, mainVars, pipe, line, command>>

PipeServe == /\ pcPipe = "serve"
             /\ pcPipe' = IF running THEN "read" ELSE "disconnect"
             /\ UNCHANGED <<flags, currentPipe, mainVars, pipe, line, command, pipeVars>>

\* Bug: one byte too many goes with each message and its newline.
PipeReadErasesMore ==
    /\ pcPipe = "read"
    /\ input # <<>>
    /\ input' = Tail(input)
    /\ LET chunk == Head(input)
           rest  == chunk.rest + IF chunk.commands = <<>> THEN line.rest ELSE -1
       IN  /\ line' = [commands |-> chunk.commands, rest |-> rest]
           /\ pcPipe' = IF rest > MaxMessage /\ chunk.commands = <<>>
                          THEN "disconnect" ELSE "next"
    /\ UNCHANGED <<flags, currentPipe, mainVars, pipe, command, state, clients, written>>

\* Bug: the limit on input without a newline is not checked.
PipeReadUnlimited ==
    /\ pcPipe = "read"
    /\ input # <<>>
    /\ input' = Tail(input)
    /\ LET chunk == Head(input)
           rest  == chunk.rest + IF chunk.commands = <<>> THEN line.rest ELSE 0
       IN  line' = [commands |-> chunk.commands, rest |-> rest]
    /\ pcPipe' = "next"
    /\ UNCHANGED <<flags, currentPipe, mainVars, pipe, command, state, clients, written>>

\* ReadFile and the limit on what has no newline yet.
PipeRead ==
    /\ pcPipe = "read"
    /\ input # <<>>
    /\ input' = Tail(input)
    /\ LET chunk == Head(input)
           rest  == chunk.rest + IF chunk.commands = <<>> THEN line.rest ELSE 0
       IN  /\ line' = [commands |-> chunk.commands, rest |-> rest]
           /\ pcPipe' = IF rest > MaxMessage /\ chunk.commands = <<>>
                          THEN "disconnect" ELSE "next"
    /\ UNCHANGED <<flags, currentPipe, mainVars, pipe, command, state, clients, written>>

PipeReadFails == /\ pcPipe = "read"
                 /\ input = <<>> /\ state[pipe] # "connected"
                 /\ pcPipe' = "disconnect"
                 /\ UNCHANGED <<flags, currentPipe, mainVars, pipe, line, command, pipeVars>>

\* The next complete line that is not empty, or back to reading.
PipeNext ==
    /\ pcPipe = "next"
    /\ IF line.commands # <<>>
         THEN /\ line' = [line EXCEPT !.commands = Tail(line.commands)]
              /\ IF Head(line.commands) = "empty"
                   THEN UNCHANGED <<command, pcPipe>>
                   ELSE command' = Head(line.commands) /\ pcPipe' = "run"
         ELSE /\ pcPipe' = IF shutdownRequested THEN "disconnect" ELSE "serve"
              /\ UNCHANGED <<command, line>>
    /\ UNCHANGED <<flags, currentPipe, mainVars, pipe, pipeVars>>

\* ProcessCommand.  What the commands do to the engine is in AudioEngine.
PipeRun == /\ pcPipe = "run"
           /\ shutdownRequested' = (shutdownRequested \/ command = "shutdown")
           /\ command' = "none"
           /\ pcPipe' = "answer"
           /\ UNCHANGED <<running, interrupted, currentPipe, mainVars, pipe, line, pipeVars>>

\* Bug: a shutdown command does not end the loop over the commands read.
PipeAnsweredGoesOn == /\ pcPipe = "answer"
                      /\ pcPipe' = "next"
                      /\ UNCHANGED <<flags, currentPipe, mainVars, pipe, line, command,
                                     pipeVars>>

\* WriteFile and FlushFileBuffers have returned.
PipeAnswered == /\ pcPipe = "answer"
                /\ pcPipe' = IF shutdownRequested THEN "disconnect" ELSE "next"
                /\ UNCHANGED <<flags, currentPipe, mainVars, pipe, line, command, pipeVars>>

\* They return when the client has read the answer, whenever that may be, ...
ClientReads == /\ pcPipe = "answer"
               /\ state[pipe] = "connected"
               /\ PipeAnswered

\* ... or at once when there is no client any more.
PipeAnswerFails == /\ pcPipe = "answer"
                   /\ state[pipe] # "connected"
                   /\ PipeAnswered

PipeDisconnect == /\ pcPipe = "disconnect"
                  /\ Disconnect(pipe)
                  /\ pcPipe' = "release"
                  /\ UNCHANGED <<flags, currentPipe, mainVars, pipe, line, command>>

\* Bug: after a connection, too, only running_ is looked at.
PipeEndByRunning == /\ pcPipe \in {"served", "abandoned"}
                    /\ pcPipe' = IF running THEN "top" ELSE "done"
                    /\ pipe' = NoHandle
                    /\ line' = EmptyLine
                    /\ UNCHANGED <<flags, currentPipe, mainVars, command, pipeVars>>

\* The end of a connection, or of an attempt at one.
PipeEnd == /\ pcPipe \in {"served", "abandoned"}
           /\ LET last == IF pcPipe = "served" THEN shutdownRequested ELSE ~running
              IN  pcPipe' = IF last THEN "done" ELSE "top"
           /\ pipe' = NoHandle
           /\ line' = EmptyLine
           /\ UNCHANGED <<flags, currentPipe, mainVars, command, pipeVars>>

PipeStep == \/ PipeTop \/ PipeCreate \/ PipeCreateFails \/ PipeStore \/ PipeConnect
            \/ PipeRelease("abandon", "abandonClose", "abandoned")
            \/ PipeClose("abandonClose", "abandoned")
            \/ PipeServe \/ PipeRead \/ PipeReadFails \/ PipeNext \/ PipeRun
            \/ PipeAnswerFails \/ PipeDisconnect
            \/ PipeRelease("release", "close", "served")
            \/ PipeClose("close", "served")
            \/ PipeEnd

-----------------------------------------------------------------------------
(* main *)

Interrupt == /\ ~interrupted
             /\ interrupted' = TRUE
             /\ UNCHANGED <<running, shutdownRequested, currentPipe, mainVars, threadVars,
                            pipeVars>>

MainWait == /\ pcMain = "wait"
            /\ interrupted \/ shutdownRequested
            /\ pcMain' = "stop"
            /\ UNCHANGED <<flags, currentPipe, stopping, threadVars, pipeVars>>

StopFlag == /\ pcMain = "stop"
            /\ running' = FALSE
            /\ pcMain' = "exchange"
            /\ UNCHANGED <<shutdownRequested, interrupted, currentPipe, stopping,
                           threadVars, pipeVars>>

StopExchange == /\ pcMain = "exchange"
                /\ stopping' = currentPipe
                /\ currentPipe' = NoHandle
                /\ pcMain' = IF currentPipe = NoHandle THEN "join" ELSE "disconnect"
                /\ UNCHANGED <<flags, threadVars, pipeVars>>

StopDisconnect == /\ pcMain = "disconnect"
                  /\ Disconnect(stopping)
                  /\ pcMain' = "close"
                  /\ UNCHANGED <<flags, currentPipe, stopping, threadVars>>

StopClose == /\ pcMain = "close"
             /\ Close(stopping)
             /\ stopping' = NoHandle
             /\ pcMain' = "join"
             /\ UNCHANGED <<flags, currentPipe, threadVars>>

\* Bug: the pipe thread is not waited for.
StopJoinSkipped == /\ pcMain = "join"
                   /\ pcMain' = "exit"
                   /\ UNCHANGED <<flags, currentPipe, stopping, threadVars, pipeVars>>

\* The pipe thread has returned: main stops the engine and exits.
StopJoin == /\ pcMain = "join"
            /\ pcPipe = "done"
            /\ pcMain' = "exit"
            /\ UNCHANGED <<flags, currentPipe, stopping, threadVars, pipeVars>>

MainStep == \/ MainWait \/ StopFlag \/ StopExchange \/ StopDisconnect \/ StopClose
            \/ StopJoin

Next == \/ MainStep \/ PipeStep \/ Interrupt
        \/ ClientConnect \/ ClientWrite \/ ClientReads \/ ClientLeave

Spec == Init /\ [][Next]_vars

\* Both threads go on; a client never has to do anything.
FairSpec == Spec /\ WF_vars(MainStep) /\ WF_vars(PipeStep)

-----------------------------------------------------------------------------
(* Properties *)

\* The variables keep their types.
TypeOK ==
    /\ running \in BOOLEAN /\ shutdownRequested \in BOOLEAN /\ interrupted \in BOOLEAN
    /\ currentPipe \in Handle \cup {NoHandle} /\ stopping \in Handle \cup {NoHandle}
    /\ pipe \in Handle \cup {NoHandle}
    /\ pcMain \in {"wait", "stop", "exchange", "disconnect", "close", "join", "exit"}
    /\ pcPipe \in {"top", "create", "store", "connect", "abandon", "abandonClose",
                   "abandoned", "serve", "read", "next", "run", "answer", "disconnect",
                   "release", "close", "served", "done"}
    /\ line.commands \in Seq(Command) /\ line.rest \in Nat
    /\ command \in (Command \ {"empty"}) \cup {"none"}
    /\ state \in [Handle -> {"closed", "listening", "connected", "left", "cut"}]
    /\ input \in Seq(Chunks) /\ clients \in 0 .. MaxClients /\ written \in 0 .. MaxInput

\* Who is going to close a handle: the pipe thread, main in Stop, or whichever
\* of them takes it out of current_pipe_.
WillClose(who, h) ==
    CASE who = "pipe"    -> pipe = h /\ pcPipe \in {"store", "abandonClose", "close"}
      [] who = "main"    -> stopping = h /\ pcMain \in {"disconnect", "close"}
      [] who = "current" -> currentPipe = h

Closers == {"pipe", "main", "current"}

\* An open handle has exactly one closer and a closed one none: no handle is
\* closed twice, whoever wins the race for it, and none is leaked
\* (ipc_server.cpp:108-110, 200, 263).
OneCloser ==
    \A h \in Handle :
       /\ state[h] # "closed" <=> \E who \in Closers : WillClose(who, h)
       /\ \A who, other \in Closers : WillClose(who, h) /\ WillClose(other, h) => who = other

\* When main goes on from Stop to the engine the pipe thread is gone, so that no
\* command runs on an engine being destroyed, and the pipe is closed.
NothingLeft == pcMain = "exit" => /\ pcPipe = "done"
                                  /\ \A h \in Handle : state[h] = "closed"

\* A shutdown is the last command the engine is given, also when the client has
\* sent others right behind it (ipc_server.cpp:255-256).
ShutdownIsLast == pcPipe = "run" => ~shutdownRequested

\* What waits for its newline stays within the limit (ipc_server.cpp:226-229).
BufferBounded == pcPipe = "read" => line.rest <= MaxMessage

\* A shutdown command ends the process, whatever its client does or fails to do.
ShutdownCompletes == shutdownRequested ~> pcMain = "exit"

-----------------------------------------------------------------------------
(* What a comment of the source says and the code does not always do *)

\* Closing the handle unblocks the pipe thread (ipc_server.cpp:108-110): Stop
\* returns.
StopReturns == pcMain = "join" ~> pcMain = "exit"
=============================================================================
