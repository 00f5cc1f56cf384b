-------------------------- MODULE IpcServer_proofs --------------------------
(***************************************************************************)
(* Theorems about IpcServer, for every number of handles, clients and      *)
(* chunks.                                                                 *)
(*                                                                         *)
(* OneCloser is not inductive: it does not say that the thread, when it    *)
(* publishes a new handle, overwrites no other in current_pipe_ (Current), *)
(* nor that whoever is about to close a handle has one (HasHandle).        *)
(***************************************************************************)
EXTENDS IpcServer, SequenceTheorems, TLAPS

\* Outside a connection current_pipe_ is empty, and inside it holds no other
\* handle than the thread's.
Current ==
    /\ currentPipe \in {pipe, NoHandle}
    /\ pcPipe \in {"top", "create", "store", "abandonClose", "abandoned", "close",
                   "served", "done"} => currentPipe = NoHandle

\* Who works on a handle has one.
HasHandle == /\ pcPipe \notin {"top", "create", "done"} => pipe \in Handle
             /\ pcMain \in {"disconnect", "close"} => stopping \in Handle

\* After a shutdown the pipe thread only finishes.
Finishing == shutdownRequested => pcPipe \in {"answer", "disconnect", "release", "close",
                                              "served", "done"}

\* The bound on the bytes kept holds wherever the thread can go back to reading.
LineBounded == pcPipe \in {"serve", "read", "next", "run", "answer"}
                  => line.rest <= MaxMessage

LineType == line \in [commands : Seq(Command), rest : Nat]

IInv == /\ TypeOK
        /\ LineType
        /\ Current
        /\ HasHandle
        /\ OneCloser
        /\ NothingLeft
        /\ Finishing
        /\ LineBounded

-----------------------------------------------------------------------------

StateType == state \in [Handle -> {"closed", "listening", "connected", "left", "cut"}]

\* What the operations of the pipe leave behind has its type.
LEMMA PipeTypes ==
    ASSUME StateType, input \in Seq(Chunks), NEW h,
           Close(h) \/ Disconnect(h)
    PROVE  StateType' /\ input' \in Seq(Chunks) /\ UNCHANGED <<clients, written>>
<1>1. <<>> \in Seq(Chunks)
  OBVIOUS
<1>2. CASE Close(h)
  BY <1>1, <1>2 DEF Close, StateType
<1>3. CASE Disconnect(h)
  <2>1. CASE state[h] \in {"connected", "left"}
    BY <1>1, <1>3, <2>1 DEF Disconnect, StateType
  <2>2. CASE state[h] \notin {"connected", "left"}
    BY <1>3, <2>2 DEF Disconnect, StateType
  <2> QED  BY <2>1, <2>2
<1> QED  BY <1>2, <1>3

LEMMA EmptyLineType ==
    /\ EmptyLine \in [commands : Seq(Command), rest : Nat]
    /\ EmptyLine.commands \in Seq(Command) /\ EmptyLine.rest = 0
<1>1. <<>> \in Seq(Command)
  OBVIOUS
<1> QED  BY <1>1 DEF EmptyLine

LEMMA InitHolds == Init => IInv
<1> SUFFICES ASSUME Init PROVE IInv
  OBVIOUS
<1> USE IpcAssumption
<1>1. TypeOK /\ LineType
  <2>1. <<>> \in Seq(Chunks)
    OBVIOUS
  <2>2. LineType /\ line.commands \in Seq(Command) /\ line.rest \in Nat
    BY EmptyLineType DEF Init, LineType
  <2>3. state \in [Handle -> {"closed", "listening", "connected", "left", "cut"}]
    BY DEF Init
  <2>4. clients \in 0 .. MaxClients /\ written \in 0 .. MaxInput
    BY DEF Init
  <2> QED  BY <2>1, <2>2, <2>3, <2>4 DEF Init, TypeOK
<1>2. Current /\ HasHandle /\ NothingLeft /\ Finishing /\ LineBounded
  BY DEF Init, Current, HasHandle, NothingLeft, Finishing, LineBounded
<1>3. OneCloser
  BY DEF Init, OneCloser, WillClose, Closers
<1> QED  BY <1>1, <1>2, <1>3 DEF IInv

\* The steps of the pipe thread that leave the handles alone.
Quiet == PipeTop \/ PipeCreateFails \/ PipeConnect \/ PipeServe \/ PipeRead
            \/ PipeReadFails \/ PipeNext \/ PipeRun \/ PipeAnswered \/ PipeEnd

Releases == \/ PipeRelease("abandon", "abandonClose", "abandoned")
            \/ PipeRelease("release", "close", "served")

Closes == PipeClose("abandonClose", "abandoned") \/ PipeClose("close", "served")

Client == ClientConnect \/ ClientWrite \/ ClientLeave

LEMMA Steps ==
    Next => \/ Quiet \/ PipeCreate \/ PipeStore \/ Releases \/ Closes \/ PipeDisconnect
            \/ Client \/ Interrupt
            \/ MainWait \/ StopFlag \/ StopExchange \/ StopDisconnect \/ StopClose
            \/ StopJoin
  BY DEF Next, MainStep, PipeStep, ClientReads, PipeAnswerFails, Quiet, Releases, Closes,
         Client

-----------------------------------------------------------------------------
(* Types *)

LEMMA TypeStep ==
    ASSUME IInv, [Next]_vars
    PROVE  TypeOK' /\ LineType'
<1> USE IpcAssumption DEF IInv, TypeOK
<1>1. CASE Quiet
  <2>1. CASE PipeTop \/ PipeCreateFails \/ PipeServe \/ PipeReadFails \/ PipeAnswered
    BY <2>1 DEF PipeTop, PipeCreateFails, PipeServe, PipeReadFails, PipeAnswered, LineType,
                flags, mainVars, threadVars, pipeVars
  <2>2. CASE PipeConnect \/ PipeEnd
    <3>1. line' = EmptyLine
      BY <2>2 DEF PipeConnect, PipeEnd
    <3>2. LineType' /\ line'.commands \in Seq(Command) /\ line'.rest \in Nat
      BY <3>1, EmptyLineType DEF LineType
    <3>3. pcPipe' \in {"serve", "abandon", "done", "top"}
      BY <2>2 DEF PipeConnect, PipeEnd
    <3>4. pipe' \in Handle \cup {NoHandle}
      BY <2>2 DEF PipeConnect, PipeEnd
    <3> QED  BY <2>2, <3>2, <3>3, <3>4 DEF PipeConnect, PipeEnd, flags, mainVars, pipeVars
  <2>3. CASE PipeRun
    BY <2>3 DEF PipeRun, LineType, mainVars, pipeVars
  <2>4. CASE PipeRead
    <3>1. Head(input) \in Chunks /\ Tail(input) \in Seq(Chunks)
      BY <2>4 DEF PipeRead
    <3>2. Head(input).commands \in Seq(Command) /\ Head(input).rest \in Nat
      BY <3>1
    <3>3. LineType' /\ line'.commands \in Seq(Command) /\ line'.rest \in Nat
      BY <2>4, <3>2 DEF PipeRead, LineType
    <3>4. pcPipe' \in {"disconnect", "next"}
      BY <2>4 DEF PipeRead
    <3> QED  BY <2>4, <3>1, <3>3, <3>4 DEF PipeRead, flags, mainVars
  <2>5. CASE PipeNext
    <3>1. CASE line.commands # <<>>
      <4>1. Head(line.commands) \in Command /\ Tail(line.commands) \in Seq(Command)
        BY <3>1
      <4>2. line' = [line EXCEPT !.commands = Tail(line.commands)]
        BY <2>5, <3>1 DEF PipeNext
      <4>3. LineType' /\ line'.commands \in Seq(Command) /\ line'.rest \in Nat
        BY <4>1, <4>2 DEF LineType
      <4>4. \/ command' = command /\ pcPipe' = pcPipe
            \/ command' \in Command \ {"empty"} /\ pcPipe' = "run"
        BY <2>5, <3>1, <4>1 DEF PipeNext
      <4> QED  BY <2>5, <4>3, <4>4 DEF PipeNext, flags, mainVars, pipeVars
    <3>2. CASE line.commands = <<>>
      BY <2>5, <3>2 DEF PipeNext, LineType, flags, mainVars, pipeVars
    <3> QED  BY <3>1, <3>2
  <2> QED  BY <1>1, <2>1, <2>2, <2>3, <2>4, <2>5 DEF Quiet
<1>2. CASE PipeCreate
  BY <1>2 DEF PipeCreate, LineType, flags, mainVars
<1>3. CASE PipeStore
  BY <1>3 DEF PipeStore, LineType, flags, mainVars, pipeVars
<1>4. CASE Releases
  BY <1>4 DEF Releases, PipeRelease, LineType, flags, mainVars, pipeVars
<1>5. CASE Closes
  <2>1. StateType' /\ input' \in Seq(Chunks) /\ UNCHANGED <<clients, written>>
    BY <1>5, PipeTypes DEF Closes, PipeClose, StateType
  <2> QED  BY <1>5, <2>1 DEF Closes, PipeClose, StateType, LineType, flags, mainVars
<1>6. CASE PipeDisconnect
  <2>1. StateType' /\ input' \in Seq(Chunks) /\ UNCHANGED <<clients, written>>
    BY <1>6, PipeTypes DEF PipeDisconnect, StateType
  <2> QED  BY <1>6, <2>1 DEF PipeDisconnect, StateType, LineType, flags, mainVars
<1>7. CASE Client
  <2>1. CASE ClientConnect
    BY <2>1 DEF ClientConnect, LineType, flags, mainVars, threadVars
  <2>2. CASE ClientWrite
    BY <2>2 DEF ClientWrite, LineType, flags, mainVars, threadVars
  <2>3. CASE ClientLeave
    BY <2>3 DEF ClientLeave, LineType, flags, mainVars, threadVars
  <2> QED  BY <1>7, <2>1, <2>2, <2>3 DEF Client
<1>8. CASE Interrupt \/ MainWait \/ StopFlag \/ StopExchange \/ StopJoin
  BY <1>8 DEF Interrupt, MainWait, StopFlag, StopExchange, StopJoin, LineType, flags,
              mainVars, threadVars, pipeVars
<1>9. CASE StopDisconnect
  <2>1. StateType' /\ input' \in Seq(Chunks) /\ UNCHANGED <<clients, written>>
    BY <1>9, PipeTypes DEF StopDisconnect, StateType
  <2> QED  BY <1>9, <2>1 DEF StopDisconnect, StateType, LineType, flags, threadVars
<1>10. CASE StopClose
  <2>1. StateType' /\ input' \in Seq(Chunks) /\ UNCHANGED <<clients, written>>
    BY <1>10, PipeTypes DEF StopClose, StateType
  <2> QED  BY <1>10, <2>1 DEF StopClose, StateType, LineType, flags, threadVars
<1>11. CASE UNCHANGED vars
  BY <1>11 DEF vars, LineType, flags, mainVars, threadVars, pipeVars
<1> QED  BY Steps, <1>1, <1>2, <1>3, <1>4, <1>5, <1>6, <1>7, <1>8, <1>9, <1>10, <1>11

-----------------------------------------------------------------------------
(* Where the handle is *)

LEMMA HandleStep ==
    ASSUME IInv, [Next]_vars
    PROVE  Current' /\ HasHandle'
<1> USE IpcAssumption DEF IInv, Current, HasHandle
<1>1. CASE Quiet
  BY <1>1 DEF Quiet, PipeTop, PipeCreateFails, PipeConnect, PipeServe, PipeRead,
              PipeReadFails, PipeNext, PipeRun, PipeAnswered, PipeEnd, flags, mainVars,
              pipeVars
<1>2. CASE PipeCreate
  BY <1>2 DEF PipeCreate, flags, mainVars
<1>3. CASE PipeStore
  BY <1>3 DEF PipeStore, flags, mainVars, pipeVars
<1>4. CASE Releases
  BY <1>4 DEF Releases, PipeRelease, flags, mainVars, pipeVars
<1>5. CASE Closes \/ PipeDisconnect
  BY <1>5 DEF Closes, PipeClose, PipeDisconnect, flags, mainVars
<1>6. CASE Client \/ Interrupt
  BY <1>6 DEF Client, ClientConnect, ClientWrite, ClientLeave, Interrupt, flags, mainVars,
              threadVars, pipeVars
<1>7. CASE MainWait \/ StopFlag \/ StopDisconnect \/ StopClose \/ StopJoin
  BY <1>7 DEF MainWait, StopFlag, StopDisconnect, StopClose, StopJoin, flags, threadVars,
              pipeVars
<1>8. CASE StopExchange
  BY <1>8 DEF StopExchange, TypeOK, flags, threadVars, pipeVars
<1>9. CASE UNCHANGED vars
  BY <1>9 DEF vars, flags, mainVars, threadVars, pipeVars
<1> QED  BY Steps, <1>1, <1>2, <1>3, <1>4, <1>5, <1>6, <1>7, <1>8, <1>9

-----------------------------------------------------------------------------
(* Who closes it *)

\* A step after which the same actors are to close the same handles.
LEMMA SameClosers ==
    ASSUME OneCloser,
           \A h \in Handle : state'[h] = "closed" <=> state[h] = "closed",
           \A h \in Handle, who \in Closers : WillClose(who, h)' <=> WillClose(who, h)
    PROVE  OneCloser'
  BY DEF OneCloser, Closers

\* The closers of a handle, spelled out.
LEMMA CloserIs ==
    ASSUME NEW h
    PROVE  /\ WillClose("pipe", h) <=>
                 pipe = h /\ pcPipe \in {"store", "abandonClose", "close"}
           /\ WillClose("main", h) <=> stopping = h /\ pcMain \in {"disconnect", "close"}
           /\ WillClose("current", h) <=> currentPipe = h
           /\ WillClose("pipe", h)' <=>
                 pipe' = h /\ pcPipe' \in {"store", "abandonClose", "close"}
           /\ WillClose("main", h)' <=>
                 stopping' = h /\ pcMain' \in {"disconnect", "close"}
           /\ WillClose("current", h)' <=> currentPipe' = h
  BY DEF WillClose

\* OneCloser without its quantifiers over actors, in a state and in the next one.
LEMMA OneCloserIs ==
    ASSUME OneCloser, NEW h \in Handle
    PROVE  /\ state[h] # "closed" <=> \/ WillClose("pipe", h) \/ WillClose("main", h)
                                     \/ WillClose("current", h)
           /\ ~(WillClose("pipe", h) /\ WillClose("main", h))
           /\ ~(WillClose("pipe", h) /\ WillClose("current", h))
           /\ ~(WillClose("main", h) /\ WillClose("current", h))
  BY DEF OneCloser, Closers

LEMMA OneCloserNext ==
    ASSUME \A h \in Handle :
              /\ state'[h] # "closed" <=> \/ WillClose("pipe", h)'
                                         \/ WillClose("main", h)'
                                         \/ WillClose("current", h)'
              /\ ~(WillClose("pipe", h)' /\ WillClose("main", h)')
              /\ ~(WillClose("pipe", h)' /\ WillClose("current", h)')
              /\ ~(WillClose("main", h)' /\ WillClose("current", h)')
    PROVE  OneCloser'
  BY DEF OneCloser, Closers

LEMMA CloserStep ==
    ASSUME IInv, [Next]_vars
    PROVE  OneCloser'
<1> USE IpcAssumption DEF IInv
<1> DEFINE W(who, h) == WillClose(who, h)
<1>0. \A h \in Handle :
         /\ state[h] # "closed" <=> \/ W("pipe", h) \/ W("main", h) \/ W("current", h)
         /\ ~(W("pipe", h) /\ W("main", h))
         /\ ~(W("pipe", h) /\ W("current", h))
         /\ ~(W("main", h) /\ W("current", h))
  BY OneCloserIs
<1>1. CASE Quiet
  <2>1. UNCHANGED <<state, currentPipe, stopping, pcMain>>
    BY <1>1 DEF Quiet, PipeTop, PipeCreateFails, PipeConnect, PipeServe, PipeRead,
                PipeReadFails, PipeNext, PipeRun, PipeAnswered, PipeEnd, mainVars, pipeVars
  <2>2. /\ pcPipe \notin {"store", "abandonClose", "close"}
        /\ pcPipe' \notin {"store", "abandonClose", "close"}
    BY <1>1 DEF Quiet, PipeTop, PipeCreateFails, PipeConnect, PipeServe, PipeRead,
                PipeReadFails, PipeNext, PipeRun, PipeAnswered, PipeEnd
  <2>3. \A h \in Handle, who \in Closers : WillClose(who, h)' <=> WillClose(who, h)
    BY <2>1, <2>2, CloserIs DEF Closers
  <2> QED  BY <2>1, <2>3, SameClosers
<1>2. CASE PipeCreate
  <2>1. PICK new \in Handle : pipe' = new /\ state' = [state EXCEPT ![new] = "listening"]
    BY <1>2 DEF PipeCreate
  <2>2. \A h \in Handle : ~W("main", h) /\ ~W("current", h)
    BY <1>0, <1>2 DEF PipeCreate
  <2>3. \A h \in Handle : state'[h] # "closed" <=> h = new
    BY <1>2, <2>1 DEF PipeCreate, TypeOK
  <2>4. pcPipe' = "store" /\ UNCHANGED <<currentPipe, stopping, pcMain>>
    BY <1>2 DEF PipeCreate, mainVars
  <2>5. \A h \in Handle : /\ W("pipe", h)' <=> h = new
                          /\ ~W("main", h)' /\ ~W("current", h)'
    BY <2>1, <2>2, <2>4, CloserIs
  <2> QED  BY <2>3, <2>5, OneCloserNext
<1>3. CASE PipeStore
  <2>1. /\ pcPipe = "store" /\ currentPipe' = pipe /\ pcPipe' = "connect"
        /\ UNCHANGED <<state, pipe, stopping, pcMain>>
    BY <1>3 DEF PipeStore, mainVars, pipeVars
  <2>2. currentPipe = NoHandle
    BY <2>1 DEF Current
  <2>3. \A h \in Handle : /\ W("current", h)' <=> W("pipe", h)
                          /\ ~W("pipe", h)' /\ ~W("current", h)
                          /\ W("main", h)' <=> W("main", h)
    BY <2>1, <2>2, CloserIs
  <2> QED  BY <1>0, <2>1, <2>3, OneCloserNext
<1>4. CASE Releases
  <2>1. /\ pcPipe \in {"abandon", "release"}
        /\ UNCHANGED <<state, pipe, stopping, pcMain>>
        /\ \/ /\ currentPipe = pipe /\ currentPipe' = NoHandle
              /\ pcPipe' \in {"abandonClose", "close"}
           \/ /\ currentPipe # pipe /\ UNCHANGED currentPipe
              /\ pcPipe' \in {"abandoned", "served"}
    BY <1>4 DEF Releases, PipeRelease, mainVars, pipeVars
  <2>2. CASE currentPipe = pipe
    <3>1. \A h \in Handle : /\ W("pipe", h)' <=> W("current", h)
                            /\ ~W("pipe", h) /\ ~W("current", h)'
                            /\ W("main", h)' <=> W("main", h)
      BY <2>1, <2>2, CloserIs
    <3> QED  BY <1>0, <2>1, <3>1, OneCloserNext
  <2>3. CASE currentPipe # pipe
    <3>1. \A h \in Handle, who \in Closers : WillClose(who, h)' <=> WillClose(who, h)
      BY <2>1, <2>3, CloserIs DEF Closers
    <3> QED  BY <2>1, <3>1, SameClosers
  <2> QED  BY <2>2, <2>3
<1>5. CASE Closes
  <2>1. /\ pcPipe \in {"abandonClose", "close"} /\ pcPipe' \in {"abandoned", "served"}
        /\ UNCHANGED <<pipe, currentPipe, stopping, pcMain>>
        /\ state' = [state EXCEPT ![pipe] = "closed"]
    BY <1>5 DEF Closes, PipeClose, Close, mainVars
  <2>2. \A h \in Handle : state'[h] # "closed" <=> state[h] # "closed" /\ h # pipe
    BY <2>1 DEF TypeOK
  <2>3. \A h \in Handle : /\ W("pipe", h) <=> h = pipe
                          /\ ~W("pipe", h)'
                          /\ W("main", h)' <=> W("main", h)
                          /\ W("current", h)' <=> W("current", h)
    BY <2>1, CloserIs
  <2> QED  BY <1>0, <2>2, <2>3, OneCloserNext
<1>6. CASE PipeDisconnect \/ Client \/ Interrupt
  <2>1. UNCHANGED <<pipe, currentPipe, stopping, pcMain>>
    BY <1>6 DEF PipeDisconnect, Client, ClientConnect, ClientWrite, ClientLeave, Interrupt,
                mainVars, threadVars
  <2>2. /\ pcPipe' = pcPipe \/ (pcPipe = "disconnect" /\ pcPipe' = "release")
    BY <1>6 DEF PipeDisconnect, Client, ClientConnect, ClientWrite, ClientLeave, Interrupt,
                threadVars
  <2>3. \A h \in Handle : state'[h] = "closed" <=> state[h] = "closed"
    BY <1>6 DEF PipeDisconnect, Disconnect, Client, ClientConnect, ClientWrite, ClientLeave,
                Interrupt, pipeVars, TypeOK
  <2>4. \A h \in Handle, who \in Closers : WillClose(who, h)' <=> WillClose(who, h)
    BY <2>1, <2>2, CloserIs DEF Closers
  <2> QED  BY <2>3, <2>4, SameClosers
<1>7. CASE MainWait \/ StopFlag \/ StopJoin
  <2>1. UNCHANGED <<pipe, pcPipe, currentPipe, stopping, state>>
    BY <1>7 DEF MainWait, StopFlag, StopJoin, threadVars, pipeVars, flags
  <2>2. pcMain \notin {"disconnect", "close"} /\ pcMain' \notin {"disconnect", "close"}
    BY <1>7 DEF MainWait, StopFlag, StopJoin
  <2>3. \A h \in Handle, who \in Closers : WillClose(who, h)' <=> WillClose(who, h)
    BY <2>1, <2>2, CloserIs DEF Closers
  <2> QED  BY <2>1, <2>3, SameClosers
<1>8. CASE StopExchange
  <2>1. /\ pcMain = "exchange" /\ stopping' = currentPipe /\ currentPipe' = NoHandle
        /\ pcMain' = IF currentPipe = NoHandle THEN "join" ELSE "disconnect"
        /\ UNCHANGED <<pipe, pcPipe, state>>
    BY <1>8 DEF StopExchange, threadVars, pipeVars
  <2>2. \A h \in Handle : /\ W("main", h)' <=> W("current", h)
                          /\ ~W("current", h)' /\ ~W("main", h)
                          /\ W("pipe", h)' <=> W("pipe", h)
    BY <2>1, CloserIs
  <2> QED  BY <1>0, <2>1, <2>2, OneCloserNext
<1>9. CASE StopDisconnect
  <2>1. /\ pcMain = "disconnect" /\ pcMain' = "close"
        /\ UNCHANGED <<pipe, pcPipe, currentPipe, stopping>>
    BY <1>9 DEF StopDisconnect, threadVars
  <2>2. \A h \in Handle : state'[h] = "closed" <=> state[h] = "closed"
    BY <1>9 DEF StopDisconnect, Disconnect, TypeOK
  <2>3. \A h \in Handle, who \in Closers : WillClose(who, h)' <=> WillClose(who, h)
    BY <2>1, CloserIs DEF Closers
  <2> QED  BY <2>2, <2>3, SameClosers
<1>10. CASE StopClose
  <2>1. /\ pcMain = "close" /\ pcMain' = "join"
        /\ UNCHANGED <<pipe, pcPipe, currentPipe>>
        /\ state' = [state EXCEPT ![stopping] = "closed"]
    BY <1>10 DEF StopClose, Close, threadVars
  <2>2. \A h \in Handle : state'[h] # "closed" <=> state[h] # "closed" /\ h # stopping
    BY <2>1 DEF TypeOK
  <2>3. \A h \in Handle : /\ W("main", h) <=> h = stopping
                          /\ ~W("main", h)'
                          /\ W("pipe", h)' <=> W("pipe", h)
                          /\ W("current", h)' <=> W("current", h)
    BY <2>1, CloserIs
  <2> QED  BY <1>0, <2>2, <2>3, OneCloserNext
<1>11. CASE UNCHANGED vars
  <2>1. UNCHANGED <<state, pipe, pcPipe, currentPipe, stopping, pcMain>>
    BY <1>11 DEF vars, mainVars, threadVars, pipeVars
  <2>2. \A h \in Handle, who \in Closers : WillClose(who, h)' <=> WillClose(who, h)
    BY <2>1, CloserIs DEF Closers
  <2> QED  BY <2>1, <2>2, SameClosers
<1> QED  BY Steps, <1>1, <1>2, <1>3, <1>4, <1>5, <1>6, <1>7, <1>8, <1>9, <1>10, <1>11

-----------------------------------------------------------------------------
(* The end, and the reading of commands *)

LEMMA EndStep ==
    ASSUME IInv, [Next]_vars
    PROVE  NothingLeft'
<1> USE IpcAssumption DEF IInv
<1>1. CASE pcMain = "exit"
  <2>1. pcPipe = "done" /\ \A h \in Handle : state[h] = "closed"
    BY <1>1 DEF NothingLeft
  <2>2. pcPipe' = "done" /\ \A h \in Handle : state'[h] = "closed"
    BY Steps, <1>1, <2>1
       DEF Quiet, PipeTop, PipeCreateFails, PipeConnect, PipeServe, PipeRead,
           PipeReadFails, PipeNext, PipeRun, PipeAnswered, PipeEnd, PipeCreate, PipeStore,
           Releases, PipeRelease, Closes, PipeClose, PipeDisconnect, Client, ClientConnect,
           ClientWrite, ClientLeave, Interrupt, MainWait, StopFlag, StopExchange,
           StopDisconnect, StopClose, StopJoin, vars, threadVars, pipeVars
  <2> QED  BY <2>2 DEF NothingLeft
<1>2. CASE StopJoin
  <2>1. /\ pcMain = "join" /\ pcPipe = "done" /\ currentPipe = NoHandle
        /\ UNCHANGED <<state, pcPipe>>
    BY <1>2 DEF StopJoin, Current, threadVars, pipeVars
  <2>2. \A h \in Handle : state[h] = "closed"
    BY <2>1, OneCloserIs, CloserIs
  <2> QED  BY <2>1, <2>2 DEF NothingLeft
<1>3. CASE pcMain # "exit" /\ ~StopJoin
  <2>1. pcMain' # "exit"
    BY Steps, <1>3
       DEF Quiet, PipeTop, PipeCreateFails, PipeConnect, PipeServe, PipeRead,
           PipeReadFails, PipeNext, PipeRun, PipeAnswered, PipeEnd, PipeCreate, PipeStore,
           Releases, PipeRelease, Closes, PipeClose, PipeDisconnect, Client, ClientConnect,
           ClientWrite, ClientLeave, Interrupt, MainWait, StopFlag, StopExchange,
           StopDisconnect, StopClose, vars, mainVars
  <2> QED  BY <2>1 DEF NothingLeft
<1> QED  BY <1>1, <1>2, <1>3

LEMMA ReadStep ==
    ASSUME IInv, [Next]_vars
    PROVE  Finishing' /\ LineBounded'
<1> USE IpcAssumption DEF IInv, Finishing, LineBounded
<1>1. CASE PipeRead
  <2>1. Head(input) \in Chunks
    BY <1>1 DEF PipeRead, TypeOK
  <2>2. Head(input).rest \in 0 .. MaxMessage
    BY <2>1
  <2>3. /\ pcPipe = "read" /\ UNCHANGED shutdownRequested
        /\ pcPipe' \in {"disconnect", "next"}
        /\ pcPipe' = "next" /\ Head(input).commands = <<>> => ~(line'.rest > MaxMessage)
        /\ Head(input).commands # <<>> => line'.rest = Head(input).rest + 0
    BY <1>1 DEF PipeRead, flags
  <2>4. line'.rest \in Nat
    BY TypeStep DEF TypeOK
  <2> QED  BY <2>2, <2>3, <2>4
<1>2. CASE PipeConnect
  <2>1. line'.rest = 0
    BY <1>2, EmptyLineType DEF PipeConnect
  <2>2. pcPipe = "connect" /\ UNCHANGED shutdownRequested
    BY <1>2 DEF PipeConnect, flags
  <2> QED  BY <2>1, <2>2
<1>3. CASE PipeNext
  <2>1. /\ line'.rest = line.rest /\ UNCHANGED shutdownRequested /\ pcPipe = "next"
        /\ shutdownRequested => FALSE
    BY <1>3 DEF PipeNext, flags, LineType
  <2> QED  BY <2>1
<1>4. CASE PipeRun
  BY <1>4 DEF PipeRun
<1>5. CASE PipeEnd
  BY <1>5 DEF PipeEnd, flags
<1>6. CASE PipeTop \/ PipeCreateFails \/ PipeServe \/ PipeReadFails \/ PipeAnswered
  BY <1>6 DEF PipeTop, PipeCreateFails, PipeServe, PipeReadFails, PipeAnswered, flags
<1>7. CASE PipeCreate \/ PipeStore \/ Releases \/ Closes \/ PipeDisconnect
  BY <1>7 DEF PipeCreate, PipeStore, Releases, PipeRelease, Closes, PipeClose,
              PipeDisconnect, flags
<1>8. CASE \/ Client \/ Interrupt \/ MainWait \/ StopFlag \/ StopExchange
           \/ StopDisconnect \/ StopClose \/ StopJoin \/ UNCHANGED vars
  <2>1. UNCHANGED <<shutdownRequested, pcPipe, line>>
    BY <1>8 DEF Client, ClientConnect, ClientWrite, ClientLeave, Interrupt, MainWait,
                StopFlag, StopExchange, StopDisconnect, StopClose, StopJoin, vars, flags,
                threadVars
  <2> QED  BY <2>1
<1> QED  BY Steps, <1>1, <1>2, <1>3, <1>4, <1>5, <1>6, <1>7, <1>8 DEF Quiet

-----------------------------------------------------------------------------
(* Theorems *)

THEOREM Invariance == Spec => []IInv
<1>1. Init => IInv
  BY InitHolds
<1>2. IInv /\ [Next]_vars => IInv'
  BY TypeStep, HandleStep, CloserStep, EndStep, ReadStep DEF IInv
<1> QED  BY <1>1, <1>2, PTL DEF Spec

\* The variables keep their types.
THEOREM TypeCorrect == Spec => []TypeOK
<1>1. IInv => TypeOK
  BY DEF IInv
<1> QED  BY <1>1, Invariance, PTL

\* Each open handle has one closer, whoever takes it out of current_pipe_
\* (ipc_server.cpp:111-116, 199-204, 263-267).
THEOREM ClosedOnce == Spec => []OneCloser
<1>1. IInv => OneCloser
  BY DEF IInv
<1> QED  BY <1>1, Invariance, PTL

\* main destroys the engine when the pipe thread is gone and the pipe closed
\* (main.cpp:88-90).
THEOREM CleanExit == Spec => []NothingLeft
<1>1. IInv => NothingLeft
  BY DEF IInv
<1> QED  BY <1>1, Invariance, PTL

\* No command runs after a shutdown (ipc_server.cpp:255-259).
THEOREM NoCommandAfterShutdown == Spec => []ShutdownIsLast
<1>1. IInv => ShutdownIsLast
  BY DEF IInv, Finishing, ShutdownIsLast
<1> QED  BY <1>1, Invariance, PTL

\* What waits for its newline stays within the limit (ipc_server.cpp:226-234).
THEOREM InputBounded == Spec => []BufferBounded
<1>1. IInv => BufferBounded
  BY DEF IInv, LineBounded, BufferBounded
<1> QED  BY <1>1, Invariance, PTL
=============================================================================
