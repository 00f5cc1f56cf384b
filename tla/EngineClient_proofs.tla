------------------------- MODULE EngineClient_proofs -------------------------
(***************************************************************************)
(* A caller reads the answer to its own command.                           *)
(*                                                                         *)
(* Commands and answers carry no numbers.  What saves the client is that a *)
(* pipe with an engine at the other end holds at most one line, written    *)
(* by the task that has _sendLock and reads from this very pipe: a task    *)
(* gives up its read only when the pipe is of no more use.                 *)
(***************************************************************************)
EXTENDS EngineClient, EngineProcess_proofs

\* Only the holder of _sendLock awaits an answer.
LockHeld == \A c \in Caller : pc[c] = "reading" => sendLock = c

Empty(p) == answers[p] = <<>> /\ requests[p] = <<>>

Holds(p, n) ==
    \/ answers[p] = <<n>> /\ requests[p] = <<>>
    \/ answers[p] = <<>> /\ requests[p] = <<n>>

\* A pipe that works holds nothing, or the line of the task that reads from it.
OneInFlight ==
    \A p \in Pipe : state[p] = "open" /\ Serves(p) =>
        \/ Empty(p)
        \/ \E c \in Caller : pc[c] = "reading" /\ reads[c] = p /\ Holds(p, call[c])

\* Nothing is in a pipe before it is connected.
NewEmpty == \A p \in Pipe : state[p] \in {"none", "new"} => Empty(p)

Fresh == pipe <= pipes /\ \A p \in Pipe : p > pipes => state[p] = "none"

\* An exit that has not begun is in no call.
StopIdle ==
    /\ exit = "no" => pc["tray"] = "idle"
    /\ exit \in {"no", "tray"} => pc["ending"] = "idle"

ClientInv == TypeOK /\ LockHeld /\ OneInFlight /\ NewEmpty /\ Fresh /\ StopIdle

\* What a step of the manager means to the client: no process comes back to life.
Onward ==
    /\ started' >= started
    /\ \A q \in 0..started : q \in alive' => q \in alive

-----------------------------------------------------------------------------
(* The client and the manager *)

\* Every step of the composition is one of the manager, or leaves the manager alone.
LEMMA ProcessStep == ASSUME [Next]_vars PROVE [ProcessNext]_processVars
<1> SUFFICES ASSUME Next PROVE [ProcessNext]_processVars
  BY DEF vars
<1>1. ASSUME NEW c \in Task, Call(c) PROVE UNCHANGED processVars
  BY <1>1 DEF Call
<1>2. ASSUME NEW c \in Caller, CallStep(c) PROVE UNCHANGED processVars
  BY <1>2 DEF CallStep, Write, WriteFails, Read, ReadFails, GiveUp
<1>3. ASSUME NEW k \in Connector, ConnectBegin(k) \/ ConnectStep(k) PROVE UNCHANGED processVars
  BY <1>3 DEF ConnectBegin, ConnectStep, ConnectEnd, ConnectFails, Accept
<1>4. ASSUME NEW p \in Pipe, Answer(p) PROVE UNCHANGED processVars
  BY <1>4 DEF Answer
<1>5. ASSUME NEW p \in alive, ProcessExits(p) PROVE ProcessNext
  BY <1>5 DEF ProcessNext
<1>6. ASSUME PoolStep PROVE ProcessNext
  BY <1>6 DEF PoolStep, ProcessNext, ManagerStep
<1>7. ASSUME NEW how, BeginExit(how) PROVE ProcessNext
  BY <1>7 DEF BeginExit, ProcessNext
<1>8. ASSUME ExitStep PROVE [ProcessNext]_processVars
  BY <1>8 DEF ExitStep, StopStep, EndExit, ExitCrashes, ProcessNext, ManagerStep
<1> QED  BY <1>1, <1>2, <1>3, <1>4, <1>5, <1>6, <1>7, <1>8 DEF Next

\* A process that has ended is never alive again: the next one has a new number.
LEMMA NoRevival ==
    ASSUME ProcessTypeOK, [ProcessNext]_processVars
    PROVE  Onward
BY DEF Onward, ProcessTypeOK, ProcessNext, processVars, ManagerStep, ProcessExits, RaiseExited,
       HandleExited, Restart, StartsProcess, StopBegin, StopLock, StopWaited, StopKill, StopKilled,
       Dispose

LEMMA TailType ==
    ASSUME NEW S, NEW s \in Seq(S), s # <<>>
    PROVE  Tail(s) \in Seq(S)
OBVIOUS

\* How Disconnect leaves the pipes.
LEMMA DisconnectType ==
    ASSUME TypeOK, Disconnect
    PROVE  state' \in [Pipe -> {"none", "new", "open", "dead"}]
<1>1. CASE pipe = NoPipe
  BY <1>1 DEF Disconnect, TypeOK
<1>2. CASE pipe # NoPipe
  BY <1>2 DEF Disconnect, TypeOK
<1> QED  BY <1>1, <1>2

-----------------------------------------------------------------------------
(* One lemma per step of the client. *)

\* A call of SendCommandAsync.
LEMMA CallKeeps ==
    ASSUME ClientInv, NEW c \in Task, Call(c), ProcessTypeOK', Onward
    PROVE  ClientInv'
<1>0. TypeOK /\ LockHeld /\ OneInFlight /\ NewEmpty /\ Fresh /\ StopIdle
  BY DEF ClientInv
<1>1. TypeOK'
  BY ClientAssumption, <1>0, SMTT(20) DEF TypeOK, Caller, Pipe, NoPipe, Null, ProcessTypeOK,
       processVars, Onward, Call, Enter
<1>2. LockHeld'
  BY ClientAssumption, <1>0 DEF LockHeld, TypeOK, Caller, Onward, Call, Enter
<1>3. OneInFlight'
  BY ClientAssumption, <1>0 DEF OneInFlight, TypeOK, LockHeld, NewEmpty, StopIdle, Empty,
       Holds, Serves, Pipe, NoPipe, Usable, IsConnected, processVars, Caller, Onward, Call,
       Enter
<1>4. NewEmpty'
  BY ClientAssumption, <1>0 DEF NewEmpty, Empty, TypeOK, Pipe, Caller, Onward, Call, Enter
<1>5. Fresh'
  BY ClientAssumption, <1>0 DEF Fresh, TypeOK, Pipe, NoPipe, Caller, Onward, Call, Enter
<1>6. StopIdle'
  BY ClientAssumption, <1>0 DEF StopIdle, TypeOK, Caller, Onward, Call, Enter
<1> QED  BY <1>1, <1>2, <1>3, <1>4, <1>5, <1>6 DEF ClientInv

\* It takes the lock, writes and waits.
LEMMA WriteKeeps ==
    ASSUME ClientInv, NEW c \in Caller, Write(c), ProcessTypeOK', Onward
    PROVE  ClientInv'
<1>0. TypeOK /\ LockHeld /\ OneInFlight /\ NewEmpty /\ Fresh /\ StopIdle
  BY DEF ClientInv
<1>1. TypeOK'
  <2>1. (ProcessTypeOK)'
    BY ClientAssumption, <1>0, SMTT(20) DEF TypeOK, Caller, Pipe, NoPipe, Null, ProcessTypeOK,
         processVars, Onward, Write, Usable
  <2>2. (exit \in {"no", "tray", "ending", "over"})'
    BY ClientAssumption, <1>0, SMTT(20) DEF TypeOK, Caller, Pipe, NoPipe, Null, ProcessTypeOK,
         processVars, Onward, Write, Usable
  <2>3. (pipes \in 0..MaxPipes /\ {pipe, streams} \subseteq 0..MaxPipes)'
    BY ClientAssumption, <1>0, SMTT(20) DEF TypeOK, Caller, Pipe, NoPipe, Null, ProcessTypeOK,
         processVars, Onward, Write, Usable
  <2>4. (state \in [Pipe -> {"none", "new", "open", "dead"}])'
    BY ClientAssumption, <1>0, SMTT(20) DEF TypeOK, Caller, Pipe, NoPipe, Null, ProcessTypeOK,
         processVars, Onward, Write, Usable
  <2>5. (server \in [Pipe -> 0..started])'
    BY ClientAssumption, <1>0, SMTT(20) DEF TypeOK, Caller, Pipe, NoPipe, Null, ProcessTypeOK,
         processVars, Onward, Write, Usable
  <2>6. ({requests, answers} \subseteq [Pipe -> Seq(0..MaxCalls)])'
    BY ClientAssumption, <1>0, SMTT(20) DEF TypeOK, Caller, Pipe, NoPipe, Null, ProcessTypeOK,
         processVars, Onward, Write, Usable
  <2>7. (sendLock \in Caller \cup {"nobody"})'
    BY ClientAssumption, <1>0, SMTT(20) DEF TypeOK, Caller, Pipe, NoPipe, Null, ProcessTypeOK,
         processVars, Onward, Write, Usable
  <2>8. (calls \in 0..MaxCalls /\ call \in [Caller -> 0..MaxCalls])'
    BY ClientAssumption, <1>0, SMTT(20) DEF TypeOK, Caller, Pipe, NoPipe, Null, ProcessTypeOK,
         processVars, Onward, Write, Usable
  <2>9. (pc \in [Caller -> {"idle", "queued", "reading", "over"}])'
    BY ClientAssumption, <1>0, SMTT(20) DEF TypeOK, Caller, Pipe, NoPipe, Null, ProcessTypeOK,
         processVars, Onward, Write, Usable
  <2>10. (reads \in [Caller -> 0..MaxPipes])'
    BY ClientAssumption, <1>0, SMTT(20) DEF TypeOK, Caller, Pipe, NoPipe, Null, ProcessTypeOK,
         processVars, Onward, Write, Usable
  <2>11. (conn \in [Connector -> {"idle", "connecting", "connected"}])'
    BY ClientAssumption, <1>0, SMTT(20) DEF TypeOK, Caller, Pipe, NoPipe, Null, ProcessTypeOK,
         processVars, Onward, Write, Usable
  <2>12. (obj \in [Connector -> 0..MaxPipes])'
    BY ClientAssumption, <1>0, SMTT(20) DEF TypeOK, Caller, Pipe, NoPipe, Null, ProcessTypeOK,
         processVars, Onward, Write, Usable
  <2> QED  BY <2>1, <2>2, <2>3, <2>4, <2>5, <2>6, <2>7, <2>8, <2>9, <2>10, <2>11, <2>12 DEF TypeOK
<1>2. LockHeld'
  BY ClientAssumption, <1>0 DEF LockHeld, TypeOK, Caller, Onward, Write, Usable
<1>3. OneInFlight'
  <2>1. "nobody" \notin Caller
    BY ClientAssumption DEF Caller
  <2>2. \A b \in Caller : pc[b] # "reading"
    BY <1>0, <2>1 DEF LockHeld, Write
  <2>3. \A r \in Pipe : state[r] = "open" /\ Serves(r) => Empty(r)
    BY <1>0, <2>2 DEF OneInFlight
  <2>4. streams \in Pipe
    BY <1>0 DEF TypeOK, Write, Usable, NoPipe, Pipe
  <2>5. ASSUME NEW r \in Pipe, r # streams, (state[r] = "open" /\ Serves(r))' PROVE Empty(r)'
    BY <1>0, <2>3, <2>5 DEF Write, Empty, Serves, TypeOK, processVars
  <2>6. Empty(streams)
    BY <2>3, <2>4 DEF Write, Usable
  <2>7. Append(requests[streams], call[c]) = <<call[c]>>
    BY <2>6 DEF Empty
  <2>8. answers'[streams] = <<>> /\ requests'[streams] = <<call'[c]>>
    BY <1>0, <2>4, <2>6, <2>7 DEF Empty, Write, TypeOK
  <2>9. pc'[c] = "reading" /\ reads'[c] = streams
    BY <1>0 DEF Write, TypeOK
  <2> QED  BY <2>5, <2>8, <2>9 DEF OneInFlight, Holds
<1>4. NewEmpty'
  BY ClientAssumption, <1>0 DEF NewEmpty, Empty, TypeOK, Pipe, Caller, Onward, Write, Usable
<1>5. Fresh'
  BY ClientAssumption, <1>0 DEF Fresh, TypeOK, Pipe, NoPipe, Caller, Onward, Write, Usable
<1>6. StopIdle'
  BY ClientAssumption, <1>0 DEF StopIdle, TypeOK, Caller, Onward, Write, Usable
<1> QED  BY <1>1, <1>2, <1>3, <1>4, <1>5, <1>6 DEF ClientInv

\* Or it fails.
LEMMA WriteFailsKeeps ==
    ASSUME ClientInv, NEW c \in Caller, WriteFails(c), ProcessTypeOK', Onward
    PROVE  ClientInv'
<1>0. TypeOK /\ LockHeld /\ OneInFlight /\ NewEmpty /\ Fresh /\ StopIdle
  BY DEF ClientInv
<1>1. TypeOK'
  <2>1. (ProcessTypeOK)'
    BY ClientAssumption, <1>0, SMTT(20) DEF TypeOK, Caller, Pipe, NoPipe, Null, ProcessTypeOK,
         processVars, Onward, WriteFails, Usable, GiveUp, Finish, Disconnect
  <2>2. (exit \in {"no", "tray", "ending", "over"})'
    BY ClientAssumption, <1>0, SMTT(20) DEF TypeOK, Caller, Pipe, NoPipe, Null, ProcessTypeOK,
         processVars, Onward, WriteFails, Usable, GiveUp, Finish, Disconnect
  <2>3. (pipes \in 0..MaxPipes /\ {pipe, streams} \subseteq 0..MaxPipes)'
    BY ClientAssumption, <1>0, SMTT(20) DEF TypeOK, Caller, Pipe, NoPipe, Null, ProcessTypeOK,
         processVars, Onward, WriteFails, Usable, GiveUp, Finish, Disconnect
  <2>4. (state \in [Pipe -> {"none", "new", "open", "dead"}])'
    <3>1. CASE c \notin Task
      BY <1>0, <3>1, DisconnectType DEF WriteFails, GiveUp
    <3>2. CASE c \in Task
      BY <1>0, <3>2 DEF WriteFails, GiveUp, TypeOK
    <3> QED  BY <3>1, <3>2
  <2>5. (server \in [Pipe -> 0..started])'
    BY ClientAssumption, <1>0, SMTT(20) DEF TypeOK, Caller, Pipe, NoPipe, Null, ProcessTypeOK,
         processVars, Onward, WriteFails, Usable, GiveUp, Finish, Disconnect
  <2>6. ({requests, answers} \subseteq [Pipe -> Seq(0..MaxCalls)])'
    BY ClientAssumption, <1>0, SMTT(20) DEF TypeOK, Caller, Pipe, NoPipe, Null, ProcessTypeOK,
         processVars, Onward, WriteFails, Usable, GiveUp, Finish, Disconnect
  <2>7. (sendLock \in Caller \cup {"nobody"})'
    BY ClientAssumption, <1>0, SMTT(20) DEF TypeOK, Caller, Pipe, NoPipe, Null, ProcessTypeOK,
         processVars, Onward, WriteFails, Usable, GiveUp, Finish, Disconnect
  <2>8. (calls \in 0..MaxCalls /\ call \in [Caller -> 0..MaxCalls])'
    BY ClientAssumption, <1>0, SMTT(20) DEF TypeOK, Caller, Pipe, NoPipe, Null, ProcessTypeOK,
         processVars, Onward, WriteFails, Usable, GiveUp, Finish, Disconnect
  <2>9. (pc \in [Caller -> {"idle", "queued", "reading", "over"}])'
    BY ClientAssumption, <1>0, SMTT(20) DEF TypeOK, Caller, Pipe, NoPipe, Null, ProcessTypeOK,
         processVars, Onward, WriteFails, Usable, GiveUp, Finish, Disconnect
  <2>10. (reads \in [Caller -> 0..MaxPipes])'
    BY ClientAssumption, <1>0, SMTT(20) DEF TypeOK, Caller, Pipe, NoPipe, Null, ProcessTypeOK,
         processVars, Onward, WriteFails, Usable, GiveUp, Finish, Disconnect
  <2>11. (conn \in [Connector -> {"idle", "connecting", "connected"}])'
    BY ClientAssumption, <1>0, SMTT(20) DEF TypeOK, Caller, Pipe, NoPipe, Null, ProcessTypeOK,
         processVars, Onward, WriteFails, Usable, GiveUp, Finish, Disconnect
  <2>12. (obj \in [Connector -> 0..MaxPipes])'
    BY ClientAssumption, <1>0, SMTT(20) DEF TypeOK, Caller, Pipe, NoPipe, Null, ProcessTypeOK,
         processVars, Onward, WriteFails, Usable, GiveUp, Finish, Disconnect
  <2> QED  BY <2>1, <2>2, <2>3, <2>4, <2>5, <2>6, <2>7, <2>8, <2>9, <2>10, <2>11, <2>12 DEF TypeOK
<1>2. LockHeld'
  BY ClientAssumption, <1>0 DEF LockHeld, TypeOK, Caller, Onward, WriteFails, Usable, GiveUp,
       Finish, Disconnect
<1>3. OneInFlight'
  <2>1. "nobody" \notin Caller
    BY ClientAssumption DEF Caller
  <2>2. \A b \in Caller : pc[b] # "reading"
    BY <1>0, <2>1 DEF LockHeld, WriteFails
  <2>3. \A r \in Pipe : state[r] = "open" /\ Serves(r) => Empty(r)
    BY <1>0, <2>2 DEF OneInFlight
  <2>4. ASSUME NEW r \in Pipe, state'[r] = "open" PROVE state[r] = "open"
    BY <1>0, <2>4 DEF WriteFails, GiveUp, Disconnect, TypeOK
  <2> QED  BY <2>3, <2>4 DEF WriteFails, GiveUp, OneInFlight, Empty, Serves, processVars
<1>4. NewEmpty'
  BY ClientAssumption, <1>0 DEF NewEmpty, Empty, TypeOK, Pipe, Caller, Onward, WriteFails,
       Usable, GiveUp, Finish, Disconnect
<1>5. Fresh'
  BY ClientAssumption, <1>0 DEF Fresh, TypeOK, Pipe, NoPipe, Caller, Onward, WriteFails,
       Usable, GiveUp, Finish, Disconnect
<1>6. StopIdle'
  BY ClientAssumption, <1>0 DEF StopIdle, TypeOK, Caller, Onward, WriteFails, Usable, GiveUp,
       Finish, Disconnect
<1> QED  BY <1>1, <1>2, <1>3, <1>4, <1>5, <1>6 DEF ClientInv

\* The answer comes.
LEMMA ReadKeeps ==
    ASSUME ClientInv, NEW c \in Caller, Read(c), ProcessTypeOK', Onward
    PROVE  ClientInv'
<1>0. TypeOK /\ LockHeld /\ OneInFlight /\ NewEmpty /\ Fresh /\ StopIdle
  BY DEF ClientInv
<1>1. TypeOK'
  <2>1. (ProcessTypeOK)'
    BY ClientAssumption, <1>0, SMTT(20) DEF TypeOK, Caller, Pipe, NoPipe, Null, ProcessTypeOK,
         processVars, Onward, Read, Finish, Disconnect
  <2>2. (exit \in {"no", "tray", "ending", "over"})'
    BY ClientAssumption, <1>0, SMTT(20) DEF TypeOK, Caller, Pipe, NoPipe, Null, ProcessTypeOK,
         processVars, Onward, Read, Finish, Disconnect
  <2>3. (pipes \in 0..MaxPipes /\ {pipe, streams} \subseteq 0..MaxPipes)'
    BY ClientAssumption, <1>0, SMTT(20) DEF TypeOK, Caller, Pipe, NoPipe, Null, ProcessTypeOK,
         processVars, Onward, Read, Finish, Disconnect
  <2>4. (state \in [Pipe -> {"none", "new", "open", "dead"}])'
    <3>1. CASE c \notin Task
      BY <1>0, <3>1, DisconnectType DEF Read
    <3>2. CASE c \in Task
      BY <1>0, <3>2 DEF Read, TypeOK
    <3> QED  BY <3>1, <3>2
  <2>5. (server \in [Pipe -> 0..started])'
    BY ClientAssumption, <1>0, SMTT(20) DEF TypeOK, Caller, Pipe, NoPipe, Null, ProcessTypeOK,
         processVars, Onward, Read, Finish, Disconnect
  <2>6. ({requests, answers} \subseteq [Pipe -> Seq(0..MaxCalls)])'
    <3>1. answers \in [Pipe -> Seq(0..MaxCalls)] /\ requests' \in [Pipe -> Seq(0..MaxCalls)]
      BY <1>0 DEF TypeOK, Read
    <3>2. ASSUME reads[c] \in Pipe PROVE Tail(answers[reads[c]]) \in Seq(0..MaxCalls)
      <4>1. answers[reads[c]] \in Seq(0..MaxCalls) /\ answers[reads[c]] # <<>>
        BY <3>1, <3>2 DEF Read
      <4> QED  BY <4>1, TailType
    <3>3. answers' = [answers EXCEPT ![reads[c]] = Tail(answers[reads[c]])]
      BY DEF Read
    <3>4. answers' \in [Pipe -> Seq(0..MaxCalls)]
      BY <3>1, <3>2, <3>3
    <3> QED  BY <3>1, <3>4
  <2>7. (sendLock \in Caller \cup {"nobody"})'
    BY ClientAssumption, <1>0, SMTT(20) DEF TypeOK, Caller, Pipe, NoPipe, Null, ProcessTypeOK,
         processVars, Onward, Read, Finish, Disconnect
  <2>8. (calls \in 0..MaxCalls /\ call \in [Caller -> 0..MaxCalls])'
    BY ClientAssumption, <1>0, SMTT(20) DEF TypeOK, Caller, Pipe, NoPipe, Null, ProcessTypeOK,
         processVars, Onward, Read, Finish, Disconnect
  <2>9. (pc \in [Caller -> {"idle", "queued", "reading", "over"}])'
    BY ClientAssumption, <1>0, SMTT(20) DEF TypeOK, Caller, Pipe, NoPipe, Null, ProcessTypeOK,
         processVars, Onward, Read, Finish, Disconnect
  <2>10. (reads \in [Caller -> 0..MaxPipes])'
    BY ClientAssumption, <1>0, SMTT(20) DEF TypeOK, Caller, Pipe, NoPipe, Null, ProcessTypeOK,
         processVars, Onward, Read, Finish, Disconnect
  <2>11. (conn \in [Connector -> {"idle", "connecting", "connected"}])'
    BY ClientAssumption, <1>0, SMTT(20) DEF TypeOK, Caller, Pipe, NoPipe, Null, ProcessTypeOK,
         processVars, Onward, Read, Finish, Disconnect
  <2>12. (obj \in [Connector -> 0..MaxPipes])'
    BY ClientAssumption, <1>0, SMTT(20) DEF TypeOK, Caller, Pipe, NoPipe, Null, ProcessTypeOK,
         processVars, Onward, Read, Finish, Disconnect
  <2> QED  BY <2>1, <2>2, <2>3, <2>4, <2>5, <2>6, <2>7, <2>8, <2>9, <2>10, <2>11, <2>12 DEF TypeOK
<1>2. LockHeld'
  BY ClientAssumption, <1>0 DEF LockHeld, TypeOK, Caller, Onward, Read, Finish, Disconnect
<1>3. OneInFlight'
  <2>1. ASSUME NEW r \in Pipe, state'[r] = "open" PROVE state[r] = "open"
    BY <1>0, <2>1 DEF Read, Disconnect, TypeOK
  <2>2. ASSUME NEW r \in Pipe, (state[r] = "open" /\ Serves(r))' PROVE Empty(r)'
    <3>1. state[r] = "open" /\ Serves(r)
      BY <2>1, <2>2 DEF Serves, Read, processVars
    <3>2. Empty(r) \/ (reads[c] = r /\ Holds(r, call[c]))
      BY <1>0, <3>1 DEF OneInFlight, LockHeld, Read
    <3>3. CASE reads[c] # r
      BY <1>0, <3>2, <3>3 DEF Read, Empty, TypeOK
    <3>4. CASE reads[c] = r
      <4>1. answers[r] = <<call[c]>> /\ requests[r] = <<>>
        BY <3>2, <3>4 DEF Empty, Holds, Read
      <4>2. answers'[r] = Tail(<<call[c]>>) /\ requests'[r] = <<>>
        BY <1>0, <3>4, <4>1 DEF Read, TypeOK
      <4> QED  BY <4>2 DEF Empty
    <3> QED  BY <3>3, <3>4
  <2> QED  BY <2>2 DEF OneInFlight
<1>4. NewEmpty'
  BY ClientAssumption, <1>0 DEF NewEmpty, Empty, TypeOK, Pipe, Caller, Onward, Read, Finish,
       Disconnect
<1>5. Fresh'
  BY ClientAssumption, <1>0 DEF Fresh, TypeOK, Pipe, NoPipe, Caller, Onward, Read, Finish,
       Disconnect
<1>6. StopIdle'
  BY ClientAssumption, <1>0 DEF StopIdle, TypeOK, Caller, Onward, Read, Finish, Disconnect
<1> QED  BY <1>1, <1>2, <1>3, <1>4, <1>5, <1>6 DEF ClientInv

\* Or the pipe fails.
LEMMA ReadFailsKeeps ==
    ASSUME ClientInv, NEW c \in Caller, ReadFails(c), ProcessTypeOK', Onward
    PROVE  ClientInv'
<1>0. TypeOK /\ LockHeld /\ OneInFlight /\ NewEmpty /\ Fresh /\ StopIdle
  BY DEF ClientInv
<1>1. TypeOK'
  <2>1. (ProcessTypeOK)'
    BY ClientAssumption, <1>0, SMTT(20) DEF TypeOK, Caller, Pipe, NoPipe, Null, ProcessTypeOK,
         processVars, Onward, ReadFails, Usable, GiveUp, Finish, Disconnect
  <2>2. (exit \in {"no", "tray", "ending", "over"})'
    BY ClientAssumption, <1>0, SMTT(20) DEF TypeOK, Caller, Pipe, NoPipe, Null, ProcessTypeOK,
         processVars, Onward, ReadFails, Usable, GiveUp, Finish, Disconnect
  <2>3. (pipes \in 0..MaxPipes /\ {pipe, streams} \subseteq 0..MaxPipes)'
    BY ClientAssumption, <1>0, SMTT(20) DEF TypeOK, Caller, Pipe, NoPipe, Null, ProcessTypeOK,
         processVars, Onward, ReadFails, Usable, GiveUp, Finish, Disconnect
  <2>4. (state \in [Pipe -> {"none", "new", "open", "dead"}])'
    <3>1. CASE c \notin Task
      BY <1>0, <3>1, DisconnectType DEF ReadFails, GiveUp
    <3>2. CASE c \in Task
      BY <1>0, <3>2 DEF ReadFails, GiveUp, TypeOK
    <3> QED  BY <3>1, <3>2
  <2>5. (server \in [Pipe -> 0..started])'
    BY ClientAssumption, <1>0, SMTT(20) DEF TypeOK, Caller, Pipe, NoPipe, Null, ProcessTypeOK,
         processVars, Onward, ReadFails, Usable, GiveUp, Finish, Disconnect
  <2>6. ({requests, answers} \subseteq [Pipe -> Seq(0..MaxCalls)])'
    BY ClientAssumption, <1>0, SMTT(20) DEF TypeOK, Caller, Pipe, NoPipe, Null, ProcessTypeOK,
         processVars, Onward, ReadFails, Usable, GiveUp, Finish, Disconnect
  <2>7. (sendLock \in Caller \cup {"nobody"})'
    BY ClientAssumption, <1>0, SMTT(20) DEF TypeOK, Caller, Pipe, NoPipe, Null, ProcessTypeOK,
         processVars, Onward, ReadFails, Usable, GiveUp, Finish, Disconnect
  <2>8. (calls \in 0..MaxCalls /\ call \in [Caller -> 0..MaxCalls])'
    BY ClientAssumption, <1>0, SMTT(20) DEF TypeOK, Caller, Pipe, NoPipe, Null, ProcessTypeOK,
         processVars, Onward, ReadFails, Usable, GiveUp, Finish, Disconnect
  <2>9. (pc \in [Caller -> {"idle", "queued", "reading", "over"}])'
    BY ClientAssumption, <1>0, SMTT(20) DEF TypeOK, Caller, Pipe, NoPipe, Null, ProcessTypeOK,
         processVars, Onward, ReadFails, Usable, GiveUp, Finish, Disconnect
  <2>10. (reads \in [Caller -> 0..MaxPipes])'
    BY ClientAssumption, <1>0, SMTT(20) DEF TypeOK, Caller, Pipe, NoPipe, Null, ProcessTypeOK,
         processVars, Onward, ReadFails, Usable, GiveUp, Finish, Disconnect
  <2>11. (conn \in [Connector -> {"idle", "connecting", "connected"}])'
    BY ClientAssumption, <1>0, SMTT(20) DEF TypeOK, Caller, Pipe, NoPipe, Null, ProcessTypeOK,
         processVars, Onward, ReadFails, Usable, GiveUp, Finish, Disconnect
  <2>12. (obj \in [Connector -> 0..MaxPipes])'
    BY ClientAssumption, <1>0, SMTT(20) DEF TypeOK, Caller, Pipe, NoPipe, Null, ProcessTypeOK,
         processVars, Onward, ReadFails, Usable, GiveUp, Finish, Disconnect
  <2> QED  BY <2>1, <2>2, <2>3, <2>4, <2>5, <2>6, <2>7, <2>8, <2>9, <2>10, <2>11, <2>12 DEF TypeOK
<1>2. LockHeld'
  BY ClientAssumption, <1>0 DEF LockHeld, TypeOK, Caller, Onward, ReadFails, Usable, GiveUp,
       Finish, Disconnect
<1>3. OneInFlight'
  <2>1. ASSUME NEW r \in Pipe, state'[r] = "open" PROVE state[r] = "open"
    BY <1>0, <2>1 DEF ReadFails, GiveUp, Disconnect, TypeOK
  <2>2. ASSUME NEW r \in Pipe, (state[r] = "open" /\ Serves(r))' PROVE Empty(r)'
    <3>1. state[r] = "open" /\ Serves(r)
      BY <2>1, <2>2 DEF Serves, ReadFails, GiveUp, processVars
    <3>2. reads[c] # r
      BY <3>1 DEF ReadFails, Usable, Pipe, NoPipe
    <3>3. Empty(r)
      BY <1>0, <3>1, <3>2 DEF OneInFlight, LockHeld, ReadFails
    <3> QED  BY <3>3 DEF ReadFails, GiveUp, Empty
  <2> QED  BY <2>2 DEF OneInFlight
<1>4. NewEmpty'
  BY ClientAssumption, <1>0 DEF NewEmpty, Empty, TypeOK, Pipe, Caller, Onward, ReadFails,
       Usable, GiveUp, Finish, Disconnect
<1>5. Fresh'
  BY ClientAssumption, <1>0 DEF Fresh, TypeOK, Pipe, NoPipe, Caller, Onward, ReadFails,
       Usable, GiveUp, Finish, Disconnect
<1>6. StopIdle'
  BY ClientAssumption, <1>0 DEF StopIdle, TypeOK, Caller, Onward, ReadFails, Usable, GiveUp,
       Finish, Disconnect
<1> QED  BY <1>1, <1>2, <1>3, <1>4, <1>5, <1>6 DEF ClientInv

\* A ConnectAsync begins.
LEMMA ConnectBeginKeeps ==
    ASSUME ClientInv, NEW k \in Connector, ConnectBegin(k), ProcessTypeOK', Onward
    PROVE  ClientInv'
<1>0. TypeOK /\ LockHeld /\ OneInFlight /\ NewEmpty /\ Fresh /\ StopIdle
  BY DEF ClientInv
<1>1. TypeOK'
  BY ClientAssumption, <1>0, SMTT(20) DEF TypeOK, Caller, Pipe, NoPipe, Null, ProcessTypeOK,
       processVars, Onward, ConnectBegin
<1>2. LockHeld'
  BY ClientAssumption, <1>0 DEF LockHeld, TypeOK, Caller, Onward, ConnectBegin
<1>3. OneInFlight'
  BY ClientAssumption, <1>0 DEF OneInFlight, TypeOK, LockHeld, NewEmpty, StopIdle, Empty,
       Holds, Serves, Pipe, NoPipe, Usable, IsConnected, processVars, Caller, Onward,
       ConnectBegin
<1>4. NewEmpty'
  <2>1. pipes + 1 \in Pipe => state[pipes + 1] = "none"
    BY <1>0 DEF Fresh, TypeOK
  <2>2. ASSUME NEW r \in Pipe, state'[r] \in {"none", "new"} PROVE state[r] \in {"none", "new"}
    BY <1>0, <2>1, <2>2 DEF ConnectBegin, TypeOK
  <2> QED  BY <1>0, <2>2 DEF NewEmpty, Empty, ConnectBegin
<1>5. Fresh'
  BY ClientAssumption, <1>0 DEF Fresh, TypeOK, Pipe, NoPipe, Caller, Onward, ConnectBegin
<1>6. StopIdle'
  BY ClientAssumption, <1>0 DEF StopIdle, TypeOK, Caller, Onward, ConnectBegin
<1> QED  BY <1>1, <1>2, <1>3, <1>4, <1>5, <1>6 DEF ClientInv

\* The engine accepts.
LEMMA AcceptKeeps ==
    ASSUME ClientInv, NEW k \in Connector, NEW q, Accept(k, q), ProcessTypeOK', Onward
    PROVE  ClientInv'
<1>0. TypeOK /\ LockHeld /\ OneInFlight /\ NewEmpty /\ Fresh /\ StopIdle
  BY DEF ClientInv
<1>1. TypeOK'
  <2>1. (ProcessTypeOK)'
    BY ClientAssumption, <1>0, SMTT(20) DEF TypeOK, Caller, Pipe, NoPipe, Null, ProcessTypeOK,
         processVars, Onward, Accept
  <2>2. (exit \in {"no", "tray", "ending", "over"})'
    BY ClientAssumption, <1>0, SMTT(20) DEF TypeOK, Caller, Pipe, NoPipe, Null, ProcessTypeOK,
         processVars, Onward, Accept
  <2>3. (pipes \in 0..MaxPipes /\ {pipe, streams} \subseteq 0..MaxPipes)'
    BY ClientAssumption, <1>0, SMTT(20) DEF TypeOK, Caller, Pipe, NoPipe, Null, ProcessTypeOK,
         processVars, Onward, Accept
  <2>4. (state \in [Pipe -> {"none", "new", "open", "dead"}])'
    <3>1. state \in [Pipe -> {"none", "new", "open", "dead"}] /\ state' = [state EXCEPT ![obj[k]] = "open"]
      BY <1>0 DEF TypeOK, Accept
    <3> QED  BY <3>1
  <2>5. (server \in [Pipe -> 0..started])'
    <3>1. server \in [Pipe -> 0..started] /\ server' = [server EXCEPT ![obj[k]] = q] /\ started' = started
      BY <1>0 DEF TypeOK, Accept, processVars
    <3>2. q \in 0..started
      BY <1>0 DEF TypeOK, ProcessTypeOK, Accept
    <3> QED  BY <3>1, <3>2
  <2>6. ({requests, answers} \subseteq [Pipe -> Seq(0..MaxCalls)])'
    BY ClientAssumption, <1>0, SMTT(20) DEF TypeOK, Caller, Pipe, NoPipe, Null, ProcessTypeOK,
         processVars, Onward, Accept
  <2>7. (sendLock \in Caller \cup {"nobody"})'
    BY ClientAssumption, <1>0, SMTT(20) DEF TypeOK, Caller, Pipe, NoPipe, Null, ProcessTypeOK,
         processVars, Onward, Accept
  <2>8. (calls \in 0..MaxCalls /\ call \in [Caller -> 0..MaxCalls])'
    BY ClientAssumption, <1>0, SMTT(20) DEF TypeOK, Caller, Pipe, NoPipe, Null, ProcessTypeOK,
         processVars, Onward, Accept
  <2>9. (pc \in [Caller -> {"idle", "queued", "reading", "over"}])'
    BY ClientAssumption, <1>0, SMTT(20) DEF TypeOK, Caller, Pipe, NoPipe, Null, ProcessTypeOK,
         processVars, Onward, Accept
  <2>10. (reads \in [Caller -> 0..MaxPipes])'
    BY ClientAssumption, <1>0, SMTT(20) DEF TypeOK, Caller, Pipe, NoPipe, Null, ProcessTypeOK,
         processVars, Onward, Accept
  <2>11. (conn \in [Connector -> {"idle", "connecting", "connected"}])'
    BY ClientAssumption, <1>0, SMTT(20) DEF TypeOK, Caller, Pipe, NoPipe, Null, ProcessTypeOK,
         processVars, Onward, Accept
  <2>12. (obj \in [Connector -> 0..MaxPipes])'
    BY ClientAssumption, <1>0, SMTT(20) DEF TypeOK, Caller, Pipe, NoPipe, Null, ProcessTypeOK,
         processVars, Onward, Accept
  <2> QED  BY <2>1, <2>2, <2>3, <2>4, <2>5, <2>6, <2>7, <2>8, <2>9, <2>10, <2>11, <2>12 DEF TypeOK
<1>2. LockHeld'
  BY ClientAssumption, <1>0 DEF LockHeld, TypeOK, Caller, Onward, Accept
<1>3. OneInFlight'
  BY ClientAssumption, <1>0 DEF OneInFlight, TypeOK, LockHeld, NewEmpty, StopIdle, Empty,
       Holds, Serves, Pipe, NoPipe, Usable, IsConnected, processVars, Caller, Onward, Accept
<1>4. NewEmpty'
  BY ClientAssumption, <1>0 DEF NewEmpty, Empty, TypeOK, Pipe, Caller, Onward, Accept
<1>5. Fresh'
  BY ClientAssumption, <1>0 DEF Fresh, TypeOK, Pipe, NoPipe, Caller, Onward, Accept
<1>6. StopIdle'
  BY ClientAssumption, <1>0 DEF StopIdle, TypeOK, Caller, Onward, Accept
<1> QED  BY <1>1, <1>2, <1>3, <1>4, <1>5, <1>6 DEF ClientInv

\* The streams are set.
LEMMA ConnectEndKeeps ==
    ASSUME ClientInv, NEW k \in Connector, ConnectEnd(k), ProcessTypeOK', Onward
    PROVE  ClientInv'
<1>0. TypeOK /\ LockHeld /\ OneInFlight /\ NewEmpty /\ Fresh /\ StopIdle
  BY DEF ClientInv
<1>1. TypeOK'
  BY ClientAssumption, <1>0, SMTT(20) DEF TypeOK, Caller, Pipe, NoPipe, Null, ProcessTypeOK,
       processVars, Onward, ConnectEnd
<1>2. LockHeld'
  BY ClientAssumption, <1>0 DEF LockHeld, TypeOK, Caller, Onward, ConnectEnd
<1>3. OneInFlight'
  BY ClientAssumption, <1>0 DEF OneInFlight, TypeOK, LockHeld, NewEmpty, StopIdle, Empty,
       Holds, Serves, Pipe, NoPipe, Usable, IsConnected, processVars, Caller, Onward,
       ConnectEnd
<1>4. NewEmpty'
  BY ClientAssumption, <1>0 DEF NewEmpty, Empty, TypeOK, Pipe, Caller, Onward, ConnectEnd
<1>5. Fresh'
  BY ClientAssumption, <1>0 DEF Fresh, TypeOK, Pipe, NoPipe, Caller, Onward, ConnectEnd
<1>6. StopIdle'
  BY ClientAssumption, <1>0 DEF StopIdle, TypeOK, Caller, Onward, ConnectEnd
<1> QED  BY <1>1, <1>2, <1>3, <1>4, <1>5, <1>6 DEF ClientInv

\* Or it fails.
LEMMA ConnectFailsKeeps ==
    ASSUME ClientInv, NEW k \in Connector, ConnectFails(k), ProcessTypeOK', Onward
    PROVE  ClientInv'
<1>0. TypeOK /\ LockHeld /\ OneInFlight /\ NewEmpty /\ Fresh /\ StopIdle
  BY DEF ClientInv
<1>1. TypeOK'
  BY ClientAssumption, <1>0, SMTT(20) DEF TypeOK, Caller, Pipe, NoPipe, Null, ProcessTypeOK,
       processVars, Onward, ConnectFails, Disconnect
<1>2. LockHeld'
  BY ClientAssumption, <1>0 DEF LockHeld, TypeOK, Caller, Onward, ConnectFails, Disconnect
<1>3. OneInFlight'
  BY ClientAssumption, <1>0 DEF OneInFlight, TypeOK, LockHeld, NewEmpty, StopIdle, Empty,
       Holds, Serves, Pipe, NoPipe, Usable, IsConnected, processVars, Caller, Onward,
       ConnectFails, Disconnect
<1>4. NewEmpty'
  BY ClientAssumption, <1>0 DEF NewEmpty, Empty, TypeOK, Pipe, Caller, Onward, ConnectFails,
       Disconnect
<1>5. Fresh'
  BY ClientAssumption, <1>0 DEF Fresh, TypeOK, Pipe, NoPipe, Caller, Onward, ConnectFails,
       Disconnect
<1>6. StopIdle'
  BY ClientAssumption, <1>0 DEF StopIdle, TypeOK, Caller, Onward, ConnectFails, Disconnect
<1> QED  BY <1>1, <1>2, <1>3, <1>4, <1>5, <1>6 DEF ClientInv

\* The engine answers.
LEMMA AnswerKeeps ==
    ASSUME ClientInv, NEW s \in Pipe, Answer(s), ProcessTypeOK', Onward
    PROVE  ClientInv'
<1>0. TypeOK /\ LockHeld /\ OneInFlight /\ NewEmpty /\ Fresh /\ StopIdle
  BY DEF ClientInv
<1>1. TypeOK'
  <2>1. (ProcessTypeOK)'
    BY ClientAssumption, <1>0, SMTT(20) DEF TypeOK, Caller, Pipe, NoPipe, Null, ProcessTypeOK,
         processVars, Onward, Answer
  <2>2. (exit \in {"no", "tray", "ending", "over"})'
    BY ClientAssumption, <1>0, SMTT(20) DEF TypeOK, Caller, Pipe, NoPipe, Null, ProcessTypeOK,
         processVars, Onward, Answer
  <2>3. (pipes \in 0..MaxPipes /\ {pipe, streams} \subseteq 0..MaxPipes)'
    BY ClientAssumption, <1>0, SMTT(20) DEF TypeOK, Caller, Pipe, NoPipe, Null, ProcessTypeOK,
         processVars, Onward, Answer
  <2>4. (state \in [Pipe -> {"none", "new", "open", "dead"}])'
    BY ClientAssumption, <1>0, SMTT(20) DEF TypeOK, Caller, Pipe, NoPipe, Null, ProcessTypeOK,
         processVars, Onward, Answer
  <2>5. (server \in [Pipe -> 0..started])'
    BY ClientAssumption, <1>0, SMTT(20) DEF TypeOK, Caller, Pipe, NoPipe, Null, ProcessTypeOK,
         processVars, Onward, Answer
  <2>6. ({requests, answers} \subseteq [Pipe -> Seq(0..MaxCalls)])'
    BY ClientAssumption, <1>0, SMTT(20) DEF TypeOK, Caller, Pipe, NoPipe, Null, ProcessTypeOK,
         processVars, Onward, Answer
  <2>7. (sendLock \in Caller \cup {"nobody"})'
    BY ClientAssumption, <1>0, SMTT(20) DEF TypeOK, Caller, Pipe, NoPipe, Null, ProcessTypeOK,
         processVars, Onward, Answer
  <2>8. (calls \in 0..MaxCalls /\ call \in [Caller -> 0..MaxCalls])'
    BY ClientAssumption, <1>0, SMTT(20) DEF TypeOK, Caller, Pipe, NoPipe, Null, ProcessTypeOK,
         processVars, Onward, Answer
  <2>9. (pc \in [Caller -> {"idle", "queued", "reading", "over"}])'
    BY ClientAssumption, <1>0, SMTT(20) DEF TypeOK, Caller, Pipe, NoPipe, Null, ProcessTypeOK,
         processVars, Onward, Answer
  <2>10. (reads \in [Caller -> 0..MaxPipes])'
    BY ClientAssumption, <1>0, SMTT(20) DEF TypeOK, Caller, Pipe, NoPipe, Null, ProcessTypeOK,
         processVars, Onward, Answer
  <2>11. (conn \in [Connector -> {"idle", "connecting", "connected"}])'
    BY ClientAssumption, <1>0, SMTT(20) DEF TypeOK, Caller, Pipe, NoPipe, Null, ProcessTypeOK,
         processVars, Onward, Answer
  <2>12. (obj \in [Connector -> 0..MaxPipes])'
    BY ClientAssumption, <1>0, SMTT(20) DEF TypeOK, Caller, Pipe, NoPipe, Null, ProcessTypeOK,
         processVars, Onward, Answer
  <2> QED  BY <2>1, <2>2, <2>3, <2>4, <2>5, <2>6, <2>7, <2>8, <2>9, <2>10, <2>11, <2>12 DEF TypeOK
<1>2. LockHeld'
  BY ClientAssumption, <1>0 DEF LockHeld, TypeOK, Caller, Onward, Answer
<1>3. OneInFlight'
  <2> SUFFICES ASSUME NEW r \in Pipe, (state[r] = "open" /\ Serves(r))'
               PROVE  \/ Empty(r)'
                      \/ \E c \in Caller : (pc[c] = "reading" /\ reads[c] = r /\ Holds(r, call[c]))'
    BY DEF OneInFlight
  <2>1. state[r] = "open" /\ Serves(r)
    BY DEF Answer, Serves, processVars
  <2>2. CASE r # s
    BY <1>0, <2>1, <2>2 DEF OneInFlight, Answer, Empty, Holds, TypeOK
  <2>3. CASE r = s
    <3>1. PICK c \in Caller : pc[c] = "reading" /\ reads[c] = r /\ Holds(r, call[c])
      BY <1>0, <2>1, <2>3 DEF OneInFlight, Answer, Empty
    <3>2. answers[r] = <<>> /\ requests[r] = <<call[c]>>
      BY <2>3, <3>1 DEF Holds, Answer
    <3>3. Head(<<call[c]>>) = call[c] /\ Tail(<<call[c]>>) = <<>> /\ Append(<<>>, call[c]) = <<call[c]>>
      OBVIOUS
    <3>4. answers'[r] = <<call[c]>> /\ requests'[r] = <<>>
      BY <1>0, <2>3, <3>2, <3>3 DEF Answer, TypeOK
    <3> QED  BY <3>1, <3>4 DEF Answer, Holds
  <2> QED  BY <2>2, <2>3
<1>4. NewEmpty'
  BY ClientAssumption, <1>0 DEF NewEmpty, Empty, TypeOK, Pipe, Caller, Onward, Answer
<1>5. Fresh'
  BY ClientAssumption, <1>0 DEF Fresh, TypeOK, Pipe, NoPipe, Caller, Onward, Answer
<1>6. StopIdle'
  BY ClientAssumption, <1>0 DEF StopIdle, TypeOK, Caller, Onward, Answer
<1> QED  BY <1>1, <1>2, <1>3, <1>4, <1>5, <1>6 DEF ClientInv

\* The application begins to end.
LEMMA BeginExitKeeps ==
    ASSUME ClientInv, NEW how \in {"tray", "ending"}, BeginExit(how), ProcessTypeOK', Onward
    PROVE  ClientInv'
<1>0. TypeOK /\ LockHeld /\ OneInFlight /\ NewEmpty /\ Fresh /\ StopIdle
  BY DEF ClientInv
<1>1. TypeOK'
  <2>1. (ProcessTypeOK)'
    BY ClientAssumption, <1>0, SMTT(20) DEF TypeOK, Caller, Pipe, NoPipe, Null, ProcessTypeOK,
         processVars, Onward, BeginExit, Enter, exitFrame
  <2>2. (exit \in {"no", "tray", "ending", "over"})'
    BY ClientAssumption, <1>0, SMTT(20) DEF TypeOK, Caller, Pipe, NoPipe, Null, ProcessTypeOK,
         processVars, Onward, BeginExit, Enter, exitFrame
  <2>3. (pipes \in 0..MaxPipes /\ {pipe, streams} \subseteq 0..MaxPipes)'
    BY ClientAssumption, <1>0, SMTT(20) DEF TypeOK, Caller, Pipe, NoPipe, Null, ProcessTypeOK,
         processVars, Onward, BeginExit, Enter, exitFrame
  <2>4. (state \in [Pipe -> {"none", "new", "open", "dead"}])'
    BY ClientAssumption, <1>0, SMTT(20) DEF TypeOK, Caller, Pipe, NoPipe, Null, ProcessTypeOK,
         processVars, Onward, BeginExit, Enter, exitFrame
  <2>5. (server \in [Pipe -> 0..started])'
    BY ClientAssumption, <1>0, SMTT(20) DEF TypeOK, Caller, Pipe, NoPipe, Null, ProcessTypeOK,
         processVars, Onward, BeginExit, Enter, exitFrame
  <2>6. ({requests, answers} \subseteq [Pipe -> Seq(0..MaxCalls)])'
    BY ClientAssumption, <1>0, SMTT(20) DEF TypeOK, Caller, Pipe, NoPipe, Null, ProcessTypeOK,
         processVars, Onward, BeginExit, Enter, exitFrame
  <2>7. (sendLock \in Caller \cup {"nobody"})'
    BY ClientAssumption, <1>0, SMTT(20) DEF TypeOK, Caller, Pipe, NoPipe, Null, ProcessTypeOK,
         processVars, Onward, BeginExit, Enter, exitFrame
  <2>8. (calls \in 0..MaxCalls /\ call \in [Caller -> 0..MaxCalls])'
    BY ClientAssumption, <1>0, SMTT(20) DEF TypeOK, Caller, Pipe, NoPipe, Null, ProcessTypeOK,
         processVars, Onward, BeginExit, Enter, exitFrame
  <2>9. (pc \in [Caller -> {"idle", "queued", "reading", "over"}])'
    BY ClientAssumption, <1>0, SMTT(20) DEF TypeOK, Caller, Pipe, NoPipe, Null, ProcessTypeOK,
         processVars, Onward, BeginExit, Enter, exitFrame
  <2>10. (reads \in [Caller -> 0..MaxPipes])'
    BY ClientAssumption, <1>0, SMTT(20) DEF TypeOK, Caller, Pipe, NoPipe, Null, ProcessTypeOK,
         processVars, Onward, BeginExit, Enter, exitFrame
  <2>11. (conn \in [Connector -> {"idle", "connecting", "connected"}])'
    BY ClientAssumption, <1>0, SMTT(20) DEF TypeOK, Caller, Pipe, NoPipe, Null, ProcessTypeOK,
         processVars, Onward, BeginExit, Enter, exitFrame
  <2>12. (obj \in [Connector -> 0..MaxPipes])'
    BY ClientAssumption, <1>0, SMTT(20) DEF TypeOK, Caller, Pipe, NoPipe, Null, ProcessTypeOK,
         processVars, Onward, BeginExit, Enter, exitFrame
  <2> QED  BY <2>1, <2>2, <2>3, <2>4, <2>5, <2>6, <2>7, <2>8, <2>9, <2>10, <2>11, <2>12 DEF TypeOK
<1>2. LockHeld'
  <2>1. ASSUME NEW c \in Caller, pc'[c] = "reading" PROVE pc[c] = "reading"
    BY <1>0, <2>1 DEF BeginExit, Enter, TypeOK
  <2> QED  BY <1>0, <2>1 DEF LockHeld, BeginExit, exitFrame
<1>3. OneInFlight'
  <2>1. pc[how] = "idle"
    BY <1>0 DEF StopIdle, BeginExit, MayExit
  <2>2. ASSUME NEW c \in Caller, pc[c] = "reading" PROVE pc'[c] = "reading" /\ call'[c] = call[c]
    BY <1>0, <2>1, <2>2 DEF BeginExit, Enter, TypeOK
  <2>3. UNCHANGED <<alive, state, server, requests, answers, reads>>
    BY DEF BeginExit, StopBegin, exitFrame
  <2> QED  BY <1>0, <2>2, <2>3 DEF OneInFlight, Empty, Holds, Serves
<1>4. NewEmpty'
  BY ClientAssumption, <1>0 DEF NewEmpty, Empty, TypeOK, Pipe, Caller, Onward, BeginExit,
       Enter, exitFrame
<1>5. Fresh'
  BY ClientAssumption, <1>0 DEF Fresh, TypeOK, Pipe, NoPipe, Caller, Onward, BeginExit, Enter,
       exitFrame
<1>6. StopIdle'
  <2>1. CASE how = "tray"
    <3>1. exit' = "tray" /\ pc["ending"] = "idle" /\ "ending" # how
      BY <1>0, <2>1 DEF BeginExit, MayExit, StopIdle
    <3>2. pc'["ending"] = "idle"
      BY <1>0, <3>1 DEF BeginExit, Enter, TypeOK, Caller
    <3> QED  BY <3>1, <3>2 DEF StopIdle
  <2>2. CASE how = "ending"
    BY <2>2 DEF BeginExit, StopIdle
  <2> QED  BY <2>1, <2>2
<1> QED  BY <1>1, <1>2, <1>3, <1>4, <1>5, <1>6 DEF ClientInv

\* It ends.
LEMMA EndExitKeeps ==
    ASSUME ClientInv, EndExit, ProcessTypeOK', Onward
    PROVE  ClientInv'
<1>0. TypeOK /\ LockHeld /\ OneInFlight /\ NewEmpty /\ Fresh /\ StopIdle
  BY DEF ClientInv
<1>1. TypeOK'
  <2>1. (ProcessTypeOK)'
    BY ClientAssumption, <1>0, SMTT(20) DEF TypeOK, Caller, Pipe, NoPipe, Null, ProcessTypeOK,
         processVars, Onward, EndExit, exitFrame, Disconnect
  <2>2. (exit \in {"no", "tray", "ending", "over"})'
    BY ClientAssumption, <1>0, SMTT(20) DEF TypeOK, Caller, Pipe, NoPipe, Null, ProcessTypeOK,
         processVars, Onward, EndExit, exitFrame, Disconnect
  <2>3. (pipes \in 0..MaxPipes /\ {pipe, streams} \subseteq 0..MaxPipes)'
    BY ClientAssumption, <1>0, SMTT(20) DEF TypeOK, Caller, Pipe, NoPipe, Null, ProcessTypeOK,
         processVars, Onward, EndExit, exitFrame, Disconnect
  <2>4. (state \in [Pipe -> {"none", "new", "open", "dead"}])'
    BY ClientAssumption, <1>0, SMTT(20) DEF TypeOK, Caller, Pipe, NoPipe, Null, ProcessTypeOK,
         processVars, Onward, EndExit, exitFrame, Disconnect
  <2>5. (server \in [Pipe -> 0..started])'
    BY ClientAssumption, <1>0, SMTT(20) DEF TypeOK, Caller, Pipe, NoPipe, Null, ProcessTypeOK,
         processVars, Onward, EndExit, exitFrame, Disconnect
  <2>6. ({requests, answers} \subseteq [Pipe -> Seq(0..MaxCalls)])'
    BY ClientAssumption, <1>0, SMTT(20) DEF TypeOK, Caller, Pipe, NoPipe, Null, ProcessTypeOK,
         processVars, Onward, EndExit, exitFrame, Disconnect
  <2>7. (sendLock \in Caller \cup {"nobody"})'
    BY ClientAssumption, <1>0, SMTT(20) DEF TypeOK, Caller, Pipe, NoPipe, Null, ProcessTypeOK,
         processVars, Onward, EndExit, exitFrame, Disconnect
  <2>8. (calls \in 0..MaxCalls /\ call \in [Caller -> 0..MaxCalls])'
    BY ClientAssumption, <1>0, SMTT(20) DEF TypeOK, Caller, Pipe, NoPipe, Null, ProcessTypeOK,
         processVars, Onward, EndExit, exitFrame, Disconnect
  <2>9. (pc \in [Caller -> {"idle", "queued", "reading", "over"}])'
    BY ClientAssumption, <1>0, SMTT(20) DEF TypeOK, Caller, Pipe, NoPipe, Null, ProcessTypeOK,
         processVars, Onward, EndExit, exitFrame, Disconnect
  <2>10. (reads \in [Caller -> 0..MaxPipes])'
    BY ClientAssumption, <1>0, SMTT(20) DEF TypeOK, Caller, Pipe, NoPipe, Null, ProcessTypeOK,
         processVars, Onward, EndExit, exitFrame, Disconnect
  <2>11. (conn \in [Connector -> {"idle", "connecting", "connected"}])'
    BY ClientAssumption, <1>0, SMTT(20) DEF TypeOK, Caller, Pipe, NoPipe, Null, ProcessTypeOK,
         processVars, Onward, EndExit, exitFrame, Disconnect
  <2>12. (obj \in [Connector -> 0..MaxPipes])'
    BY ClientAssumption, <1>0, SMTT(20) DEF TypeOK, Caller, Pipe, NoPipe, Null, ProcessTypeOK,
         processVars, Onward, EndExit, exitFrame, Disconnect
  <2> QED  BY <2>1, <2>2, <2>3, <2>4, <2>5, <2>6, <2>7, <2>8, <2>9, <2>10, <2>11, <2>12 DEF TypeOK
<1>2. LockHeld'
  BY ClientAssumption, <1>0 DEF LockHeld, TypeOK, Caller, Onward, EndExit, exitFrame,
       Disconnect
<1>3. OneInFlight'
  BY ClientAssumption, <1>0 DEF OneInFlight, TypeOK, LockHeld, NewEmpty, StopIdle, Empty,
       Holds, Serves, Pipe, NoPipe, Usable, IsConnected, processVars, Caller, Onward, EndExit,
       exitFrame, Disconnect
<1>4. NewEmpty'
  BY ClientAssumption, <1>0 DEF NewEmpty, Empty, TypeOK, Pipe, Caller, Onward, EndExit,
       exitFrame, Disconnect
<1>5. Fresh'
  BY ClientAssumption, <1>0 DEF Fresh, TypeOK, Pipe, NoPipe, Caller, Onward, EndExit,
       exitFrame, Disconnect
<1>6. StopIdle'
  BY ClientAssumption, <1>0 DEF StopIdle, TypeOK, Caller, Onward, EndExit, exitFrame,
       Disconnect
<1> QED  BY <1>1, <1>2, <1>3, <1>4, <1>5, <1>6 DEF ClientInv

\* It ends badly.
LEMMA ExitCrashesKeeps ==
    ASSUME ClientInv, ExitCrashes, ProcessTypeOK', Onward
    PROVE  ClientInv'
<1>0. TypeOK /\ LockHeld /\ OneInFlight /\ NewEmpty /\ Fresh /\ StopIdle
  BY DEF ClientInv
<1>1. TypeOK'
  BY ClientAssumption, <1>0, SMTT(20) DEF TypeOK, Caller, Pipe, NoPipe, Null, ProcessTypeOK,
       processVars, Onward, ExitCrashes, exitFrame
<1>2. LockHeld'
  BY ClientAssumption, <1>0 DEF LockHeld, TypeOK, Caller, Onward, ExitCrashes, exitFrame
<1>3. OneInFlight'
  BY ClientAssumption, <1>0 DEF OneInFlight, TypeOK, LockHeld, NewEmpty, StopIdle, Empty,
       Holds, Serves, Pipe, NoPipe, Usable, IsConnected, processVars, Caller, Onward,
       ExitCrashes, exitFrame
<1>4. NewEmpty'
  BY ClientAssumption, <1>0 DEF NewEmpty, Empty, TypeOK, Pipe, Caller, Onward, ExitCrashes,
       exitFrame
<1>5. Fresh'
  BY ClientAssumption, <1>0 DEF Fresh, TypeOK, Pipe, NoPipe, Caller, Onward, ExitCrashes,
       exitFrame
<1>6. StopIdle'
  BY ClientAssumption, <1>0 DEF StopIdle, TypeOK, Caller, Onward, ExitCrashes, exitFrame
<1> QED  BY <1>1, <1>2, <1>3, <1>4, <1>5, <1>6 DEF ClientInv

\* A step of the manager or of the process alone.
LEMMA ManagerKeeps ==
    ASSUME ClientInv, UNCHANGED clientVars, ProcessTypeOK', Onward
    PROVE  ClientInv'
<1>0. TypeOK /\ LockHeld /\ OneInFlight /\ NewEmpty /\ Fresh /\ StopIdle
  BY DEF ClientInv
<1>1. TypeOK'
  <2>1. server \in [Pipe -> 0..started']
    BY <1>0 DEF TypeOK, ProcessTypeOK, Onward
  <2> QED  BY <1>0, <2>1 DEF TypeOK, clientVars
<1>2. LockHeld' /\ NewEmpty' /\ Fresh' /\ StopIdle'
  BY <1>0 DEF LockHeld, NewEmpty, Empty, Fresh, StopIdle, clientVars
<1>3. ASSUME NEW p \in Pipe, Serves(p)' PROVE Serves(p)
  BY <1>0, <1>3 DEF TypeOK, Serves, Onward, clientVars
<1>4. OneInFlight'
  BY <1>0, <1>3 DEF OneInFlight, Empty, Holds, clientVars
<1> QED  BY <1>1, <1>2, <1>4 DEF ClientInv

-----------------------------------------------------------------------------
(* The theorems *)

LEMMA InitClient == Init => ClientInv
<1> SUFFICES ASSUME Init PROVE ClientInv
  OBVIOUS
<1>1. TypeOK
  <2>1. ProcessTypeOK
    BY InitInv DEF Init, ProcessInv
  <2> QED  BY <2>1, ClientAssumption DEF Init, TypeOK, ProcessTypeOK, Caller, Pipe, NoPipe, Null, None
<1>2. LockHeld /\ NewEmpty /\ Fresh
  BY ClientAssumption DEF Init, LockHeld, NewEmpty, Fresh, Empty, Caller, Pipe, NoPipe
<1>3. OneInFlight /\ StopIdle
  BY DEF Init, OneInFlight, StopIdle, Caller
<1> QED  BY <1>1, <1>2, <1>3 DEF ClientInv

LEMMA ClientStepInv ==
    ASSUME ClientInv, [Next]_vars, ProcessTypeOK, ProcessTypeOK'
    PROVE  ClientInv'
<1>1. [ProcessNext]_processVars
  BY ProcessStep
<1>2. Onward
  BY <1>1, NoRevival
<1>3. ASSUME NEW c \in Task, Call(c) PROVE ClientInv'
  BY <1>2, <1>3, CallKeeps
<1>4. ASSUME NEW c \in Caller, CallStep(c) PROVE ClientInv'
  BY <1>2, <1>4, WriteKeeps, WriteFailsKeeps, ReadKeeps, ReadFailsKeeps DEF CallStep
<1>5. ASSUME NEW k \in Connector, ConnectBegin(k) \/ ConnectStep(k) PROVE ClientInv'
  BY <1>2, <1>5, ConnectBeginKeeps, ConnectEndKeeps, ConnectFailsKeeps, AcceptKeeps DEF ConnectStep
<1>6. ASSUME NEW p \in Pipe, Answer(p) PROVE ClientInv'
  BY <1>2, <1>6, AnswerKeeps
<1>7. ASSUME UNCHANGED clientVars PROVE ClientInv'
  BY <1>2, <1>7, ManagerKeeps
<1>8. ASSUME NEW how \in {"tray", "ending"}, BeginExit(how) PROVE ClientInv'
  BY <1>2, <1>8, BeginExitKeeps
<1>9. ASSUME ExitStep PROVE ClientInv'
  BY <1>2, <1>7, <1>9, EndExitKeeps, ExitCrashesKeeps DEF ExitStep, StopStep
<1> QED  BY <1>3, <1>4, <1>5, <1>6, <1>7, <1>8, <1>9 DEF Next, PoolStep, vars

\* What holds of the manager holds of it in the composition.
LEMMA ClientImplementsProcess == Spec => ProcessSpec
<1>1. Init => InitProcess
  BY DEF Init
<1>2. [Next]_vars => [ProcessNext]_processVars
  BY ProcessStep
<1> QED  BY <1>1, <1>2, PTL DEF Spec, ProcessSpec

\* The state has its type, and a working pipe holds at most the line of its reader.
THEOREM ClientInvariant == Spec => []ClientInv
<1>1. Init => ClientInv
  BY InitClient
<1>2. ProcessInv => ProcessTypeOK
  BY DEF ProcessInv
<1>3. ClientInv /\ [Next]_vars /\ ProcessTypeOK /\ ProcessTypeOK' => ClientInv'
  BY ClientStepInv
<1> QED  BY <1>1, <1>2, <1>3, ClientImplementsProcess, ProcessInvariant, PTL DEF Spec

\* Type of the state, for every number of tasks, calls and pipes.
THEOREM ClientTypeCorrect == Spec => []TypeOK
<1>1. ClientInv => TypeOK
  BY DEF ClientInv
<1> QED  BY <1>1, ClientInvariant, PTL

\* A caller reads the answer to its own command.
THEOREM ClientAnswersMatch == Spec => []AnswersMatch
<1>1. ASSUME ClientInv PROVE AnswersMatch
  <2> SUFFICES ASSUME NEW c \in Caller, pc[c] = "reading", Usable(reads[c]), answers[reads[c]] # <<>>
               PROVE  Head(answers[reads[c]]) = call[c]
    BY DEF AnswersMatch
  <2>1. reads[c] \in Pipe
    BY <1>1 DEF ClientInv, TypeOK, Usable, NoPipe, Pipe
  <2>2. PICK b \in Caller : pc[b] = "reading" /\ Holds(reads[c], call[b])
    BY <1>1, <2>1 DEF ClientInv, OneInFlight, Usable, Empty
  <2>3. b = c
    BY <1>1, <2>2 DEF ClientInv, LockHeld
  <2>4. answers[reads[c]] = <<call[c]>>
    BY <2>2, <2>3 DEF Holds
  <2> QED  BY <2>4
<1> QED  BY <1>1, ClientInvariant, PTL

\* With every caller of the client and every way to exit, the manager keeps hold
\* of the engine process.
THEOREM ClientEngineIsHeld == Spec => []EngineIsHeld
BY ClientImplementsProcess, ProcessIsHeld, PTL

\* And the stop of the application is final.
THEOREM ClientStopIsFinal == Spec => []StopIsFinal
BY ClientImplementsProcess, ProcessStopIsFinal, PTL
=============================================================================
