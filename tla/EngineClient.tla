----------------------------- MODULE EngineClient -----------------------------
(***************************************************************************)
(* EngineIpcClient between the tasks that use it and the engine process.   *)
(*                                                                         *)
(* All tasks but one run as continuations on the UI thread, which has no   *)
(* ConfigureAwait(false) anywhere: a task goes on after an await only when *)
(* that thread is free.  The other one is the StopEngineAsync of OnExit,   *)
(* which runs on a pool thread while OnExit blocks the UI thread; it may   *)
(* begin while that of TrayExit_Click awaits its answer.                   *)
(*                                                                         *)
(* A command and its answer are the number of the call: the protocol has   *)
(* no numbers, so what a task reads is whatever comes first.               *)
(***************************************************************************)
EXTENDS EngineProcess, Sequences

CONSTANTS
    Task,          \* the tasks of the UI thread that send commands
    Connector,     \* the tasks that call ConnectAsync
    MaxCalls,      \* bound on the calls of SendCommandAsync
    MaxPipes       \* bound on the pipe objects

ASSUME ClientAssumption ==
    /\ {"tray", "ending", "nobody"} \cap Task = {}
    /\ {MaxCalls, MaxPipes} \subseteq Nat

\* "tray" and "ending" are the StopEngineAsync of TrayExit_Click and of OnExit.
Caller == Task \cup {"tray", "ending"}
Pipe   == 1..MaxPipes
NoPipe == 0
Null   == 0

VARIABLES
    exit,          \* "no"; "tray": TrayExit_Click runs; "ending": OnExit blocks the
                   \* UI thread; "over"
    pipes,         \* how many pipe objects there have been
    pipe,          \* _pipe
    streams,       \* the pipe that _reader and _writer are on, set and reset together
    state,         \* of a pipe object: "none", "new", "open", "dead"
    server,        \* the process at the other end of it
    requests,      \* lines written and not yet answered
    answers,       \* lines answered and not yet read
    sendLock,      \* _sendLock: who holds it
    calls,         \* how many calls there have been
    call,          \* the call each task is in
    pc,            \* "idle", "queued" for the lock, "reading", and "over" at an exit
    reads,         \* the pipe whose reader it awaits
    conn,          \* ConnectAsync of each connector: "idle", "connecting", "connected"
    obj            \* the pipe object it awaits

clientVars == <<exit, pipes, pipe, streams, state, server, requests, answers, sendLock,
                calls, call, pc, reads, conn, obj>>
vars == <<processVars, clientVars>>

\* StopEngineAsync holds the lock of the manager on the UI thread or on the pool.
UIRuns == exit = "no" \/ (exit = "tray" /\ Unlocked)

Runs(c) == IF c = "ending" THEN exit = "ending" ELSE UIRuns

IsConnected == pipe # NoPipe /\ state[pipe] = "open"

Serves(p) == server[p] \in alive

Usable(p) == p # NoPipe /\ state[p] = "open" /\ Serves(p)

Init ==
    /\ InitProcess
    /\ exit = "no"
    /\ pipes = 0 /\ pipe = NoPipe /\ streams = NoPipe
    /\ state = [p \in Pipe |-> "none"]
    /\ server = [p \in Pipe |-> None]
    /\ requests = [p \in Pipe |-> <<>>]
    /\ answers = [p \in Pipe |-> <<>>]
    /\ sendLock = "nobody"
    /\ calls = 0
    /\ call = [c \in Caller |-> Null]
    /\ pc = [c \in Caller |-> "idle"]
    /\ reads = [c \in Caller |-> NoPipe]
    /\ conn = [k \in Connector |-> "idle"]
    /\ obj = [k \in Connector |-> NoPipe]

-----------------------------------------------------------------------------
(* SendCommandAsync *)

\* Not connected: null at once.
Enter(c) ==
    /\ calls < MaxCalls
    /\ calls' = calls + 1
    /\ call' = [call EXCEPT ![c] = IF IsConnected THEN calls + 1 ELSE Null]
    /\ pc' = [pc EXCEPT ![c] = IF IsConnected THEN "queued" ELSE "idle"]

Call(c) ==
    /\ UIRuns /\ pc[c] = "idle"
    /\ Enter(c)
    /\ UNCHANGED <<processVars, exit, pipes, pipe, streams, state, server, requests, answers,
                   sendLock, reads, conn, obj>>

\* Disconnect()
Disconnect ==
    /\ state' = IF pipe = NoPipe THEN state ELSE [state EXCEPT ![pipe] = "dead"]
    /\ pipe' = NoPipe
    /\ streams' = NoPipe

\* How a call ends; ShutdownEngineAsync then disconnects.
Finish(c) ==
    /\ call' = [call EXCEPT ![c] = Null]
    /\ reads' = [reads EXCEPT ![c] = NoPipe]
    /\ pc' = [pc EXCEPT ![c] = IF c \in Task THEN "idle" ELSE "over"]

\* Mutant: without the lock.
WriteUnlocked(c) ==
    /\ Runs(c) /\ pc[c] = "queued"
    /\ Usable(streams)
    /\ sendLock' = c
    /\ requests' = [requests EXCEPT ![streams] = Append(@, call[c])]
    /\ reads' = [reads EXCEPT ![c] = streams]
    /\ pc' = [pc EXCEPT ![c] = "reading"]
    /\ UNCHANGED <<processVars, exit, pipes, pipe, streams, state, server, answers, calls, call,
                   conn, obj>>

\* The lock is taken, the command written, and the read begun on whatever
\* _reader is then; the UI thread runs nothing in between that could finish a
\* ConnectAsync.
Write(c) ==
    /\ Runs(c) /\ pc[c] = "queued" /\ sendLock = "nobody"
    /\ Usable(streams)
    /\ sendLock' = c
    /\ requests' = [requests EXCEPT ![streams] = Append(@, call[c])]
    /\ reads' = [reads EXCEPT ![c] = streams]
    /\ pc' = [pc EXCEPT ![c] = "reading"]
    /\ UNCHANGED <<processVars, exit, pipes, pipe, streams, state, server, answers, calls, call,
                   conn, obj>>

\* Any exception is caught, and finally releases the lock.
GiveUp(c) ==
    /\ Finish(c)
    /\ IF c \notin Task THEN Disconnect ELSE
          /\ state' = [p \in Pipe |-> IF state[p] = "open" /\ ~Serves(p) THEN "dead" ELSE state[p]]
          /\ UNCHANGED <<pipe, streams>>
    /\ UNCHANGED <<processVars, exit, pipes, server, requests, answers, calls, conn, obj>>

WriteFails(c) ==
    /\ Runs(c) /\ pc[c] = "queued" /\ sendLock = "nobody"
    /\ ~Usable(streams)
    /\ UNCHANGED sendLock
    /\ GiveUp(c)

\* Mutant: the lock is released on success only.
ReadFailsKeepsLock(c) ==
    /\ Runs(c) /\ pc[c] = "reading"
    /\ ~Usable(reads[c])
    /\ UNCHANGED sendLock
    /\ GiveUp(c)

ReadFails(c) ==
    /\ Runs(c) /\ pc[c] = "reading"
    /\ ~Usable(reads[c])
    /\ sendLock' = "nobody"
    /\ GiveUp(c)

Read(c) ==
    /\ Runs(c) /\ pc[c] = "reading"
    /\ state[reads[c]] = "open" /\ answers[reads[c]] # <<>>
    /\ Finish(c)
    /\ answers' = [answers EXCEPT ![reads[c]] = Tail(@)]
    /\ sendLock' = "nobody"
    /\ IF c \notin Task THEN Disconnect ELSE UNCHANGED <<state, pipe, streams>>
    /\ UNCHANGED <<processVars, exit, pipes, server, requests, calls, conn, obj>>

-----------------------------------------------------------------------------
(* ConnectAsync *)

ConnectBegin(k) ==
    /\ UIRuns /\ conn[k] = "idle"
    /\ k = "poll" => ~IsConnected
    /\ pipes < MaxPipes
    /\ pipes' = pipes + 1
    /\ state' = [p \in Pipe |-> IF p = pipe THEN "dead"
                                ELSE IF p = pipes + 1 THEN "new" ELSE state[p]]
    /\ pipe' = pipes + 1
    /\ streams' = NoPipe
    /\ conn' = [conn EXCEPT ![k] = "connecting"]
    /\ obj' = [obj EXCEPT ![k] = pipes + 1]
    /\ UNCHANGED <<processVars, exit, server, requests, answers, sendLock, calls, call, pc, reads>>

\* The server has one pipe instance: it takes a client when the last one is gone.
Accept(k, q) ==
    /\ exit # "over"
    /\ conn[k] = "connecting" /\ state[obj[k]] = "new"
    /\ q \in alive
    /\ \A p \in Pipe : ~(state[p] = "open" /\ server[p] = q)
    /\ state' = [state EXCEPT ![obj[k]] = "open"]
    /\ server' = [server EXCEPT ![obj[k]] = q]
    /\ conn' = [conn EXCEPT ![k] = "connected"]
    /\ UNCHANGED <<processVars, exit, pipes, pipe, streams, requests, answers, sendLock, calls,
                   call, pc, reads, obj>>

\* The readers are made on what _pipe is by now.
ConnectEnd(k) ==
    /\ UIRuns /\ conn[k] = "connected"
    /\ streams' = pipe
    /\ conn' = [conn EXCEPT ![k] = "idle"]
    /\ obj' = [obj EXCEPT ![k] = NoPipe]
    /\ UNCHANGED <<processVars, exit, pipes, pipe, state, server, requests, answers, sendLock, calls,
                   call, pc, reads>>

\* A timeout, or the object was disposed by another call.  The Disconnect closes
\* what _pipe is by now, which may be the other call's.
ConnectFails(k) ==
    /\ UIRuns /\ conn[k] = "connecting"
    /\ Disconnect
    /\ conn' = [conn EXCEPT ![k] = "idle"]
    /\ obj' = [obj EXCEPT ![k] = NoPipe]
    /\ UNCHANGED <<processVars, exit, pipes, server, requests, answers, sendLock, calls, call,
                   pc, reads>>

-----------------------------------------------------------------------------
(* The engine answers the lines of a client in order. *)

Answer(p) ==
    /\ exit # "over"
    /\ Serves(p) /\ requests[p] # <<>>
    /\ requests' = [requests EXCEPT ![p] = Tail(@)]
    /\ answers' = [answers EXCEPT ![p] = Append(@, Head(requests[p]))]
    /\ UNCHANGED <<processVars, exit, pipes, pipe, streams, state, server, sendLock, calls, call,
                   pc, reads, conn, obj>>

-----------------------------------------------------------------------------
(* The application ends. *)

exitFrame == <<pipes, server, requests, answers, sendLock, reads, conn, obj>>

\* OnExit comes by itself, or the session ends while TrayExit_Click awaits the
\* answer to its shutdown command: the manager is still there.
MayExit(how) ==
    \/ exit = "no"
    \/ how = "ending" /\ exit = "tray" /\ pc["tray"] \in {"queued", "reading"}

\* StopEngineAsync as far as its first await: on the UI thread from the tray, or
\* on the pool with the UI thread blocked in Wait.
BeginExit(how) ==
    /\ MayExit(how) /\ calls < MaxCalls
    /\ exit' = how
    /\ StopBegin
    /\ IF IsConnected
       THEN Enter(how)
       ELSE /\ pc' = [pc EXCEPT ![how] = "over"]
            /\ UNCHANGED <<calls, call>>
    /\ UNCHANGED <<exitFrame, pipe, streams, state>>

\* The rest of the StopEngineAsync that still goes on.
StopStep ==
    /\ exit \in {"tray", "ending"} /\ pc[exit] = "over"
    /\ StopLock \/ StopWaited \/ StopKill \/ StopKilled
    /\ UNCHANGED clientVars

\* Mutant: OnExit waits for the shutdown command however long it takes.
ExitTimesOutLate == exit = "ending" /\ stop = "asking" /\ pc["ending"] = "over"

\* OnExit waits for three seconds and no longer; once StopEngineAsync holds the
\* lock, Dispose waits for it.
ExitTimesOut == exit = "ending" /\ stop = "asking"

\* StopEngineAsync returned, or threw, or OnExit has waited long enough; the
\* manager and the client are disposed of.
EndExit ==
    /\ \/ stop = "done" /\ exit \in {"tray", "ending"}
       \/ stop = "threw" /\ exit = "ending"
       \/ ExitTimesOut
    /\ Dispose
    /\ exit' = "over"
    /\ Disconnect
    /\ UNCHANGED <<exitFrame, calls, call, pc>>

\* In TrayExit_Click nothing catches what StopEngineAsync throws.
ExitCrashes ==
    /\ exit = "tray" /\ stop = "threw"
    /\ exit' = "over"
    /\ UNCHANGED <<processVars, exitFrame, calls, call, pc, pipe, streams, state>>

-----------------------------------------------------------------------------
CallStep(c) == Write(c) \/ WriteFails(c) \/ Read(c) \/ ReadFails(c)
ConnectStep(k) == ConnectEnd(k) \/ ConnectFails(k) \/ \E q \in alive : Accept(k, q)

PoolStep ==
    /\ exit # "over"
    /\ \/ \E p \in subscribed \cup exiting : RaiseExited(p) \/ HandleExited(p)
       \/ Restart
    /\ UNCHANGED clientVars

ExitStep == StopStep \/ EndExit \/ ExitCrashes

Next ==
    \/ \E c \in Task : Call(c)
    \/ \E c \in Caller : CallStep(c)
    \/ \E k \in Connector : ConnectBegin(k) \/ ConnectStep(k)
    \/ \E p \in Pipe : Answer(p)
    \/ \E p \in alive : ProcessExits(p) /\ exit # "over" /\ UNCHANGED clientVars
    \/ PoolStep
    \/ \E how \in {"tray", "ending"} : BeginExit(how)
    \/ ExitStep

Spec == Init /\ [][Next]_vars

FairSpec ==
    /\ Spec
    /\ \A c \in Caller : WF_vars(CallStep(c))
    /\ \A p \in Pipe : WF_vars(Answer(p))
    /\ WF_vars(PoolStep)
    /\ WF_vars(ExitStep)

-----------------------------------------------------------------------------
\* Type of the state.
TypeOK ==
    /\ ProcessTypeOK
    /\ exit \in {"no", "tray", "ending", "over"}
    /\ pipes \in 0..MaxPipes /\ {pipe, streams} \subseteq 0..MaxPipes
    /\ state \in [Pipe -> {"none", "new", "open", "dead"}]
    /\ server \in [Pipe -> 0..started]
    /\ {requests, answers} \subseteq [Pipe -> Seq(0..MaxCalls)]
    /\ sendLock \in Caller \cup {"nobody"}
    /\ calls \in 0..MaxCalls /\ call \in [Caller -> 0..MaxCalls]
    /\ pc \in [Caller -> {"idle", "queued", "reading", "over"}]
    /\ reads \in [Caller -> 0..MaxPipes]
    /\ conn \in [Connector -> {"idle", "connecting", "connected"}]
    /\ obj \in [Connector -> 0..MaxPipes]

\* A caller reads the answer to its own command and never one that was left in a
\* pipe for another: commands and answers carry no numbers, the streams are
\* replaced by overlapping ConnectAsync calls that take no lock, and engine and
\* pipes fail at any moment.  (A command is never cancelled between its write
\* and its read: the only token is that of the reconnect service, cancelled in
\* OnExit, when no continuation of the UI thread runs any more.)
AnswersMatch ==
    \A c \in Caller : pc[c] = "reading" /\ Usable(reads[c]) /\ answers[reads[c]] # <<>>
                       => Head(answers[reads[c]]) = call[c]

Waiting(c) == pc[c] \in {"queued", "reading"}

\* SendCommandAsync returns to every caller, whatever becomes of the engine, the
\* pipe or the other callers: _sendLock is released on every path.
EveryCallReturns == \A c \in Task : Waiting(c) ~> (~Waiting(c) \/ exit # "no")

\* The application ends once it has begun to: OnExit blocks the UI thread while a
\* command in flight, of a task or of the exit from the tray, keeps _sendLock
\* until that thread goes on, and only the limit of its wait resolves that.
ExitCompletes == (exit # "no") ~> (exit = "over")
=============================================================================
