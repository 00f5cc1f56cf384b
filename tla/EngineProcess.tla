---------------------------- MODULE EngineProcess ----------------------------
(***************************************************************************)
(* EngineProcessManager: the user interface starts the engine process,     *)
(* starts it again after a crash, and stops it for good.                   *)
(*                                                                         *)
(* Processes are numbered as they are started.  Windows reports the end of *)
(* a process once, as the event Exited: on a pool thread, where the        *)
(* handler waits for _lock, or on the thread that sees the end first in    *)
(* WaitForExit or HasExited, where the handler runs inside that call and   *)
(* re-enters _lock.                                                        *)
(***************************************************************************)
EXTENDS Naturals

CONSTANT MaxAutoRestarts

ASSUME RestartAssumption == MaxAutoRestarts \in Nat

None == 0

VARIABLES
    started,             \* how many processes there have been
    alive,               \* those that run
    unstarted,           \* attempts that brought up no process
    raised,              \* those whose Exited has been raised
    engineProcess,       \* _engineProcess
    subscribed,          \* processes with OnEngineExited attached
    exiting,             \* pool threads in OnEngineExited, waiting for _lock
    restarts,            \* delays of 500 ms under way
    restartCount,
    intentionalShutdown,
    disposed,
    stop,                \* where StopEngineAsync is
    notFinal             \* history: this stop was not in a position to be final

processVars ==
    <<started, alive, unstarted, raised, engineProcess, subscribed, exiting,
      restarts, restartCount, intentionalShutdown, disposed, stop, notFinal>>

\* lock (_lock): StopEngineAsync keeps it while it waits for the process.
Unlocked == stop \notin {"waiting", "killed"}

IsEngineRunning == engineProcess \in alive

\* OnStartup has called StartEngine: the engine runs, its file is missing, or
\* its Start threw and the field keeps an object without a process.
InitProcess ==
    /\ started = 1
    /\ \/ alive = {1} /\ engineProcess = 1
       \/ alive = {}  /\ engineProcess \in {None, 1}
    /\ unstarted = {1} \ alive
    /\ subscribed = {engineProcess} \ {None}
    /\ raised = {} /\ exiting = {}
    /\ restarts = 0 /\ restartCount = 0
    /\ intentionalShutdown = FALSE /\ disposed = FALSE
    /\ stop = "idle" /\ notFinal = FALSE

-----------------------------------------------------------------------------
(* The bodies that several calls share, each under _lock. *)

CleanupProcess ==
    /\ engineProcess' = None
    /\ subscribed' = subscribed \ {engineProcess}

\* Mutants: no limit of restarts; no restart.
OnEngineExitedUnlimited ==
    /\ CleanupProcess
    /\ restartCount' = IF ~intentionalShutdown THEN restartCount + 1 ELSE restartCount
    /\ restarts' = IF ~intentionalShutdown THEN restarts + 1 ELSE restarts

OnEngineExitedIgnores ==
    /\ CleanupProcess
    /\ UNCHANGED <<restartCount, restarts>>

\* The event handler, wherever it runs.
OnEngineExited ==
    LET shouldRestart == ~intentionalShutdown /\ restartCount < MaxAutoRestarts
    IN  /\ CleanupProcess
        /\ restartCount' = IF shouldRestart THEN restartCount + 1 ELSE restartCount
        /\ restarts' = IF shouldRestart THEN restarts + 1 ELSE restarts

\* A process that runs; one whose Start threw, which the field keeps; no file.
StartsProcess ==
    LET p == started + 1
    IN  /\ started' = p
        /\ \/ /\ alive' = alive \cup {p}
              /\ engineProcess' = p /\ subscribed' = subscribed \cup {p}
              /\ intentionalShutdown' = FALSE
              /\ UNCHANGED unstarted
           \/ /\ unstarted' = unstarted \cup {p}
              /\ \/ engineProcess' = p /\ subscribed' = subscribed \cup {p}
                 \/ UNCHANGED <<engineProcess, subscribed>>
              /\ UNCHANGED <<alive, intentionalShutdown>>

\* The continuation of Task.Delay(500): StartEngine.
Restart ==
    /\ restarts > 0
    /\ Unlocked
    /\ restarts' = restarts - 1
    /\ IF IsEngineRunning
       THEN UNCHANGED <<started, alive, unstarted, engineProcess, subscribed, intentionalShutdown>>
       ELSE StartsProcess
    /\ UNCHANGED <<raised, exiting, restartCount, disposed, stop, notFinal>>

-----------------------------------------------------------------------------
(* Windows *)

ProcessExits(p) ==
    /\ p \in alive
    /\ alive' = alive \ {p}
    /\ UNCHANGED <<started, unstarted, raised, engineProcess, subscribed, exiting, restarts,
                   restartCount, intentionalShutdown, disposed, stop, notFinal>>

Unraised(p) == p \notin alive \cup unstarted \cup raised

RaiseExited(p) ==
    /\ p \in subscribed /\ Unraised(p)
    /\ raised' = raised \cup {p}
    /\ exiting' = exiting \cup {p}
    /\ UNCHANGED <<started, alive, unstarted, engineProcess, subscribed, restarts,
                   restartCount, intentionalShutdown, disposed, stop, notFinal>>

-----------------------------------------------------------------------------
(* The manager *)

HandleExited(p) ==
    /\ p \in exiting
    /\ Unlocked
    /\ exiting' = exiting \ {p}
    /\ OnEngineExited
    /\ UNCHANGED <<started, alive, unstarted, raised, intentionalShutdown, disposed, stop, notFinal>>

\* Mutant: does not say that the stop is intended.
StopBeginUnmarked ==
    /\ stop \in {"idle", "asking"} /\ ~disposed
    /\ stop' = "asking"
    /\ notFinal' = (restarts > 0)
    /\ UNCHANGED <<started, alive, unstarted, raised, engineProcess, subscribed, exiting,
                   restarts, restartCount, intentionalShutdown, disposed>>

\* The first lock of StopEngineAsync; the shutdown command comes after it.  A
\* second call may begin while the first one awaits the answer to its command.
StopBegin ==
    /\ stop \in {"idle", "asking"} /\ ~disposed
    /\ stop' = "asking"
    /\ intentionalShutdown' = TRUE
    /\ notFinal' = (restarts > 0)
    /\ UNCHANGED <<started, alive, unstarted, raised, engineProcess, subscribed, exiting,
                   restarts, restartCount, disposed>>

\* The second lock.  HasExited throws for a process that never started, and
\* for one that has ended it may be the call that raises Exited.
StopLock ==
    /\ stop = "asking"
    /\ \/ /\ IsEngineRunning
          /\ stop' = "waiting"
          /\ UNCHANGED <<raised, engineProcess, subscribed, restarts, restartCount>>
       \/ /\ engineProcess \in unstarted
          /\ stop' = "threw"
          /\ UNCHANGED <<raised, engineProcess, subscribed, restarts, restartCount>>
       \/ /\ engineProcess # None /\ Unraised(engineProcess)
          /\ stop' = "done"
          /\ raised' = raised \cup {engineProcess}
          /\ OnEngineExited
       \/ /\ engineProcess \in raised \cup {None}
          /\ stop' = "done"
          /\ CleanupProcess
          /\ UNCHANGED <<raised, restarts, restartCount>>
    /\ UNCHANGED <<started, alive, unstarted, exiting, intentionalShutdown, disposed, notFinal>>

\* The wait ends with the process.  If WaitForExit is the call that raises
\* Exited, the handler sets _engineProcess to null and the next line
\* dereferences it; HasExited after a timeout may be that call too.
StopWaited ==
    /\ stop = "waiting" /\ ~IsEngineRunning
    /\ \/ /\ Unraised(engineProcess)
          /\ stop' \in {"threw", "done"}
          /\ raised' = raised \cup {engineProcess}
          /\ OnEngineExited
       \/ /\ engineProcess \in raised
          /\ stop' = "done"
          /\ CleanupProcess
          /\ UNCHANGED <<raised, restarts, restartCount>>
    /\ UNCHANGED <<started, alive, unstarted, exiting, intentionalShutdown, disposed, notFinal>>

\* Mutant: no Kill after the wait.
StopKillMissed ==
    /\ stop = "waiting" /\ IsEngineRunning
    /\ stop' = "killed"
    /\ UNCHANGED <<started, alive, unstarted, raised, engineProcess, subscribed, exiting,
                   restarts, restartCount, intentionalShutdown, disposed, notFinal>>

\* It times out: Kill, and then CleanupProcess.
StopKill ==
    /\ stop = "waiting" /\ IsEngineRunning
    /\ alive' = alive \ {engineProcess}
    /\ stop' = "killed"
    /\ UNCHANGED <<started, unstarted, raised, engineProcess, subscribed, exiting, restarts,
                   restartCount, intentionalShutdown, disposed, notFinal>>

StopKilled ==
    /\ stop = "killed"
    /\ stop' = "done"
    /\ CleanupProcess
    /\ UNCHANGED <<started, alive, unstarted, raised, exiting, restarts, restartCount,
                   intentionalShutdown, disposed, notFinal>>

\* The application disposes of the manager after its stop, or when it has
\* waited three seconds for it in vain.
Dispose ==
    /\ stop # "idle" /\ Unlocked /\ ~disposed
    /\ disposed' = TRUE
    /\ intentionalShutdown' = TRUE
    /\ notFinal' = (notFinal \/ stop = "asking")
    /\ CleanupProcess
    /\ UNCHANGED <<started, alive, unstarted, raised, exiting, restarts, restartCount, stop>>
-----------------------------------------------------------------------------
ManagerStep ==
    \/ \E p \in subscribed \cup exiting : RaiseExited(p) \/ HandleExited(p)
    \/ Restart
    \/ StopLock \/ StopWaited \/ StopKill \/ StopKilled

ProcessNext ==
    \/ \E p \in alive : ProcessExits(p)
    \/ ManagerStep
    \/ StopBegin
    \/ Dispose

ProcessSpec == InitProcess /\ [][ProcessNext]_processVars

FairProcessSpec == ProcessSpec /\ WF_processVars(ManagerStep)

-----------------------------------------------------------------------------
\* Type of the state.
ProcessTypeOK ==
    /\ started \in Nat /\ started >= 1
    /\ {alive, unstarted, raised, subscribed, exiting} \subseteq SUBSET (1..started)
    /\ engineProcess \in 0..started
    /\ {restarts, restartCount} \subseteq 0..MaxAutoRestarts
    /\ {intentionalShutdown, disposed, notFinal} \subseteq BOOLEAN
    /\ stop \in {"idle", "asking", "waiting", "killed", "done", "threw"}

\* There is never an engine process that the manager does not hold, so never two
\* of them (they would fight for one pipe), through crashes, the delayed
\* restarts of OnEngineExited, and a stop at any moment, up to Dispose, which
\* may give up a process that did not stop in time.
EngineIsHeld == ~disposed => \A p \in alive : p = engineProcess

\* When StopEngineAsync has returned no engine runs and none is going to be
\* started: OnEngineExited sees _intentionalShutdown wherever it runs.  The
\* exceptions are a stop that began with a restart already under way, and one
\* that Dispose overtook.
StopIsFinal == stop \in {"done", "threw"} /\ ~notFinal => alive = {} /\ restarts = 0

Crashed ==
    /\ engineProcess \notin alive \cup unstarted \cup {None}
    /\ restartCount < MaxAutoRestarts
    /\ stop = "idle"

\* An engine that crashed is started again, or at least the attempt is made, as
\* long as the restarts of OnEngineExited are not used up, unless the application
\* stops it.
CrashRepaired == Crashed ~> (alive # {} \/ unstarted # {} \/ stop # "idle")
=============================================================================
