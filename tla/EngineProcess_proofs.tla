------------------------- MODULE EngineProcess_proofs -------------------------
(***************************************************************************)
(* The manager never loses hold of an engine process, and a stop is final. *)
(*                                                                         *)
(* Both rest on one fact: of a live process, an unhandled exit, and a      *)
(* delayed restart there is at most one at a time.  A process that is held *)
(* can exit; its exit is handled once and gives up the hold; that may      *)
(* leave a delayed restart; and that starts the next process.              *)
(***************************************************************************)
EXTENDS EngineProcess, TLAPS

\* Only the process that is held has a handler attached.
OnlyHeldSubscribed == subscribed \subseteq {engineProcess}

\* At most one exit waits to be handled, of the process that is held or was.
OneExit ==
    /\ \A p, q \in exiting : p = q
    /\ \A p \in exiting : p \in raised /\ engineProcess \in {p, None}

\* While a restart is delayed there is nothing else.
RestartAlone ==
    restarts > 0 => restarts = 1 /\ engineProcess = None /\ exiting = {}

\* A process whose exit was raised, or that never started, does not run.
EndedForGood == (raised \cup unstarted) \cap alive = {}

ExitAlone  == ~disposed /\ exiting # {} => alive = {}
WaitsForIt == stop = "waiting" => engineProcess # None
KilledIt   == stop = "killed" /\ ~disposed => alive = {}

\* A stop that is in a position to be final is marked as intended, and is
\* overtaken neither by a restart nor by Dispose.
FinalStop ==
    stop # "idle" /\ ~notFinal =>
        /\ restarts = 0 /\ intentionalShutdown
        /\ disposed => stop \in {"done", "threw"}

ProcessInv ==
    /\ ProcessTypeOK
    /\ OnlyHeldSubscribed /\ OneExit /\ RestartAlone /\ EndedForGood
    /\ ExitAlone /\ WaitsForIt /\ KilledIt /\ FinalStop
    /\ EngineIsHeld /\ StopIsFinal

-----------------------------------------------------------------------------
(* One lemma per step of the manager and its process. *)

\* A delayed restart.
LEMMA RestartStep ==
    ASSUME ProcessInv, Restart
    PROVE  ProcessInv'
<1>1. ProcessTypeOK'
  <2>1. CASE IsEngineRunning
    BY <2>1, SMTT(20) DEF ProcessInv, ProcessTypeOK, RestartAlone, Restart, IsEngineRunning, None
  <2>2. CASE ~IsEngineRunning
    <3>1. started + 1 \in Nat /\ started + 1 >= 1 /\ 1..started \subseteq 1..(started + 1)
      BY DEF ProcessInv, ProcessTypeOK
    <3>2. StartsProcess
      BY <2>2 DEF Restart
    <3>3. started' \in Nat /\ started' >= 1 /\ engineProcess' \in 0..started'
      BY <3>1, <3>2, SMTT(20) DEF ProcessInv, ProcessTypeOK, StartsProcess
    <3>4. {alive', unstarted', subscribed'} \subseteq SUBSET (1..started')
      BY <3>1, <3>2, SMTT(20) DEF ProcessInv, ProcessTypeOK, StartsProcess
    <3>5. {raised', exiting'} \subseteq SUBSET (1..started')
      BY <3>1, <3>2, SMTT(20) DEF ProcessInv, ProcessTypeOK, StartsProcess, Restart
    <3>6. {restarts', restartCount'} \subseteq 0..MaxAutoRestarts
      BY RestartAssumption, SMTT(20) DEF ProcessInv, ProcessTypeOK, Restart
    <3>7. intentionalShutdown' \in BOOLEAN
      BY <3>2, Zenon DEF ProcessInv, ProcessTypeOK, StartsProcess
    <3>8. {disposed', notFinal'} \subseteq BOOLEAN /\ stop' \in {"idle", "asking", "waiting", "killed", "done", "threw"}
      BY Zenon DEF ProcessInv, ProcessTypeOK, Restart
    <3> QED  BY <3>3, <3>4, <3>5, <3>6, <3>7, <3>8 DEF ProcessTypeOK
  <2> QED  BY <2>1, <2>2
<1>2. OnlyHeldSubscribed'
  <2>1. subscribed = {}
    BY SMTT(20) DEF ProcessInv, OnlyHeldSubscribed, RestartAlone, ProcessTypeOK, Restart, None
  <2> QED  BY <2>1, SMTT(20) DEF ProcessInv, OnlyHeldSubscribed, RestartAlone, ProcessTypeOK, Restart, StartsProcess, None
<1>3. OneExit'
  BY RestartAssumption, SMTT(20) DEF ProcessInv, OneExit, RestartAlone, Restart,
       IsEngineRunning, StartsProcess
<1>4. RestartAlone'
  BY RestartAssumption, SMTT(20) DEF ProcessInv, RestartAlone, Restart, IsEngineRunning,
       StartsProcess
<1>5. EndedForGood'
  BY RestartAssumption, SMTT(20) DEF ProcessInv, EndedForGood, ProcessTypeOK, Restart,
       IsEngineRunning, StartsProcess
<1>6. ExitAlone'
  BY RestartAssumption, SMTT(20) DEF ProcessInv, ExitAlone, RestartAlone, Restart,
       IsEngineRunning, StartsProcess
<1>7. WaitsForIt'
  BY RestartAssumption, SMTT(20) DEF ProcessInv, WaitsForIt, RestartAlone, Restart,
       IsEngineRunning, StartsProcess
<1>8. KilledIt'
  BY RestartAssumption, SMTT(20) DEF ProcessInv, KilledIt, ProcessTypeOK,
       OnlyHeldSubscribed, OneExit, RestartAlone, EndedForGood, ExitAlone, WaitsForIt,
       FinalStop, EngineIsHeld, StopIsFinal, None, Unlocked, CleanupProcess, Restart,
       IsEngineRunning, StartsProcess
<1>9. FinalStop'
  BY RestartAssumption, SMTT(20) DEF ProcessInv, FinalStop, Restart, IsEngineRunning,
       StartsProcess
<1>10. EngineIsHeld'
  BY RestartAssumption, SMTT(20) DEF ProcessInv, EngineIsHeld, Restart, IsEngineRunning,
       StartsProcess
<1>11. StopIsFinal'
  BY RestartAssumption, SMTT(20) DEF ProcessInv, StopIsFinal, Restart, IsEngineRunning,
       StartsProcess
<1> QED  BY <1>1, <1>2, <1>3, <1>4, <1>5, <1>6, <1>7, <1>8, <1>9, <1>10, <1>11 DEF ProcessInv

\* An engine crashes or ends.
LEMMA ProcessExitsStep ==
    ASSUME ProcessInv, NEW p, ProcessExits(p)
    PROVE  ProcessInv'
<1>1. ProcessTypeOK'
  BY RestartAssumption, SMTT(20) DEF ProcessInv, ProcessTypeOK, ProcessExits
<1>2. OnlyHeldSubscribed'
  BY RestartAssumption, SMTT(20) DEF ProcessInv, OnlyHeldSubscribed, ProcessExits
<1>3. OneExit'
  BY RestartAssumption, SMTT(20) DEF ProcessInv, OneExit, ProcessExits
<1>4. RestartAlone'
  BY RestartAssumption, SMTT(20) DEF ProcessInv, RestartAlone, ProcessExits
<1>5. EndedForGood'
  BY RestartAssumption, SMTT(20) DEF ProcessInv, EndedForGood, ProcessExits
<1>6. ExitAlone'
  BY RestartAssumption, SMTT(20) DEF ProcessInv, ExitAlone, ProcessExits
<1>7. WaitsForIt'
  BY RestartAssumption, SMTT(20) DEF ProcessInv, WaitsForIt, ProcessExits
<1>8. KilledIt'
  BY RestartAssumption, SMTT(20) DEF ProcessInv, KilledIt, ProcessExits
<1>9. FinalStop'
  BY RestartAssumption, SMTT(20) DEF ProcessInv, FinalStop, ProcessExits
<1>10. EngineIsHeld'
  BY RestartAssumption, SMTT(20) DEF ProcessInv, EngineIsHeld, ProcessExits
<1>11. StopIsFinal'
  BY RestartAssumption, SMTT(20) DEF ProcessInv, StopIsFinal, ProcessExits
<1> QED  BY <1>1, <1>2, <1>3, <1>4, <1>5, <1>6, <1>7, <1>8, <1>9, <1>10, <1>11 DEF ProcessInv

\* Its exit is reported.
LEMMA RaiseExitedStep ==
    ASSUME ProcessInv, NEW p, RaiseExited(p)
    PROVE  ProcessInv'
<1>1. ProcessTypeOK'
  BY RestartAssumption, SMTT(20) DEF ProcessInv, ProcessTypeOK, RaiseExited, Unraised
<1>2. OnlyHeldSubscribed'
  BY RestartAssumption, SMTT(20) DEF ProcessInv, OnlyHeldSubscribed, RaiseExited, Unraised
<1>3. OneExit'
  BY RestartAssumption, SMTT(20) DEF ProcessInv, OneExit, ProcessTypeOK, OnlyHeldSubscribed,
       None, RaiseExited, Unraised
<1>4. RestartAlone'
  BY RestartAssumption, SMTT(20) DEF ProcessInv, RestartAlone, ProcessTypeOK,
       OnlyHeldSubscribed, None, RaiseExited, Unraised
<1>5. EndedForGood'
  BY RestartAssumption, SMTT(20) DEF ProcessInv, EndedForGood, RaiseExited, Unraised
<1>6. ExitAlone'
  BY RestartAssumption, SMTT(20) DEF ProcessInv, ExitAlone, EngineIsHeld,
       OnlyHeldSubscribed, EndedForGood, KilledIt, None, RaiseExited, Unraised
<1>7. WaitsForIt'
  BY RestartAssumption, SMTT(20) DEF ProcessInv, WaitsForIt, RaiseExited, Unraised
<1>8. KilledIt'
  BY RestartAssumption, SMTT(20) DEF ProcessInv, KilledIt, RaiseExited, Unraised
<1>9. FinalStop'
  BY RestartAssumption, SMTT(20) DEF ProcessInv, FinalStop, RaiseExited, Unraised
<1>10. EngineIsHeld'
  BY RestartAssumption, SMTT(20) DEF ProcessInv, EngineIsHeld, RaiseExited, Unraised
<1>11. StopIsFinal'
  BY RestartAssumption, SMTT(20) DEF ProcessInv, StopIsFinal, RaiseExited, Unraised
<1> QED  BY <1>1, <1>2, <1>3, <1>4, <1>5, <1>6, <1>7, <1>8, <1>9, <1>10, <1>11 DEF ProcessInv

\* The handler runs on the pool.
LEMMA HandleExitedStep ==
    ASSUME ProcessInv, NEW p, HandleExited(p)
    PROVE  ProcessInv'
<1>1. ProcessTypeOK'
  BY RestartAssumption, SMTT(20) DEF ProcessInv, ProcessTypeOK, RestartAlone, HandleExited,
       Unlocked, OnEngineExited, CleanupProcess, None
<1>2. OnlyHeldSubscribed'
  BY RestartAssumption, SMTT(20) DEF ProcessInv, OnlyHeldSubscribed, HandleExited, Unlocked,
       OnEngineExited, CleanupProcess, None
<1>3. OneExit'
  BY RestartAssumption, SMTT(20) DEF ProcessInv, OneExit, HandleExited, Unlocked,
       OnEngineExited, CleanupProcess, None
<1>4. RestartAlone'
  BY RestartAssumption, SMTT(20) DEF ProcessInv, RestartAlone, ProcessTypeOK,
       OnlyHeldSubscribed, OneExit, EndedForGood, None, HandleExited, Unlocked,
       OnEngineExited, CleanupProcess
<1>5. EndedForGood'
  BY RestartAssumption, SMTT(20) DEF ProcessInv, EndedForGood, HandleExited, Unlocked,
       OnEngineExited, CleanupProcess, None
<1>6. ExitAlone'
  BY RestartAssumption, SMTT(20) DEF ProcessInv, ExitAlone, HandleExited, Unlocked,
       OnEngineExited, CleanupProcess, None
<1>7. WaitsForIt'
  BY RestartAssumption, SMTT(20) DEF ProcessInv, WaitsForIt, HandleExited, Unlocked,
       OnEngineExited, CleanupProcess, None
<1>8. KilledIt'
  BY RestartAssumption, SMTT(20) DEF ProcessInv, KilledIt, HandleExited, Unlocked,
       OnEngineExited, CleanupProcess, None
<1>9. FinalStop'
  BY RestartAssumption, SMTT(20) DEF ProcessInv, FinalStop, HandleExited, Unlocked,
       OnEngineExited, CleanupProcess, None
<1>10. EngineIsHeld'
  BY RestartAssumption, SMTT(20) DEF ProcessInv, EngineIsHeld, ExitAlone,
       OnlyHeldSubscribed, EndedForGood, KilledIt, None, HandleExited, Unlocked,
       OnEngineExited, CleanupProcess
<1>11. StopIsFinal'
  BY RestartAssumption, SMTT(20) DEF ProcessInv, StopIsFinal, EndedForGood, EngineIsHeld,
       ProcessTypeOK, FinalStop, HandleExited, Unlocked, OnEngineExited, CleanupProcess,
       None
<1> QED  BY <1>1, <1>2, <1>3, <1>4, <1>5, <1>6, <1>7, <1>8, <1>9, <1>10, <1>11 DEF ProcessInv

\* A stop begins.
LEMMA StopBeginStep ==
    ASSUME ProcessInv, StopBegin
    PROVE  ProcessInv'
<1>1. ProcessTypeOK'
  BY RestartAssumption, SMTT(20) DEF ProcessInv, ProcessTypeOK, StopBegin
<1>2. OnlyHeldSubscribed'
  BY RestartAssumption, SMTT(20) DEF ProcessInv, OnlyHeldSubscribed, StopBegin
<1>3. OneExit'
  BY RestartAssumption, SMTT(20) DEF ProcessInv, OneExit, StopBegin
<1>4. RestartAlone'
  BY RestartAssumption, SMTT(20) DEF ProcessInv, RestartAlone, StopBegin
<1>5. EndedForGood'
  BY RestartAssumption, SMTT(20) DEF ProcessInv, EndedForGood, StopBegin
<1>6. ExitAlone'
  BY RestartAssumption, SMTT(20) DEF ProcessInv, ExitAlone, StopBegin
<1>7. WaitsForIt'
  BY RestartAssumption, SMTT(20) DEF ProcessInv, WaitsForIt, StopBegin
<1>8. KilledIt'
  BY RestartAssumption, SMTT(20) DEF ProcessInv, KilledIt, StopBegin
<1>9. FinalStop'
  <2>1. ~notFinal' => ~(restarts > 0)
    BY Zenon DEF StopBegin
  <2>2. ~(restarts > 0) => restarts = 0
    BY RestartAssumption, SMTT(20) DEF ProcessInv, ProcessTypeOK
  <2> QED  BY <2>1, <2>2, Zenon DEF StopBegin, FinalStop
<1>10. EngineIsHeld'
  BY RestartAssumption, SMTT(20) DEF ProcessInv, EngineIsHeld, StopBegin
<1>11. StopIsFinal'
  BY RestartAssumption, SMTT(20) DEF ProcessInv, StopIsFinal, StopBegin
<1> QED  BY <1>1, <1>2, <1>3, <1>4, <1>5, <1>6, <1>7, <1>8, <1>9, <1>10, <1>11 DEF ProcessInv

\* It takes the lock.
LEMMA StopLockStep ==
    ASSUME ProcessInv, StopLock
    PROVE  ProcessInv'
<1>1. ProcessTypeOK'
  BY RestartAssumption, SMTT(20) DEF ProcessInv, ProcessTypeOK, RestartAlone, StopLock,
       IsEngineRunning, Unraised, OnEngineExited, CleanupProcess, None
<1>2. OnlyHeldSubscribed'
  BY RestartAssumption, SMTT(20) DEF ProcessInv, OnlyHeldSubscribed, StopLock,
       IsEngineRunning, Unraised, OnEngineExited, CleanupProcess, None
<1>3. OneExit'
  BY RestartAssumption, SMTT(20) DEF ProcessInv, OneExit, StopLock, IsEngineRunning,
       Unraised, OnEngineExited, CleanupProcess, None
<1>4. RestartAlone'
  BY RestartAssumption, SMTT(20) DEF ProcessInv, RestartAlone, ProcessTypeOK,
       OnlyHeldSubscribed, OneExit, EndedForGood, None, StopLock, IsEngineRunning, Unraised,
       OnEngineExited, CleanupProcess
<1>5. EndedForGood'
  BY RestartAssumption, SMTT(20) DEF ProcessInv, EndedForGood, StopLock, IsEngineRunning,
       Unraised, OnEngineExited, CleanupProcess, None
<1>6. ExitAlone'
  BY RestartAssumption, SMTT(20) DEF ProcessInv, ExitAlone, StopLock, IsEngineRunning,
       Unraised, OnEngineExited, CleanupProcess, None
<1>7. WaitsForIt'
  BY RestartAssumption, SMTT(20) DEF ProcessInv, WaitsForIt, ProcessTypeOK, StopLock,
       IsEngineRunning, Unraised, OnEngineExited, CleanupProcess, None
<1>8. KilledIt'
  BY RestartAssumption, SMTT(20) DEF ProcessInv, KilledIt, StopLock, IsEngineRunning,
       Unraised, OnEngineExited, CleanupProcess, None
<1>9. FinalStop'
  BY RestartAssumption, SMTT(20) DEF ProcessInv, FinalStop, StopLock, IsEngineRunning,
       Unraised, OnEngineExited, CleanupProcess, None
<1>10. EngineIsHeld'
  BY RestartAssumption, SMTT(20) DEF ProcessInv, EngineIsHeld, EndedForGood, ProcessTypeOK,
       FinalStop, StopLock, IsEngineRunning, Unraised, OnEngineExited, CleanupProcess, None
<1>11. StopIsFinal'
  BY RestartAssumption, SMTT(20) DEF ProcessInv, StopIsFinal, EndedForGood, EngineIsHeld,
       ProcessTypeOK, FinalStop, StopLock, IsEngineRunning, Unraised, OnEngineExited,
       CleanupProcess, None
<1> QED  BY <1>1, <1>2, <1>3, <1>4, <1>5, <1>6, <1>7, <1>8, <1>9, <1>10, <1>11 DEF ProcessInv

\* Its wait is over.
LEMMA StopWaitedStep ==
    ASSUME ProcessInv, StopWaited
    PROVE  ProcessInv'
<1>1. ProcessTypeOK'
  BY RestartAssumption, SMTT(20) DEF ProcessInv, ProcessTypeOK, OneExit, RestartAlone,
       WaitsForIt, None, StopWaited, IsEngineRunning, Unraised, OnEngineExited,
       CleanupProcess
<1>2. OnlyHeldSubscribed'
  BY RestartAssumption, SMTT(20) DEF ProcessInv, OnlyHeldSubscribed, StopWaited,
       IsEngineRunning, Unraised, OnEngineExited, CleanupProcess, None
<1>3. OneExit'
  BY RestartAssumption, SMTT(20) DEF ProcessInv, OneExit, StopWaited, IsEngineRunning,
       Unraised, OnEngineExited, CleanupProcess, None
<1>4. RestartAlone'
  BY RestartAssumption, SMTT(20) DEF ProcessInv, RestartAlone, ProcessTypeOK,
       OnlyHeldSubscribed, OneExit, EndedForGood, ExitAlone, WaitsForIt, KilledIt,
       FinalStop, EngineIsHeld, StopIsFinal, None, Unlocked, CleanupProcess, StopWaited,
       IsEngineRunning, Unraised, OnEngineExited
<1>5. EndedForGood'
  BY RestartAssumption, SMTT(20) DEF ProcessInv, EndedForGood, StopWaited, IsEngineRunning,
       Unraised, OnEngineExited, CleanupProcess, None
<1>6. ExitAlone'
  BY RestartAssumption, SMTT(20) DEF ProcessInv, ExitAlone, StopWaited, IsEngineRunning,
       Unraised, OnEngineExited, CleanupProcess, None
<1>7. WaitsForIt'
  BY RestartAssumption, SMTT(20) DEF ProcessInv, WaitsForIt, StopWaited, IsEngineRunning,
       Unraised, OnEngineExited, CleanupProcess, None
<1>8. KilledIt'
  BY RestartAssumption, SMTT(20) DEF ProcessInv, KilledIt, StopWaited, IsEngineRunning,
       Unraised, OnEngineExited, CleanupProcess, None
<1>9. FinalStop'
  BY RestartAssumption, SMTT(20) DEF ProcessInv, FinalStop, StopWaited, IsEngineRunning,
       Unraised, OnEngineExited, CleanupProcess, None
<1>10. EngineIsHeld'
  BY RestartAssumption, SMTT(20) DEF ProcessInv, EngineIsHeld, StopWaited, IsEngineRunning,
       Unraised, OnEngineExited, CleanupProcess, None
<1>11. StopIsFinal'
  BY RestartAssumption, SMTT(20) DEF ProcessInv, StopIsFinal, EndedForGood, EngineIsHeld,
       ProcessTypeOK, FinalStop, StopWaited, IsEngineRunning, Unraised, OnEngineExited,
       CleanupProcess, None
<1> QED  BY <1>1, <1>2, <1>3, <1>4, <1>5, <1>6, <1>7, <1>8, <1>9, <1>10, <1>11 DEF ProcessInv

\* It kills the process.
LEMMA StopKillStep ==
    ASSUME ProcessInv, StopKill
    PROVE  ProcessInv'
<1>1. ProcessTypeOK'
  BY RestartAssumption, SMTT(20) DEF ProcessInv, ProcessTypeOK, StopKill, IsEngineRunning
<1>2. OnlyHeldSubscribed'
  BY RestartAssumption, SMTT(20) DEF ProcessInv, OnlyHeldSubscribed, StopKill,
       IsEngineRunning
<1>3. OneExit'
  BY RestartAssumption, SMTT(20) DEF ProcessInv, OneExit, StopKill, IsEngineRunning
<1>4. RestartAlone'
  BY RestartAssumption, SMTT(20) DEF ProcessInv, RestartAlone, StopKill, IsEngineRunning
<1>5. EndedForGood'
  BY RestartAssumption, SMTT(20) DEF ProcessInv, EndedForGood, StopKill, IsEngineRunning
<1>6. ExitAlone'
  BY RestartAssumption, SMTT(20) DEF ProcessInv, ExitAlone, StopKill, IsEngineRunning
<1>7. WaitsForIt'
  BY RestartAssumption, SMTT(20) DEF ProcessInv, WaitsForIt, StopKill, IsEngineRunning
<1>8. KilledIt'
  BY RestartAssumption, SMTT(20) DEF ProcessInv, KilledIt, EndedForGood, EngineIsHeld,
       ProcessTypeOK, FinalStop, StopKill, IsEngineRunning
<1>9. FinalStop'
  BY RestartAssumption, SMTT(20) DEF ProcessInv, FinalStop, StopKill, IsEngineRunning
<1>10. EngineIsHeld'
  BY RestartAssumption, SMTT(20) DEF ProcessInv, EngineIsHeld, StopKill, IsEngineRunning
<1>11. StopIsFinal'
  BY RestartAssumption, SMTT(20) DEF ProcessInv, StopIsFinal, StopKill, IsEngineRunning
<1> QED  BY <1>1, <1>2, <1>3, <1>4, <1>5, <1>6, <1>7, <1>8, <1>9, <1>10, <1>11 DEF ProcessInv

\* It returns after that.
LEMMA StopKilledStep ==
    ASSUME ProcessInv, StopKilled
    PROVE  ProcessInv'
<1>1. ProcessTypeOK'
  BY RestartAssumption, SMTT(20) DEF ProcessInv, ProcessTypeOK, StopKilled, CleanupProcess,
       None
<1>2. OnlyHeldSubscribed'
  BY RestartAssumption, SMTT(20) DEF ProcessInv, OnlyHeldSubscribed, StopKilled,
       CleanupProcess, None
<1>3. OneExit'
  BY RestartAssumption, SMTT(20) DEF ProcessInv, OneExit, StopKilled, CleanupProcess, None
<1>4. RestartAlone'
  BY RestartAssumption, SMTT(20) DEF ProcessInv, RestartAlone, StopKilled, CleanupProcess,
       None
<1>5. EndedForGood'
  BY RestartAssumption, SMTT(20) DEF ProcessInv, EndedForGood, StopKilled, CleanupProcess,
       None
<1>6. ExitAlone'
  BY RestartAssumption, SMTT(20) DEF ProcessInv, ExitAlone, StopKilled, CleanupProcess, None
<1>7. WaitsForIt'
  BY RestartAssumption, SMTT(20) DEF ProcessInv, WaitsForIt, StopKilled, CleanupProcess,
       None
<1>8. KilledIt'
  BY RestartAssumption, SMTT(20) DEF ProcessInv, KilledIt, StopKilled, CleanupProcess, None
<1>9. FinalStop'
  BY RestartAssumption, SMTT(20) DEF ProcessInv, FinalStop, StopKilled, CleanupProcess, None
<1>10. EngineIsHeld'
  BY RestartAssumption, SMTT(20) DEF ProcessInv, EngineIsHeld, ExitAlone,
       OnlyHeldSubscribed, EndedForGood, KilledIt, None, StopKilled, CleanupProcess
<1>11. StopIsFinal'
  BY RestartAssumption, SMTT(20) DEF ProcessInv, StopIsFinal, ProcessTypeOK,
       OnlyHeldSubscribed, OneExit, RestartAlone, EndedForGood, ExitAlone, WaitsForIt,
       KilledIt, FinalStop, EngineIsHeld, None, Unlocked, CleanupProcess, StopKilled
<1> QED  BY <1>1, <1>2, <1>3, <1>4, <1>5, <1>6, <1>7, <1>8, <1>9, <1>10, <1>11 DEF ProcessInv

\* The manager is disposed of.
LEMMA DisposeStep ==
    ASSUME ProcessInv, Dispose
    PROVE  ProcessInv'
<1>1. ProcessTypeOK'
  BY RestartAssumption, SMTT(20) DEF ProcessInv, ProcessTypeOK, Dispose, Unlocked,
       CleanupProcess, None
<1>2. OnlyHeldSubscribed'
  BY RestartAssumption, SMTT(20) DEF ProcessInv, OnlyHeldSubscribed, Dispose, Unlocked,
       CleanupProcess, None
<1>3. OneExit'
  BY RestartAssumption, SMTT(20) DEF ProcessInv, OneExit, Dispose, Unlocked, CleanupProcess,
       None
<1>4. RestartAlone'
  BY RestartAssumption, SMTT(20) DEF ProcessInv, RestartAlone, Dispose, Unlocked,
       CleanupProcess, None
<1>5. EndedForGood'
  BY RestartAssumption, SMTT(20) DEF ProcessInv, EndedForGood, Dispose, Unlocked,
       CleanupProcess, None
<1>6. ExitAlone'
  BY RestartAssumption, SMTT(20) DEF ProcessInv, ExitAlone, Dispose, Unlocked,
       CleanupProcess, None
<1>7. WaitsForIt'
  BY RestartAssumption, SMTT(20) DEF ProcessInv, WaitsForIt, Dispose, Unlocked,
       CleanupProcess, None
<1>8. KilledIt'
  BY RestartAssumption, SMTT(20) DEF ProcessInv, KilledIt, Dispose, Unlocked,
       CleanupProcess, None
<1>9. FinalStop'
  BY RestartAssumption, SMTT(20) DEF ProcessInv, FinalStop, ProcessTypeOK, Dispose,
       Unlocked, CleanupProcess, None
<1>10. EngineIsHeld'
  BY RestartAssumption, SMTT(20) DEF ProcessInv, EngineIsHeld, Dispose, Unlocked,
       CleanupProcess, None
<1>11. StopIsFinal'
  BY RestartAssumption, SMTT(20) DEF ProcessInv, StopIsFinal, ProcessTypeOK, Dispose,
       Unlocked, CleanupProcess, None
<1> QED  BY <1>1, <1>2, <1>3, <1>4, <1>5, <1>6, <1>7, <1>8, <1>9, <1>10, <1>11 DEF ProcessInv

-----------------------------------------------------------------------------
LEMMA InitInv == InitProcess => ProcessInv
<1> SUFFICES ASSUME InitProcess PROVE ProcessInv
  OBVIOUS
<1>1. ProcessTypeOK
  <2>1. alive \subseteq {1} /\ engineProcess \in {0, 1} /\ subscribed \subseteq {1} /\ unstarted \subseteq {1}
    BY SMTT(20) DEF InitProcess, None
  <2>2. {alive, unstarted, raised, subscribed, exiting} \subseteq SUBSET (1..started)
    BY <2>1, SMTT(20) DEF InitProcess
  <2>3. started \in Nat /\ started >= 1 /\ engineProcess \in 0..started
    BY <2>1, SMTT(20) DEF InitProcess
  <2>4. {restarts, restartCount} \subseteq 0..MaxAutoRestarts
    BY RestartAssumption, SMTT(20) DEF InitProcess
  <2>5. {intentionalShutdown, disposed, notFinal} \subseteq BOOLEAN
    BY Zenon DEF InitProcess
  <2> QED  BY <2>2, <2>3, <2>4, <2>5 DEF InitProcess, ProcessTypeOK
<1>2. OnlyHeldSubscribed /\ OneExit /\ RestartAlone
  BY SMTT(20) DEF InitProcess, OnlyHeldSubscribed, OneExit, RestartAlone, None
<1>3. EndedForGood /\ ExitAlone
  BY SMTT(20) DEF InitProcess, EndedForGood, ExitAlone, None
<1>4. WaitsForIt /\ KilledIt /\ FinalStop /\ StopIsFinal
  BY DEF InitProcess, WaitsForIt, KilledIt, FinalStop, StopIsFinal
<1>5. EngineIsHeld
  BY DEF InitProcess, EngineIsHeld
<1> QED  BY <1>1, <1>2, <1>3, <1>4, <1>5 DEF ProcessInv

\* Every step keeps the invariant.
LEMMA ProcessStepInv == ProcessInv /\ [ProcessNext]_processVars => ProcessInv'
<1> SUFFICES ASSUME ProcessInv, [ProcessNext]_processVars PROVE ProcessInv'
  OBVIOUS
<1>1. CASE UNCHANGED processVars
  BY <1>1 DEF ProcessInv, ProcessTypeOK, OnlyHeldSubscribed, OneExit, RestartAlone, EndedForGood,
              ExitAlone, WaitsForIt, KilledIt, FinalStop, EngineIsHeld, StopIsFinal, processVars
<1>2. ASSUME NEW p \in alive, ProcessExits(p) PROVE ProcessInv'
  BY <1>2, ProcessExitsStep
<1>3. ASSUME NEW p, RaiseExited(p) PROVE ProcessInv'
  BY <1>3, RaiseExitedStep
<1>4. ASSUME NEW p, HandleExited(p) PROVE ProcessInv'
  BY <1>4, HandleExitedStep
<1>5. ASSUME Restart PROVE ProcessInv'
  BY <1>5, RestartStep
<1>6. ASSUME StopBegin \/ StopLock \/ StopWaited \/ StopKill \/ StopKilled PROVE ProcessInv'
  BY <1>6, StopBeginStep, StopLockStep, StopWaitedStep, StopKillStep, StopKilledStep
<1>7. CASE Dispose
  BY <1>7, DisposeStep
<1> QED  BY <1>1, <1>2, <1>3, <1>4, <1>5, <1>6, <1>7 DEF ProcessNext, ManagerStep

\* The invariant of the manager, for every limit of restarts.
THEOREM ProcessInvariant == ProcessSpec => []ProcessInv
<1>1. InitProcess => ProcessInv
  BY InitInv
<1>2. ProcessInv /\ [ProcessNext]_processVars => ProcessInv'
  BY ProcessStepInv
<1> QED  BY <1>1, <1>2, PTL DEF ProcessSpec

\* The manager never loses hold of an engine process before Dispose.
THEOREM ProcessIsHeld == ProcessSpec => []EngineIsHeld
<1>1. ProcessInv => EngineIsHeld
  BY DEF ProcessInv
<1> QED  BY <1>1, ProcessInvariant, PTL

\* After a stop nothing runs and nothing will be started.
THEOREM ProcessStopIsFinal == ProcessSpec => []StopIsFinal
<1>1. ProcessInv => StopIsFinal
  BY DEF ProcessInv
<1> QED  BY <1>1, ProcessInvariant, PTL
=============================================================================
