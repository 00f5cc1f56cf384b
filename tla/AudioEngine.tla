----------------------------- MODULE AudioEngine -----------------------------
(***************************************************************************)
(* AudioEngine (audio_engine.h, audio_engine.cpp) with the two callers of  *)
(* main.cpp: the threads that work on one engine and what they share.      *)
(*                                                                         *)
(*   "ctl"  the pipe thread, one IPC command at a time, and after it main: *)
(*          AddRenderDevice, RemoveRenderDevice, Start, Stop               *)
(*   "ntf"  the thread Windows calls OnDefaultDeviceChanged on: the        *)
(*          callback of main.cpp                                           *)
(*   "cap"  the capture thread, CaptureThreadProc                          *)
(*   one render thread for each RenderTarget                               *)
(*                                                                         *)
(* A step is what a thread does between two accesses to shared state that  *)
(* others can observe: an atomic load or store, a critical section of      *)
(* capture_id_mutex_ or targets_mutex_, a COM call, a join.  Only Stop     *)
(* holds a mutex (targets_mutex_) across a blocking call.                  *)
(***************************************************************************)
EXTENDS DeviceManager

CONSTANTS Format,      \* sample rate and sample type of an audio stream
          NoFormat,    \* capture_sample_rate_ = 0: none published
          MixFormat,   \* the mix format of each device
          MaxTargets,  \* bound on RenderTarget objects alive at a time
          Commands     \* the IPC commands in use

ASSUME EngineAssumption ==
    /\ NoFormat \notin Format
    /\ MixFormat \in [Device -> Format]
    /\ MaxTargets \in Nat
    /\ Commands \subseteq {"add", "remove", "start", "stop"}

Thread == {"ctl", "ntf", "cap"}
Obj    == 1 .. MaxTargets
NoObj  == 0

VARIABLES
  captureRunning,   \* capture_running_
  restartCapture,   \* restart_capture_
  joinable,         \* capture_thread_.joinable()
  captureDeviceId,  \* capture_device_id_
  captureFormat,    \* capture_sample_rate_ and the two fields that go with it
  pendingReinit,    \* pending_reinit_ids_
  targets,          \* targets_: the objects it owns
  pendingIds,       \* pending_ids_
  device,           \* RenderTarget::device_id, NoDevice when the object is free
  format,           \* the format its audio_client was initialised with
  running,          \* RenderTarget::running
  alive             \* whether its render thread has not yet returned

VARIABLES
  pc,               \* where each thread is
  command,          \* the IPC command under way
  arg,              \* the device_id argument of Add- and RemoveRenderDevice
  cur,              \* the RenderTarget a call has in its hands
  chosen,           \* AddRenderDevice: the format for Initialize
  newDefault,       \* CheckAndRemoveDefaultDevice: new_default
  oldCapture,       \* CheckAndRemoveDefaultDevice: old_capture
  session,          \* the device the capture thread has opened
  ids,              \* CaptureThreadProc: reinit, later ids
  todo,             \* what its loop over ids has left
  toJoin            \* what the loop of Stop over targets_ has left

captureVars == <<captureRunning, restartCapture, joinable, captureDeviceId,
                 captureFormat, pendingReinit>>
heapVars    == <<device, format, running, alive>>
targetVars  == <<targets, pendingIds, heapVars>>
checkVars   == <<newDefault, oldCapture>>
capVars     == <<session, ids, todo>>
localVars   == <<command, arg, cur, chosen, checkVars, capVars, toJoin>>
vars        == <<deviceVars, captureVars, targetVars, pc, localVars>>

-----------------------------------------------------------------------------
Init == /\ DeviceInit
        /\ captureRunning = FALSE /\ restartCapture = FALSE /\ joinable = FALSE
        /\ captureDeviceId = NoDevice /\ captureFormat = NoFormat
        /\ pendingReinit = {} /\ targets = {} /\ pendingIds = {}
        /\ device  = [o \in Obj |-> NoDevice]
        /\ format  = [o \in Obj |-> NoFormat]
        /\ running = [o \in Obj |-> FALSE]
        /\ alive   = [o \in Obj |-> FALSE]
        /\ pc = [t \in Thread |-> IF t = "cap" THEN "off" ELSE "idle"]
        /\ command = "none"
        /\ arg = [t \in Thread |-> NoDevice]
        /\ cur = [t \in Thread |-> NoObj]
        /\ chosen = [t \in Thread |-> NoFormat]
        /\ newDefault = [t \in Thread |-> NoDevice]
        /\ oldCapture = [t \in Thread |-> NoDevice]
        /\ session = NoDevice /\ ids = {} /\ todo = {} /\ toJoin = {}

Goto(t, label) == pc' = [pc EXCEPT ![t] = label]

At(t, label) == pc[t] = label

\* targets_mutex_ is free: Stop holds it while it joins the render threads.
Unlocked == pc["ctl"] \notin {"stopTargets", "stopWait"}

Bridged(d) == \E o \in targets : device[o] = d

\* Where a thread goes on after a call, which depends on who made the call.
AfterAdd(t, ok) ==
    IF t = "cap" THEN "capReinit"
    ELSE IF t = "ctl" /\ command = "add" THEN IF ok THEN "wantAdd" ELSE "reply"
    ELSE IF ok THEN "wantOld" ELSE "track"

AfterRemove(t) == IF t = "cap" THEN "capTeardown"
                  ELSE IF t = "ctl" /\ command = "remove" THEN "wantRemove"
                  ELSE "unwantNew"

AfterCheck(t) == IF t = "ntf" THEN "cbRunning" ELSE "startRun"

-----------------------------------------------------------------------------
(* AddRenderDevice(arg[t]) *)

\* While the bridge runs the default device is rejected.
AddCheck(t) == /\ At(t, "addCheck")
               /\ Goto(t, IF captureRunning THEN "addDefault" ELSE "addReserve")
               /\ UNCHANGED <<deviceVars, captureVars, targetVars, localVars>>

\* Bug: nobody rejects the default device.
AddDefaultAccepts(t) ==
    /\ At(t, "addDefault")
    /\ Goto(t, "addReserve")
    /\ UNCHANGED <<deviceVars, captureVars, targetVars, localVars>>

AddDefault(t) ==
    /\ At(t, "addDefault")
    /\ \E id \in GetDefaultOutputDeviceId :
          Goto(t, IF arg[t] = id THEN AfterAdd(t, FALSE) ELSE "addReserve")
    /\ UNCHANGED <<deviceVars, captureVars, targetVars, localVars>>

\* Bug: only finished targets count as duplicates.
AddReserveUnchecked(t) ==
    /\ At(t, "addReserve")
    /\ Unlocked
    /\ IF Bridged(arg[t])
         THEN Goto(t, AfterAdd(t, TRUE)) /\ UNCHANGED pendingIds
         ELSE Goto(t, "addOpen") /\ pendingIds' = pendingIds \cup {arg[t]}
    /\ UNCHANGED <<deviceVars, captureVars, targets, heapVars, localVars>>

\* A device that is a target, or is being made one, counts as added.
AddReserve(t) ==
    /\ At(t, "addReserve")
    /\ Unlocked
    /\ IF Bridged(arg[t]) \/ arg[t] \in pendingIds
         THEN Goto(t, AfterAdd(t, TRUE)) /\ UNCHANGED pendingIds
         ELSE Goto(t, "addOpen") /\ pendingIds' = pendingIds \cup {arg[t]}
    /\ UNCHANGED <<deviceVars, captureVars, targets, heapVars, localVars>>

\* OpenDeviceById, Activate, GetMixFormat, and the override of the format.
AddOpen(t) ==
    /\ At(t, "addOpen")
    /\ arg[t] \in present
    /\ chosen' = [chosen EXCEPT ![t] = IF captureFormat # NoFormat
                                         THEN captureFormat
                                         ELSE MixFormat[arg[t]]]
    /\ Goto(t, "addSpawn")
    /\ UNCHANGED <<deviceVars, captureVars, targetVars, command, arg, cur,
                   checkVars, capVars, toJoin>>

\* Any of the calls up to IAudioClient::Start may fail.
AddAbort(t) == /\ pc[t] \in {"addOpen", "addSpawn"}
               /\ Failures \/ arg[t] \notin present
               /\ chosen' = [chosen EXCEPT ![t] = NoFormat]
               /\ Goto(t, "addFail")
               /\ UNCHANGED <<deviceVars, captureVars, targetVars, command, arg,
                              cur, checkVars, capVars, toJoin>>

\* Bug: the new target is moved away before it is pushed.
AddSpawnForgets(t) ==
    /\ At(t, "addSpawn")
    /\ \E o \in Obj :
         /\ device[o] = NoDevice
         /\ device'  = [device  EXCEPT ![o] = arg[t]]
         /\ format'  = [format  EXCEPT ![o] = chosen[t]]
         /\ running' = [running EXCEPT ![o] = TRUE]
         /\ alive'   = [alive   EXCEPT ![o] = TRUE]
    /\ chosen' = [chosen EXCEPT ![t] = NoFormat]
    /\ Goto(t, "addPush")
    /\ UNCHANGED <<deviceVars, captureVars, targets, pendingIds, command, arg, cur,
                   checkVars, capVars, toJoin>>

\* Initialize, Start, running = true, and the render thread is started.
AddSpawn(t) ==
    /\ At(t, "addSpawn")
    /\ \E o \in Obj :
         /\ device[o] = NoDevice
         /\ \A p \in 1 .. o - 1 : device[p] # NoDevice
         /\ device'  = [device  EXCEPT ![o] = arg[t]]
         /\ format'  = [format  EXCEPT ![o] = chosen[t]]
         /\ running' = [running EXCEPT ![o] = TRUE]
         /\ alive'   = [alive   EXCEPT ![o] = TRUE]
         /\ cur'     = [cur     EXCEPT ![t] = o]
    /\ chosen' = [chosen EXCEPT ![t] = NoFormat]
    /\ Goto(t, "addPush")
    /\ UNCHANGED <<deviceVars, captureVars, targets, pendingIds, command, arg,
                   checkVars, capVars, toJoin>>

AddPush(t) == /\ At(t, "addPush")
              /\ Unlocked
              /\ targets' = targets \cup {cur[t]}
              /\ cur' = [cur EXCEPT ![t] = NoObj]
              /\ Goto(t, "addDone")
              /\ UNCHANGED <<deviceVars, captureVars, pendingIds, heapVars,
                             command, arg, chosen, checkVars, capVars, toJoin>>

\* Bug: the early returns leave the id in pending_ids_.
AddReturnLeaks(t) ==
    /\ pc[t] \in {"addDone", "addFail"}
    /\ Unlocked
    /\ pendingIds' = IF At(t, "addDone") THEN pendingIds \ {arg[t]} ELSE pendingIds
    /\ Goto(t, AfterAdd(t, pc[t] = "addDone"))
    /\ UNCHANGED <<deviceVars, captureVars, targets, heapVars, localVars>>

\* ~PendingGuard on the successful and on the failing exits.
AddReturn(t) ==
    /\ pc[t] \in {"addDone", "addFail"}
    /\ Unlocked
    /\ pendingIds' = pendingIds \ {arg[t]}
    /\ Goto(t, AfterAdd(t, pc[t] = "addDone"))
    /\ UNCHANGED <<deviceVars, captureVars, targets, heapVars, localVars>>

-----------------------------------------------------------------------------
(* RemoveRenderDevice(arg[t]) *)

\* The target leaves targets_ under the lock; nothing but its own render
\* thread reads its running flag after that, which is cleared next.
RemoveErase(t) ==
    /\ At(t, "rmErase")
    /\ Unlocked
    /\ \/ /\ ~Bridged(arg[t])
          /\ Goto(t, AfterRemove(t))
          /\ UNCHANGED <<targets, running, cur>>
       \/ \E o \in targets :
             /\ device[o] = arg[t]
             /\ targets' = targets \ {o}
             /\ running' = [running EXCEPT ![o] = FALSE]
             /\ cur' = [cur EXCEPT ![t] = o]
             /\ Goto(t, "rmJoin")
    /\ UNCHANGED <<deviceVars, captureVars, pendingIds, device, format, alive,
                   command, arg, chosen, checkVars, capVars, toJoin>>

\* Bug: the object is destroyed with its thread still running.
RemoveDetach(t) ==
    /\ At(t, "rmJoin")
    /\ device' = [device EXCEPT ![cur[t]] = NoDevice]
    /\ format' = [format EXCEPT ![cur[t]] = NoFormat]
    /\ cur' = [cur EXCEPT ![t] = NoObj]
    /\ Goto(t, AfterRemove(t))
    /\ UNCHANGED <<deviceVars, captureVars, targets, pendingIds, running, alive,
                   command, arg, chosen, checkVars, capVars, toJoin>>

\* The object is destroyed once its render thread has returned.
RemoveJoin(t) ==
    /\ At(t, "rmJoin")
    /\ ~alive[cur[t]]
    /\ device' = [device EXCEPT ![cur[t]] = NoDevice]
    /\ format' = [format EXCEPT ![cur[t]] = NoFormat]
    /\ cur' = [cur EXCEPT ![t] = NoObj]
    /\ Goto(t, AfterRemove(t))
    /\ UNCHANGED <<deviceVars, captureVars, targets, pendingIds, running, alive,
                   command, arg, chosen, checkVars, capVars, toJoin>>

-----------------------------------------------------------------------------
(* CheckAndRemoveDefaultDevice *)

CheckDefault(t) ==
    /\ At(t, "ckDefault")
    /\ \E id \in GetDefaultOutputDeviceId :
          /\ newDefault' = [newDefault EXCEPT ![t] = id]
          /\ Goto(t, IF id = NoDevice THEN AfterCheck(t) ELSE "ckOld")
    /\ UNCHANGED <<deviceVars, captureVars, targetVars, command, arg, cur, chosen,
                   oldCapture, capVars, toJoin>>

CheckOld(t) ==
    /\ At(t, "ckOld")
    /\ oldCapture' = [oldCapture EXCEPT ![t] = captureDeviceId]
    /\ Goto(t, "ckTarget")
    /\ UNCHANGED <<deviceVars, captureVars, targetVars, command, arg, cur, chosen,
                   newDefault, capVars, toJoin>>

\* is_target, read under the lock and acted on after it.
CheckTarget(t) ==
    /\ At(t, "ckTarget")
    /\ Unlocked
    /\ IF Bridged(newDefault[t])
         THEN /\ arg' = [arg EXCEPT ![t] = newDefault[t]]
              /\ Goto(t, "rmErase")
         ELSE UNCHANGED arg /\ Goto(t, "ckBridge")
    /\ UNCHANGED <<deviceVars, captureVars, targetVars, command, cur, chosen,
                   checkVars, capVars, toJoin>>

CheckUnwant(t) ==
    /\ At(t, "unwantNew")
    /\ RemoveWantedDevice(newDefault[t])
    /\ Goto(t, "ckBridge")
    /\ UNCHANGED <<captureVars, targetVars, localVars>>

\* Auto-bridge the old capture device, while running and really changed.
CheckBridge(t) ==
    /\ At(t, "ckBridge")
    /\ IF captureRunning /\ oldCapture[t] \notin {NoDevice, newDefault[t]}
         THEN arg' = [arg EXCEPT ![t] = oldCapture[t]] /\ Goto(t, "addCheck")
         ELSE UNCHANGED arg /\ Goto(t, "track")
    /\ UNCHANGED <<deviceVars, captureVars, targetVars, command, cur, chosen,
                   checkVars, capVars, toJoin>>

CheckWant(t) ==
    /\ At(t, "wantOld")
    /\ AddWantedDevice(oldCapture[t])
    /\ Goto(t, "track")
    /\ UNCHANGED <<captureVars, targetVars, localVars>>

CheckTrack(t) ==
    /\ At(t, "track")
    /\ captureDeviceId' = newDefault[t]
    /\ Goto(t, AfterCheck(t))
    /\ UNCHANGED <<deviceVars, captureRunning, restartCapture, joinable,
                   captureFormat, pendingReinit, targetVars, localVars>>

-----------------------------------------------------------------------------
(* The callback of main.cpp on a default-device notice *)

ClearCall(t) == /\ arg' = [arg EXCEPT ![t] = NoDevice]
                /\ newDefault' = [newDefault EXCEPT ![t] = NoDevice]
                /\ oldCapture' = [oldCapture EXCEPT ![t] = NoDevice]

NoticeBegin == /\ At("ntf", "idle")
               /\ Deliver
               /\ Goto("ntf", "ckDefault")
               /\ UNCHANGED <<captureVars, targetVars, localVars>>

NoticeRunning == /\ At("ntf", "cbRunning")
                 /\ ClearCall("ntf")
                 /\ Goto("ntf", IF captureRunning THEN "cbRestart" ELSE "idle")
                 /\ UNCHANGED <<deviceVars, captureVars, targetVars, command, cur,
                                chosen, capVars, toJoin>>

\* RequestCaptureRestart
NoticeRestart ==
    /\ At("ntf", "cbRestart")
    /\ restartCapture' = TRUE
    /\ Goto("ntf", "idle")
    /\ UNCHANGED <<deviceVars, captureRunning, joinable, captureDeviceId,
                   captureFormat, pendingReinit, targetVars, localVars>>

-----------------------------------------------------------------------------
(* The pipe thread: one command at a time (ProcessCommand) *)

Command(name, id, label) ==
    /\ At("ctl", "idle")
    /\ name \in Commands
    /\ command' = name
    /\ arg' = [arg EXCEPT !["ctl"] = id]
    /\ Goto("ctl", label)
    /\ UNCHANGED <<deviceVars, captureVars, targetVars, cur, chosen, checkVars,
                   capVars, toJoin>>

AddCommand(d)    == Command("add", d, "addCheck")
RemoveCommand(d) == Command("remove", d, "rmErase")
StopCommand      == Command("stop", NoDevice, "stopFlags")

\* A start while the bridge runs is answered at once.
StartCommand == Command("start", NoDevice,
                        IF captureRunning THEN "reply" ELSE "startJoin")

WantAdded == /\ At("ctl", "wantAdd")
             /\ AddWantedDevice(arg["ctl"])
             /\ Goto("ctl", "reply")
             /\ UNCHANGED <<captureVars, targetVars, localVars>>

UnwantRemoved == /\ At("ctl", "wantRemove")
                 /\ RemoveWantedDevice(arg["ctl"])
                 /\ Goto("ctl", "reply")
                 /\ UNCHANGED <<captureVars, targetVars, localVars>>

Reply == /\ At("ctl", "reply")
         /\ command' = "none"
         /\ ClearCall("ctl")
         /\ Goto("ctl", "idle")
         /\ UNCHANGED <<deviceVars, captureVars, targetVars, cur, chosen, capVars,
                        toJoin>>

(* Start *)
\* Bug: a capture thread that has already returned is not joined.
StartJoinSkipped == /\ At("ctl", "startJoin")
                    /\ Goto("ctl", "startRecord")
                    /\ UNCHANGED <<deviceVars, captureVars, targetVars, localVars>>

StartJoin == /\ At("ctl", "startJoin")
             /\ joinable => At("cap", "off")
             /\ joinable' = FALSE
             /\ Goto("ctl", "startRecord")
             /\ UNCHANGED <<deviceVars, captureRunning, restartCapture,
                            captureDeviceId, captureFormat, pendingReinit,
                            targetVars, localVars>>

StartRecord == /\ At("ctl", "startRecord")
               /\ captureDeviceId' \in GetDefaultOutputDeviceId
               /\ Goto("ctl", "ckDefault")
               /\ UNCHANGED <<deviceVars, captureRunning, restartCapture, joinable,
                              captureFormat, pendingReinit, targetVars, localVars>>

StartRun == /\ At("ctl", "startRun")
            /\ captureRunning' = TRUE
            /\ joinable' = TRUE
            /\ pc' = [pc EXCEPT !["ctl"] = "reply", !["cap"] = "capInit"]
            /\ UNCHANGED <<deviceVars, restartCapture, captureDeviceId,
                           captureFormat, pendingReinit, targetVars, localVars>>

(* Stop *)
\* Bug: Stop joins the capture thread without telling it to end.
StopFlagsMissing == /\ At("ctl", "stopFlags")
                    /\ Goto("ctl", "stopRestart")
                    /\ UNCHANGED <<deviceVars, captureVars, targetVars, localVars>>

StopFlags == /\ At("ctl", "stopFlags")
             /\ captureRunning' = FALSE
             /\ Goto("ctl", "stopRestart")
             /\ UNCHANGED <<deviceVars, restartCapture, joinable, captureDeviceId,
                            captureFormat, pendingReinit, targetVars, localVars>>

StopRestart == /\ At("ctl", "stopRestart")
               /\ restartCapture' = FALSE
               /\ Goto("ctl", "stopJoin")
               /\ UNCHANGED <<deviceVars, captureRunning, joinable, captureDeviceId,
                              captureFormat, pendingReinit, targetVars, localVars>>

StopJoin == /\ At("ctl", "stopJoin")
            /\ joinable => At("cap", "off")
            /\ joinable' = FALSE
            /\ Goto("ctl", "stopReset")
            /\ UNCHANGED <<deviceVars, captureRunning, restartCapture,
                           captureDeviceId, captureFormat, pendingReinit,
                           targetVars, localVars>>

StopReset == /\ At("ctl", "stopReset")
             /\ captureDeviceId' = NoDevice
             /\ captureFormat' = NoFormat
             /\ pendingReinit' = {}
             /\ Goto("ctl", "stopLock")
             /\ UNCHANGED <<deviceVars, captureRunning, restartCapture, joinable,
                            targetVars, localVars>>

StopLock == /\ At("ctl", "stopLock")
            /\ toJoin' = targets
            /\ Goto("ctl", "stopTargets")
            /\ UNCHANGED <<deviceVars, captureVars, targetVars, command, arg, cur,
                           chosen, checkVars, capVars>>

StopTarget == /\ At("ctl", "stopTargets")
              /\ \E o \in toJoin : /\ running' = [running EXCEPT ![o] = FALSE]
                                   /\ cur' = [cur EXCEPT !["ctl"] = o]
              /\ Goto("ctl", "stopWait")
              /\ UNCHANGED <<deviceVars, captureVars, targets, pendingIds, device,
                             format, alive, command, arg, chosen, checkVars,
                             capVars, toJoin>>

StopWait == /\ At("ctl", "stopWait")
            /\ ~alive[cur["ctl"]]
            /\ toJoin' = toJoin \ {cur["ctl"]}
            /\ cur' = [cur EXCEPT !["ctl"] = NoObj]
            /\ Goto("ctl", "stopTargets")
            /\ UNCHANGED <<deviceVars, captureVars, targetVars, command, arg, chosen,
                           checkVars, capVars>>

\* targets_.clear() destroys the objects and the mutex is released.
StopClear ==
    /\ At("ctl", "stopTargets")
    /\ toJoin = {}
    /\ targets' = {}
    /\ device' = [o \in Obj |-> IF o \in targets THEN NoDevice ELSE device[o]]
    /\ format' = [o \in Obj |-> IF o \in targets THEN NoFormat ELSE format[o]]
    /\ Goto("ctl", "reply")
    /\ UNCHANGED <<deviceVars, captureVars, pendingIds, running, alive, localVars>>


-----------------------------------------------------------------------------
(* CaptureThreadProc *)

\* CoInitializeEx; its failure ends the thread before the outer loop.
CapInit == /\ At("cap", "capInit")
           /\ \/ Goto("cap", "capTop") /\ UNCHANGED captureRunning
              \/ Failures /\ Goto("cap", "off") /\ captureRunning' = FALSE
           /\ UNCHANGED <<deviceVars, restartCapture, joinable, captureDeviceId,
                          captureFormat, pendingReinit, targetVars, localVars>>

\* The outer loop: a restart requested before this line is served by it.
CapTop == /\ At("cap", "capTop")
          /\ IF captureRunning
               THEN restartCapture' = FALSE /\ Goto("cap", "capOpen")
               ELSE UNCHANGED restartCapture /\ Goto("cap", "capEnd")
          /\ UNCHANGED <<deviceVars, captureRunning, joinable, captureDeviceId,
                         captureFormat, pendingReinit, targetVars, localVars>>

\* GetDefaultAudioEndpoint, Activate, GetMixFormat.
CapOpen == /\ At("cap", "capOpen")
           /\ \/ /\ default # NoDevice
                 /\ session' = default
                 /\ Goto("cap", "capPublish")
              \/ /\ default = NoDevice \/ Failures
                 /\ UNCHANGED session
                 /\ Goto("cap", "capEnd")
           /\ UNCHANGED <<deviceVars, captureVars, targetVars, command, arg, cur,
                          chosen, checkVars, ids, todo, toJoin>>

\* Bug: pending_reinit_ids_ is copied and not swapped.
CapPublishCopies ==
    /\ At("cap", "capPublish")
    /\ captureFormat' = MixFormat[session]
    /\ todo' = pendingReinit
    /\ Goto("cap", "capReinit")
    /\ UNCHANGED <<deviceVars, captureRunning, restartCapture, joinable,
                   captureDeviceId, pendingReinit, targetVars, command, arg, cur,
                   chosen, checkVars, session, ids, toJoin>>

\* Publish the format and take over the ids of the targets torn down.
CapPublish == /\ At("cap", "capPublish")
              /\ captureFormat' = MixFormat[session]
              /\ todo' = pendingReinit
              /\ pendingReinit' = {}
              /\ Goto("cap", "capReinit")
              /\ UNCHANGED <<deviceVars, captureRunning, restartCapture, joinable,
                             captureDeviceId, targetVars, command, arg, cur, chosen,
                             checkVars, session, ids, toJoin>>

CallForEach(entry) == \E d \in todo : /\ todo' = todo \ {d}
                                      /\ arg' = [arg EXCEPT !["cap"] = d]
                                      /\ Goto("cap", entry)

LoopDone(exit) == /\ todo = {}
                  /\ arg' = [arg EXCEPT !["cap"] = NoDevice]
                  /\ Goto("cap", exit)
                  /\ UNCHANGED todo

CapReinit == /\ At("cap", "capReinit")
             /\ CallForEach("addCheck") \/ LoopDone("capStart")
             /\ UNCHANGED <<deviceVars, captureVars, targetVars, command, cur,
                            chosen, checkVars, session, ids, toJoin>>

\* Bug: the restart flag is cleared after the device is opened, not before.
CapStartClears == /\ At("cap", "capStart")
                  /\ restartCapture' = FALSE
                  /\ Goto("cap", "capLoop")
                  /\ UNCHANGED <<deviceVars, captureRunning, joinable,
                                 captureDeviceId, captureFormat, pendingReinit,
                                 targetVars, localVars>>

\* Initialize, SetEventHandle, GetService, Start of the loopback stream.
CapStart == /\ At("cap", "capStart")
            /\ \/ Goto("cap", "capLoop") /\ UNCHANGED session
               \/ /\ Failures \/ session \notin present
                  /\ session' = NoDevice
                  /\ Goto("cap", "capEnd")
            /\ UNCHANGED <<deviceVars, captureVars, targetVars, command, arg, cur,
                           chosen, checkVars, ids, todo, toJoin>>

\* The inner loop ends and the session is closed.
CapClose == /\ session' = NoDevice
            /\ Goto("cap", "capClosed")
            /\ UNCHANGED <<deviceVars, captureVars, targetVars, command, arg, cur,
                           chosen, checkVars, ids, todo, toJoin>>

CapLeave == At("cap", "capLoop") /\ (~captureRunning \/ restartCapture) /\ CapClose

\* WaitForSingleObject failed.
CapBreak == At("cap", "capLoop") /\ Failures /\ CapClose

CapDecide == /\ At("cap", "capClosed")
             /\ Goto("cap", IF restartCapture /\ captureRunning THEN "capCollect"
                                                                 ELSE "capTop")
             /\ UNCHANGED <<deviceVars, captureVars, targetVars, localVars>>

CapCollect == /\ At("cap", "capCollect")
              /\ Unlocked
              /\ ids' = {device[o] : o \in targets}
              /\ todo' = ids'
              /\ Goto("cap", "capTeardown")
              /\ UNCHANGED <<deviceVars, captureVars, targetVars, command, arg, cur,
                             chosen, checkVars, session, toJoin>>

CapTeardown == /\ At("cap", "capTeardown")
               /\ CallForEach("rmErase") \/ LoopDone("capPark")
               /\ UNCHANGED <<deviceVars, captureVars, targetVars, command, cur,
                              chosen, checkVars, session, ids, toJoin>>

CapPark == /\ At("cap", "capPark")
           /\ captureFormat' = NoFormat
           /\ pendingReinit' = ids
           /\ ids' = {}
           /\ Goto("cap", "capTop")
           /\ UNCHANGED <<deviceVars, captureRunning, restartCapture, joinable,
                          captureDeviceId, targetVars, command, arg, cur, chosen,
                          checkVars, session, todo, toJoin>>

CapEnd == /\ At("cap", "capEnd")
          /\ captureRunning' = FALSE
          /\ Goto("cap", "off")
          /\ UNCHANGED <<deviceVars, restartCapture, joinable, captureDeviceId,
                         captureFormat, pendingReinit, targetVars, localVars>>

-----------------------------------------------------------------------------
(* RenderThreadProc *)

RenderExit(o) == /\ alive' = [alive EXCEPT ![o] = FALSE]
                 /\ running' = [running EXCEPT ![o] = FALSE]
                 /\ UNCHANGED <<deviceVars, captureVars, targets, pendingIds, device,
                                format, pc, localVars>>

RenderStop(o) == alive[o] /\ ~running[o] /\ RenderExit(o)

\* AUDCLNT_E_DEVICE_INVALIDATED, or a failure before the loop.
RenderFail(o) == /\ alive[o] /\ running[o]
                 /\ Failures \/ device[o] \notin present
                 /\ RenderExit(o)

-----------------------------------------------------------------------------
AddCall(t) == \/ AddCheck(t) \/ AddDefault(t) \/ AddReserve(t) \/ AddOpen(t)
              \/ AddAbort(t) \/ AddSpawn(t) \/ AddPush(t) \/ AddReturn(t)

RemoveCall(t) == RemoveErase(t) \/ RemoveJoin(t)

CheckCall(t) == \/ CheckDefault(t) \/ CheckOld(t) \/ CheckTarget(t)
                \/ CheckUnwant(t) \/ CheckBridge(t) \/ CheckWant(t)
                \/ CheckTrack(t)

Issue == \/ \E d \in Device : AddCommand(d) \/ RemoveCommand(d)
         \/ StartCommand \/ StopCommand

CtlStep == \/ AddCall("ctl") \/ RemoveCall("ctl") \/ CheckCall("ctl")
           \/ WantAdded \/ UnwantRemoved \/ Reply
           \/ StartJoin \/ StartRecord \/ StartRun
           \/ StopFlags \/ StopRestart \/ StopJoin \/ StopReset
           \/ StopLock \/ StopTarget \/ StopWait \/ StopClear

NtfStep == \/ NoticeBegin \/ NoticeRunning \/ NoticeRestart
           \/ AddCall("ntf") \/ RemoveCall("ntf") \/ CheckCall("ntf")

CapStep == \/ CapInit \/ CapTop \/ CapOpen \/ CapPublish \/ CapReinit \/ CapStart
           \/ CapLeave \/ CapDecide \/ CapCollect \/ CapTeardown \/ CapPark \/ CapEnd
           \/ AddCall("cap") \/ RemoveCall("cap")

Outside == Environment /\ UNCHANGED <<captureVars, targetVars, pc, localVars>>

Next == \/ Issue \/ CtlStep \/ NtfStep \/ CapStep \/ CapBreak
        \/ \E o \in Obj : RenderStop(o) \/ RenderFail(o)
        \/ Outside

Spec == Init /\ [][Next]_vars

\* The operating system runs every thread that can run; neither a new command,
\* nor a failure, nor a change of the devices is ever owed.
Fairness == /\ WF_vars(CtlStep) /\ WF_vars(NtfStep) /\ WF_vars(CapStep)
            /\ \A o \in Obj : WF_vars(RenderStop(o))

FairSpec == Spec /\ Fairness

-----------------------------------------------------------------------------
(* Properties *)

AddLabels    == {"addCheck", "addDefault", "addReserve", "addOpen", "addSpawn",
                 "addPush", "addDone", "addFail"}
RemoveLabels == {"rmErase", "rmJoin"}
CheckLabels  == {"ckDefault", "ckOld", "ckTarget", "unwantNew", "ckBridge",
                 "wantOld", "track"}
CtlLabels    == {"idle", "wantAdd", "wantRemove", "reply", "startJoin",
                 "startRecord", "startRun", "stopFlags", "stopRestart", "stopJoin",
                 "stopReset", "stopLock", "stopTargets", "stopWait"}
NtfLabels    == {"idle", "cbRunning", "cbRestart"}
CapLabels    == {"off", "capInit", "capTop", "capOpen", "capPublish", "capReinit",
                 "capStart", "capLoop", "capClosed", "capCollect", "capTeardown",
                 "capPark", "capEnd"}

\* Each thread has reserved its device: between the duplicate check of
\* AddRenderDevice and the end of its PendingGuard.
Reserving(t) == pc[t] \in {"addOpen", "addSpawn", "addPush", "addDone", "addFail"}

\* The object a call has taken out of targets_, or has not yet put into it.
Holds(t, o) == pc[t] \in {"addPush", "rmJoin"} /\ cur[t] = o

\* Nothing is under way: no command, no notice to handle or being handled, and
\* the capture thread is gone or captures with no restart to serve.
Settled == /\ At("ctl", "idle") /\ At("ntf", "idle") /\ notes = 0
           /\ pc["cap"] \in {"off", "capLoop"}
           /\ At("cap", "capLoop") => captureRunning /\ ~restartCapture

\* The variables keep their types.
TypeOK ==
    /\ DeviceTypeOK
    /\ captureRunning \in BOOLEAN /\ restartCapture \in BOOLEAN
    /\ joinable \in BOOLEAN
    /\ captureDeviceId \in DeviceId /\ captureFormat \in Format \cup {NoFormat}
    /\ pendingReinit \subseteq Device /\ targets \subseteq Obj
    /\ pendingIds \subseteq Device
    /\ device \in [Obj -> DeviceId] /\ format \in [Obj -> Format \cup {NoFormat}]
    /\ running \in [Obj -> BOOLEAN] /\ alive \in [Obj -> BOOLEAN]
    /\ pc \in [Thread -> AddLabels \cup RemoveLabels \cup CheckLabels
                         \cup CtlLabels \cup NtfLabels \cup CapLabels]
    /\ command \in {"none", "add", "remove", "start", "stop"}
    /\ arg \in [Thread -> DeviceId] /\ cur \in [Thread -> Obj \cup {NoObj}]
    /\ chosen \in [Thread -> Format \cup {NoFormat}]
    /\ newDefault \in [Thread -> DeviceId] /\ oldCapture \in [Thread -> DeviceId]
    /\ session \in DeviceId /\ ids \subseteq Device /\ todo \subseteq Device
    /\ toJoin \subseteq Obj

\* pending_ids_ holds exactly the devices that calls of AddRenderDevice are
\* setting up, and no two calls set up the same one: a reservation is neither
\* leaked on an early return nor released by another call.
ReservationsMatch ==
    /\ pendingIds = {arg[t] : t \in {u \in Thread : Reserving(u)}}
    /\ \A t, u \in Thread :
          Reserving(t) /\ Reserving(u) /\ arg[t] = arg[u] => t = u

\* No device has two render targets, whichever of the three threads adds it:
\* the race pending_ids_ is there to close (audio_engine.h:91-94).
NoDuplicateTargets ==
    \A o, p \in targets : device[o] = device[p] => o = p

\* A render thread runs on an object that exists and that exactly one owner,
\* targets_ or one call, will join and destroy (audio_engine.cpp:292-293).
JoinedBeforeDestroyed ==
    \A o \in Obj : alive[o] =>
        /\ device[o] # NoDevice
        /\ o \in targets <=> \A t \in Thread : ~Holds(t, o)
        /\ \A t, u \in Thread : Holds(t, o) /\ Holds(u, o) => t = u

\* Start never assigns to a joinable std::thread, which would call
\* std::terminate (audio_engine.cpp:51-53), and one capture thread at most
\* exists: it is joinable for as long as it has not returned.
NoTerminate == /\ At("ctl", "startRun") => ~joinable
               /\ ~At("cap", "off") => joinable

\* When the capture thread parks the ids it tore down, none parked before is
\* overwritten: each was re-added, or given up, by the restart that followed.
NothingParkedLost == At("cap", "capPark") => pendingReinit = {}

\* The loopback session follows the default device: once every notice has been
\* handled, a running bridge captures from the current default.
CaptureFollowsDefault == Settled /\ captureRunning => session = default

\* Once things are settled a running bridge does not render to the device it
\* captures from (audio_engine.h:54-56).
NoFeedback == Settled /\ captureRunning => ~Bridged(session)

\* Every command is answered: no join and no mutex is waited for in vain.
EveryCommandReturns == command # "none" ~> command = "none"

\* If the default stays on d and the bridge keeps running, the capture thread
\* ends up on d: no restart request is lost.
CaptureConverges ==
    \A d \in Device : <>[](default = d /\ captureRunning) => <>[](session = d)

-----------------------------------------------------------------------------
(* What comments of the source say and the code does not always do *)

\* Stop stops "capture and all render targets" (audio_engine.h:47): where
\* nobody but the bridge itself adds targets, a stopped bridge has none.
StoppedHasNoTargets == Settled /\ ~captureRunning => targets = {}

\* Render streams match the sample rate and type of the capture source
\* (audio_engine.cpp:193-194).
FormatsMatch == Settled /\ captureRunning =>
                   \A o \in targets : format[o] = captureFormat

\* The wanted list is the set of devices "that the user has chosen as output
\* targets" (device_manager.h:25-26): a running bridge renders to nothing else.
TargetsAreWanted == Settled /\ captureRunning =>
                       \A o \in targets : device[o] \in wanted
=============================================================================
