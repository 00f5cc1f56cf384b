------------------------- MODULE AudioEngine_proofs -------------------------
(***************************************************************************)
(* Proofs about AudioEngine, for any devices, formats, commands, bounds    *)
(* and failures: its types, the reservations of pending_ids_, one target   *)
(* per device, render threads joined before their objects die, no          *)
(* assignment to a joinable std::thread, no lost parked id, a capture      *)
(* session that follows the default device, and, while the calls succeed   *)
(* and no command adds a device, no feedback.                              *)
(*                                                                         *)
(* IInv is the inductive invariant.  One lemma for each of its conjuncts   *)
(* shows that Next keeps it, most often through a Frame: what a step that  *)
(* does not concern the conjunct leaves alone.  FeedbackInv strengthens it *)
(* for NoFeedback.                                                         *)
(***************************************************************************)
EXTENDS AudioEngine, TLAPS

CallLabels == AddLabels \cup RemoveLabels \cup CheckLabels

\* A call that CheckAndRemoveDefaultDevice makes, or that it goes on to make.
InCheck(t) == t = "ntf" \/ (t = "ctl" /\ command # "add")

\* The ids that reach the containers of ids are never the empty one.
IdsGiven ==
    /\ \A t \in Thread : pc[t] \in AddLabels => arg[t] \in Device
    /\ \A t \in Thread : pc[t] = "wantOld" => oldCapture[t] \in Device
    /\ \A t \in Thread :
          pc[t] \in AddLabels /\ InCheck(t) => oldCapture[t] \in Device
    /\ pc["ctl"] = "wantAdd" => arg["ctl"] \in Device
    /\ pc["cap"] = "capPublish" => session \in Device

\* An object that exists is owned by targets_ or by one call, and by no two.
Ownership ==
    /\ \A t \in Thread : pc[t] \in {"addPush", "rmJoin"} => cur[t] \in Obj \ targets
    /\ \A t \in Thread : pc[t] \in {"addPush", "rmJoin"} => device[cur[t]] # NoDevice
    /\ \A t, u \in Thread : \A o \in Obj : Holds(t, o) /\ Holds(u, o) => t = u
    /\ \A o \in targets : device[o] # NoDevice
    /\ \A o \in Obj : device[o] # NoDevice =>
                         o \in targets \/ \E t \in Thread : Holds(t, o)
    /\ \A o \in Obj : alive[o] => device[o] # NoDevice

\* While Stop holds targets_mutex_, it has joined the targets it is done with.
StopJoins ==
    pc["ctl"] \in {"stopTargets", "stopWait"} =>
        /\ toJoin \subseteq targets
        /\ \A o \in targets \ toJoin : ~alive[o]
        /\ pc["ctl"] = "stopWait" => cur["ctl"] \in toJoin

\* A reserved device stays free of targets until its own call pushes one.
ReservedIsFree ==
    /\ \A t \in Thread : pc[t] \in {"addOpen", "addSpawn", "addPush"} => ~Bridged(arg[t])
    /\ \A t \in Thread : pc[t] = "addPush" => device[cur[t]] = arg[t]

\* Which command the pipe thread is in, and what Start knows of the thread.
Protocol ==
    /\ pc["ctl"] \in CheckLabels \cup {"startJoin", "startRecord", "startRun"} =>
          command = "start"
    /\ pc["ctl"] \in AddLabels => command \in {"add", "start"}
    /\ pc["ctl"] \in RemoveLabels => command \in {"remove", "start"}
    /\ pc["ctl"] \in CallLabels \cup {"startRecord", "startRun"} /\ command = "start" =>
          ~joinable
    /\ pc["cap"] # "off" => joinable

\* Ids are parked only between a teardown and the next opened session.
Parked == pc["cap"] \notin {"off", "capInit", "capTop", "capOpen", "capPublish",
                            "capEnd"} => pendingReinit = {}

\* While a session is open, each change of the default since is still to be
\* delivered, being handled, or turned into a restart request.
SessionLabels == AddLabels \cup {"capPublish", "capReinit", "capStart", "capLoop"}

Follows ==
    /\ pc["cap"] \in SessionLabels /\ captureRunning =>
          session = default \/ notes > 0 \/ pc["ntf"] # "idle" \/ restartCapture
    /\ pc["cap"] = "off" => ~captureRunning
    /\ pc["ctl"] = "stopRestart" => ~captureRunning

IInv == /\ TypeOK /\ IdsGiven /\ Ownership /\ StopJoins
        /\ ReservationsMatch /\ ReservedIsFree /\ NoDuplicateTargets
        /\ Protocol /\ Parked /\ Follows

\* The steps of Next, sorted by what they belong to.
NoticeStep  == NoticeBegin \/ NoticeRunning \/ NoticeRestart
CommandStep == Issue \/ WantAdded \/ UnwantRemoved \/ Reply
StartStep   == StartJoin \/ StartRecord \/ StartRun
StopStep    == \/ StopFlags \/ StopRestart \/ StopJoin \/ StopReset
               \/ StopLock \/ StopTarget \/ StopWait \/ StopClear
SessionStep == \/ CapInit \/ CapTop \/ CapOpen \/ CapPublish \/ CapReinit
               \/ CapStart \/ CapLeave \/ CapBreak \/ CapEnd
RestartStep == CapDecide \/ CapCollect \/ CapTeardown \/ CapPark

LEMMA NextGroups ==
    Next => \/ \E t \in Thread : \/ AddCall(t) \/ RemoveCall(t)
                                 \/ t # "cap" /\ CheckCall(t)
            \/ NoticeStep \/ CommandStep \/ StartStep \/ StopStep
            \/ SessionStep \/ RestartStep
            \/ \E o \in Obj : RenderStop(o) \/ RenderFail(o)
            \/ Outside
<1> DEFINE Call(t) == AddCall(t) \/ RemoveCall(t) \/ (t # "cap" /\ CheckCall(t))
<1>1. Call("ctl") \/ Call("ntf") \/ Call("cap") => \E t \in Thread : Call(t)
  BY DEF Thread
<1>2. CtlStep \/ Issue => Call("ctl") \/ CommandStep \/ StartStep \/ StopStep
  BY DEF CtlStep, CommandStep, StartStep, StopStep
<1>3. NtfStep => Call("ntf") \/ NoticeStep
  BY DEF NtfStep, NoticeStep
<1>4. CapStep \/ CapBreak => Call("cap") \/ SessionStep \/ RestartStep
  BY DEF CapStep, SessionStep, RestartStep
<1> HIDE DEF Call
<1>5. Next => \/ \E t \in Thread : Call(t)
              \/ NoticeStep \/ CommandStep \/ StartStep \/ StopStep
              \/ SessionStep \/ RestartStep
              \/ \E o \in Obj : RenderStop(o) \/ RenderFail(o)
              \/ Outside
  BY <1>1, <1>2, <1>3, <1>4 DEF Next
<1> QED BY <1>5 DEF Call


(***************************************************************************)
(* Types                                                                   *)
(***************************************************************************)

LEMMA InitIInv == Init => IInv
<1> SUFFICES ASSUME Init PROVE IInv
  OBVIOUS
<1> USE DEF Init, Thread, Obj, NoObj
<1>1. TypeOK
  <2>1. /\ captureRunning \in BOOLEAN /\ restartCapture \in BOOLEAN
        /\ joinable \in BOOLEAN
    OBVIOUS
  <2>2. pc \in [Thread -> AddLabels \cup RemoveLabels \cup CheckLabels
                         \cup CtlLabels \cup NtfLabels \cup CapLabels]
    BY DEF CtlLabels, CapLabels
  <2>3. DeviceTypeOK
    BY DeviceAssumption DEF DeviceInit, DeviceTypeOK, DeviceId
  <2>4. running \in [Obj -> BOOLEAN] /\ alive \in [Obj -> BOOLEAN]
    OBVIOUS
  <2> QED BY <2>1, <2>2, <2>3, <2>4 DEF TypeOK, DeviceId
<1>2. /\ pc = [t \in Thread |-> IF t = "cap" THEN "off" ELSE "idle"]
      /\ targets = {} /\ pendingIds = {} /\ joinable = FALSE
      /\ captureRunning = FALSE
      /\ \A o \in Obj : device[o] = NoDevice /\ ~alive[o]
  OBVIOUS
<1>3. IdsGiven /\ Ownership /\ StopJoins /\ Protocol /\ Parked /\ Follows
  BY <1>2 DEF IdsGiven, Ownership, Holds, StopJoins, Protocol, Parked, Follows,
     SessionLabels, CallLabels, AddLabels, RemoveLabels, CheckLabels
<1>4. ReservationsMatch /\ ReservedIsFree /\ NoDuplicateTargets
  BY <1>2 DEF ReservationsMatch, Reserving, ReservedIsFree, NoDuplicateTargets
<1> QED BY <1>1, <1>3, <1>4 DEF IInv

\* The types are kept by every step of AddRenderDevice.
LEMMA AddCallTypes == ASSUME IInv, NEW t \in Thread, AddCall(t) PROVE TypeOK'
<1>1. TypeOK /\ IdsGiven /\ Ownership
  BY DEF IInv
<1> USE <1>1, EngineAssumption, DeviceAssumption DEF TypeOK, DeviceTypeOK, DeviceId,
     Goto, At, Thread, Obj, NoObj, deviceVars, captureVars, heapVars, targetVars,
     checkVars, capVars, localVars, AddLabels, RemoveLabels, CheckLabels, CtlLabels,
     NtfLabels, CapLabels
<1>2. CASE AddCheck(t)
  BY <1>2 DEF AddCheck
<1>3. CASE AddDefault(t)
  BY <1>3 DEF AddDefault, AfterAdd
<1>4. CASE AddReserve(t)
  BY <1>4 DEF AddReserve, AfterAdd, IdsGiven
<1>5. CASE AddOpen(t)
  BY <1>5 DEF AddOpen, IdsGiven
<1>6. CASE AddAbort(t)
  BY <1>6 DEF AddAbort
<1>7. CASE AddSpawn(t)
  BY <1>7 DEF AddSpawn
<1>8. CASE AddPush(t)
  BY <1>8 DEF AddPush, Ownership
<1>9. CASE AddReturn(t)
  BY <1>9 DEF AddReturn, AfterAdd
<1> QED BY <1>2, <1>3, <1>4, <1>5, <1>6, <1>7, <1>8, <1>9 DEF AddCall

\* The types are kept by every step of RemoveRenderDevice.
LEMMA RemoveCallTypes == ASSUME IInv, NEW t \in Thread, RemoveCall(t) PROVE TypeOK'
<1>1. TypeOK /\ IdsGiven /\ Ownership
  BY DEF IInv
<1> USE <1>1, EngineAssumption, DeviceAssumption DEF TypeOK, DeviceTypeOK, DeviceId,
     Goto, At, Thread, Obj, NoObj, deviceVars, captureVars, heapVars, targetVars,
     checkVars, capVars, localVars, AddLabels, RemoveLabels, CheckLabels, CtlLabels,
     NtfLabels, CapLabels
<1>2. CASE RemoveErase(t)
  <2>1. CASE ~Bridged(arg[t])
    <3>1. /\ UNCHANGED <<targets, running, cur>>
          /\ pc' = [pc EXCEPT ![t] = AfterRemove(t)]
      BY <1>2, <2>1 DEF RemoveErase, Bridged
    <3> QED BY <1>2, <3>1 DEF RemoveErase, AfterRemove
  <2>2. CASE Bridged(arg[t])
    <3>1. PICK o \in targets :
             /\ targets' = targets \ {o}
             /\ running' = [running EXCEPT ![o] = FALSE]
             /\ cur' = [cur EXCEPT ![t] = o]
             /\ pc' = [pc EXCEPT ![t] = "rmJoin"]
      BY <1>2, <2>2 DEF RemoveErase
    <3>2. running' \in [Obj -> BOOLEAN]
      BY <3>1
    <3> QED BY <1>2, <3>1, <3>2 DEF RemoveErase
  <2> QED BY <2>1, <2>2
<1>3. CASE RemoveJoin(t)
  BY <1>3 DEF RemoveJoin, AfterRemove
<1> QED BY <1>2, <1>3 DEF RemoveCall

\* The types are kept by every step of CheckAndRemoveDefaultDevice.
LEMMA CheckCallTypes == ASSUME IInv, NEW t \in Thread, CheckCall(t) PROVE TypeOK'
<1>1. TypeOK /\ IdsGiven /\ Ownership
  BY DEF IInv
<1> USE <1>1, EngineAssumption, DeviceAssumption DEF TypeOK, DeviceTypeOK, DeviceId,
     Goto, At, Thread, Obj, NoObj, deviceVars, captureVars, heapVars, targetVars,
     checkVars, capVars, localVars, AddLabels, RemoveLabels, CheckLabels, CtlLabels,
     NtfLabels, CapLabels
<1>2. CASE CheckDefault(t)
  BY <1>2 DEF CheckDefault, AfterCheck, GetDefaultOutputDeviceId
<1>3. CASE CheckOld(t)
  BY <1>3 DEF CheckOld
<1>4. CASE CheckTarget(t)
  BY <1>4 DEF CheckTarget
<1>5. CASE CheckUnwant(t)
  BY <1>5 DEF CheckUnwant, RemoveWantedDevice
<1>6. CASE CheckBridge(t)
  BY <1>6 DEF CheckBridge
<1>7. CASE CheckWant(t)
  BY <1>7 DEF CheckWant, AddWantedDevice, IdsGiven
<1>8. CASE CheckTrack(t)
  BY <1>8 DEF CheckTrack, AfterCheck
<1> QED BY <1>2, <1>3, <1>4, <1>5, <1>6, <1>7, <1>8 DEF CheckCall

\* The types are kept by the callback of main.cpp.
LEMMA NoticeTypes == ASSUME IInv, NoticeStep PROVE TypeOK'
<1>1. TypeOK /\ IdsGiven /\ Ownership
  BY DEF IInv
<1> USE <1>1, EngineAssumption, DeviceAssumption DEF TypeOK, DeviceTypeOK, DeviceId,
     Goto, At, Thread, Obj, NoObj, deviceVars, captureVars, heapVars, targetVars,
     checkVars, capVars, localVars, AddLabels, RemoveLabels, CheckLabels, CtlLabels,
     NtfLabels, CapLabels
<1>2. CASE NoticeBegin
  BY <1>2 DEF NoticeBegin, Deliver
<1>3. CASE NoticeRunning
  BY <1>3 DEF NoticeRunning, ClearCall
<1>4. CASE NoticeRestart
  BY <1>4 DEF NoticeRestart
<1> QED BY <1>2, <1>3, <1>4 DEF NoticeStep

\* The types are kept by the pipe thread around its calls.
LEMMA CommandTypes == ASSUME IInv, CommandStep PROVE TypeOK'
<1>1. TypeOK /\ IdsGiven /\ Ownership
  BY DEF IInv
<1> USE <1>1, EngineAssumption, DeviceAssumption DEF TypeOK, DeviceTypeOK, DeviceId,
     Goto, At, Thread, Obj, NoObj, deviceVars, captureVars, heapVars, targetVars,
     checkVars, capVars, localVars, AddLabels, RemoveLabels, CheckLabels, CtlLabels,
     NtfLabels, CapLabels
<1>2. ASSUME NEW d \in Device, AddCommand(d) PROVE TypeOK'
  BY <1>2 DEF AddCommand, Command
<1>3. ASSUME NEW d \in Device, RemoveCommand(d) PROVE TypeOK'
  BY <1>3 DEF RemoveCommand, Command
<1>4. CASE StartCommand
  BY <1>4 DEF StartCommand, Command
<1>5. CASE StopCommand
  BY <1>5 DEF StopCommand, Command
<1>6. CASE WantAdded
  BY <1>6 DEF WantAdded, AddWantedDevice, IdsGiven
<1>7. CASE UnwantRemoved
  BY <1>7 DEF UnwantRemoved, RemoveWantedDevice
<1>8. CASE Reply
  BY <1>8 DEF Reply, ClearCall
<1> QED BY <1>2, <1>3, <1>4, <1>5, <1>6, <1>7, <1>8 DEF CommandStep, Issue

\* The types are kept by Start.
LEMMA StartTypes == ASSUME IInv, StartStep PROVE TypeOK'
<1>1. TypeOK /\ IdsGiven /\ Ownership
  BY DEF IInv
<1> USE <1>1, EngineAssumption, DeviceAssumption DEF TypeOK, DeviceTypeOK, DeviceId,
     Goto, At, Thread, Obj, NoObj, deviceVars, captureVars, heapVars, targetVars,
     checkVars, capVars, localVars, AddLabels, RemoveLabels, CheckLabels, CtlLabels,
     NtfLabels, CapLabels
<1>2. CASE StartJoin
  BY <1>2 DEF StartJoin
<1>3. CASE StartRecord
  BY <1>3 DEF StartRecord, GetDefaultOutputDeviceId
<1>4. CASE StartRun
  BY <1>4 DEF StartRun
<1> QED BY <1>2, <1>3, <1>4 DEF StartStep

\* The types are kept by Stop.
LEMMA StopTypes == ASSUME IInv, StopStep PROVE TypeOK'
<1>1. TypeOK /\ IdsGiven /\ Ownership
  BY DEF IInv
<1> USE <1>1, EngineAssumption, DeviceAssumption DEF TypeOK, DeviceTypeOK, DeviceId,
     Goto, At, Thread, Obj, NoObj, deviceVars, captureVars, heapVars, targetVars,
     checkVars, capVars, localVars, AddLabels, RemoveLabels, CheckLabels, CtlLabels,
     NtfLabels, CapLabels
<1>2. CASE StopFlags
  BY <1>2 DEF StopFlags
<1>3. CASE StopRestart
  BY <1>3 DEF StopRestart
<1>4. CASE StopJoin
  BY <1>4 DEF StopJoin
<1>5. CASE StopReset
  BY <1>5 DEF StopReset
<1>6. CASE StopLock
  BY <1>6 DEF StopLock
<1>7. CASE StopTarget
  BY <1>7 DEF StopTarget
<1>8. CASE StopWait
  BY <1>8 DEF StopWait
<1>9. CASE StopClear
  BY <1>9 DEF StopClear
<1> QED BY <1>2, <1>3, <1>4, <1>5, <1>6, <1>7, <1>8, <1>9 DEF StopStep

\* The types are kept by the capture thread from its start to its end.
LEMMA SessionTypes == ASSUME IInv, SessionStep PROVE TypeOK'
<1>1. TypeOK /\ IdsGiven /\ Ownership
  BY DEF IInv
<1> USE <1>1, EngineAssumption, DeviceAssumption DEF TypeOK, DeviceTypeOK, DeviceId,
     Goto, At, Thread, Obj, NoObj, deviceVars, captureVars, heapVars, targetVars,
     checkVars, capVars, localVars, AddLabels, RemoveLabels, CheckLabels, CtlLabels,
     NtfLabels, CapLabels
<1>2. CASE CapInit
  <2>1. captureRunning' \in BOOLEAN
    BY <1>2 DEF CapInit
  <2> QED BY <1>2, <2>1 DEF CapInit
<1>3. CASE CapTop
  <2>1. restartCapture' \in BOOLEAN
    BY <1>3 DEF CapTop
  <2> QED BY <1>3, <2>1 DEF CapTop
<1>4. CASE CapOpen
  BY <1>4 DEF CapOpen
<1>5. CASE CapPublish
  BY <1>5 DEF CapPublish, IdsGiven
<1>6. CASE CapReinit
  BY <1>6 DEF CapReinit, CallForEach, LoopDone
<1>7. CASE CapStart
  BY <1>7 DEF CapStart
<1>8. CASE CapLeave
  BY <1>8 DEF CapLeave, CapClose
<1>9. CASE CapBreak
  BY <1>9 DEF CapBreak, CapClose
<1>10. CASE CapEnd
  BY <1>10 DEF CapEnd
<1> QED BY <1>2, <1>3, <1>4, <1>5, <1>6, <1>7, <1>8, <1>9, <1>10 DEF
  SessionStep

\* The types are kept by the teardown of a restart.
LEMMA RestartTypes == ASSUME IInv, RestartStep PROVE TypeOK'
<1>1. TypeOK /\ IdsGiven /\ Ownership
  BY DEF IInv
<1> USE <1>1, EngineAssumption, DeviceAssumption DEF TypeOK, DeviceTypeOK, DeviceId,
     Goto, At, Thread, Obj, NoObj, deviceVars, captureVars, heapVars, targetVars,
     checkVars, capVars, localVars, AddLabels, RemoveLabels, CheckLabels, CtlLabels,
     NtfLabels, CapLabels
<1>2. CASE CapDecide
  BY <1>2 DEF CapDecide
<1>3. CASE CapCollect
  BY <1>3 DEF CapCollect, Ownership
<1>4. CASE CapTeardown
  BY <1>4 DEF CapTeardown, CallForEach, LoopDone
<1>5. CASE CapPark
  BY <1>5 DEF CapPark
<1> QED BY <1>2, <1>3, <1>4, <1>5 DEF RestartStep

\* The types are kept by a render thread.
LEMMA RenderTypes ==
    ASSUME IInv, NEW o \in Obj, RenderStop(o) \/ RenderFail(o) PROVE TypeOK'
<1>1. TypeOK /\ IdsGiven /\ Ownership
  BY DEF IInv
<1> USE <1>1, EngineAssumption, DeviceAssumption DEF TypeOK, DeviceTypeOK, DeviceId,
     Goto, At, Thread, Obj, NoObj, deviceVars, captureVars, heapVars, targetVars,
     checkVars, capVars, localVars, AddLabels, RemoveLabels, CheckLabels, CtlLabels,
     NtfLabels, CapLabels
<1>2. CASE RenderStop(o)
  BY <1>2 DEF RenderStop, RenderExit
<1>3. CASE RenderFail(o)
  BY <1>3 DEF RenderFail, RenderExit
<1> QED BY <1>2, <1>3

\* The types are kept by the devices coming, going and taking over.
LEMMA OutsideTypes == ASSUME IInv, Outside PROVE TypeOK'
<1>1. TypeOK /\ IdsGiven /\ Ownership
  BY DEF IInv
<1> USE <1>1, EngineAssumption, DeviceAssumption DEF TypeOK, DeviceTypeOK, DeviceId,
     Goto, At, Thread, Obj, NoObj, deviceVars, captureVars, heapVars, targetVars,
     checkVars, capVars, localVars, AddLabels, RemoveLabels, CheckLabels, CtlLabels,
     NtfLabels, CapLabels
<1>2. CASE RoleNotice
  BY <1>2 DEF RoleNotice, Happens, Notify, Outside
<1>3. ASSUME NEW d \in Device, SwitchDefault(d) PROVE TypeOK'
  BY <1>3 DEF SwitchDefault, Happens, Notify, Outside
<1>4. ASSUME NEW d \in Device, Unplug(d) PROVE TypeOK'
  BY <1>4 DEF Unplug, Happens, Notify, Outside
<1>5. ASSUME NEW d \in Device, Plug(d) PROVE TypeOK'
  BY <1>5 DEF Plug, Happens, Notify, Outside
<1> QED BY <1>2, <1>3, <1>4, <1>5 DEF Outside, Environment

\* Start creates the capture thread when there is none.
LEMMA NoThreadAtStart == IInv /\ StartRun => pc["cap"] = "off"
BY DEF IInv, Protocol, StartRun, At


(***************************************************************************)
(* One target per device                                                   *)
(***************************************************************************)

\* A step that sets up and ends no reservation.
LEMMA ReservationsFrame ==
    ASSUME ReservationsMatch, UNCHANGED pendingIds,
           \A u \in Thread : Reserving(u)' <=> Reserving(u),
           \A u \in Thread : Reserving(u) => arg'[u] = arg[u]
    PROVE  ReservationsMatch'
<1>1. {u \in Thread : Reserving(u)'} = {u \in Thread : Reserving(u)}
  OBVIOUS
<1>2. {arg'[t] : t \in {u \in Thread : Reserving(u)}} =
      {arg[t] : t \in {u \in Thread : Reserving(u)}}
  OBVIOUS
<1> QED BY <1>1, <1>2 DEF ReservationsMatch

\* Reservations are made by AddReserve and given up by AddReturn; no other
\* step of AddRenderDevice makes or ends one.
LEMMA AddCallReservations ==
    ASSUME IInv, NEW t \in Thread, AddCall(t) PROVE ReservationsMatch'
<1>1. TypeOK /\ ReservationsMatch
  BY DEF IInv
<1> USE DEF Goto, At, captureVars, deviceVars, targetVars, localVars
<1>2. CASE AddReserve(t) /\ pc'[t] = "addOpen"
  <2>1. /\ pendingIds' = pendingIds \cup {arg[t]} /\ arg' = arg
        /\ arg[t] \notin pendingIds /\ ~Reserving(t)
        /\ pc' = [pc EXCEPT ![t] = "addOpen"]
    BY <1>1, <1>2 DEF AddReserve, AfterAdd, Reserving, TypeOK
  <2>2. \A u \in Thread : Reserving(u)' <=> Reserving(u) \/ u = t
    BY <1>1, <2>1 DEF Reserving, TypeOK
  <2> QED BY <1>1, <2>1, <2>2 DEF ReservationsMatch
<1>3. CASE AddReturn(t)
  <2>1. /\ pendingIds' = pendingIds \ {arg[t]} /\ arg' = arg /\ Reserving(t)
        /\ pc' = [pc EXCEPT ![t] = AfterAdd(t, pc[t] = "addDone")]
    BY <1>3 DEF AddReturn, Reserving
  <2>2. \A u \in Thread : Reserving(u)' <=> Reserving(u) /\ u # t
    BY <1>1, <2>1 DEF Reserving, AfterAdd, TypeOK
  <2> QED BY <1>1, <2>1, <2>2 DEF ReservationsMatch
<1>4. CASE ~AddReturn(t) /\ ~(AddReserve(t) /\ pc'[t] = "addOpen")
  <2>1. UNCHANGED <<pendingIds, arg>>
    BY <1>1, <1>4 DEF AddCall, AddCheck, AddDefault, AddReserve, AddOpen, AddAbort,
       AddSpawn, AddPush, TypeOK
  <2>2. \A u \in Thread : Reserving(u)' <=> Reserving(u)
    BY <1>1, <1>4 DEF AddCall, AddCheck, AddDefault, AddReserve, AddOpen, AddAbort,
       AddSpawn, AddPush, AfterAdd, Reserving, TypeOK
  <2> QED BY <1>1, <2>1, <2>2, ReservationsFrame
<1> QED BY <1>2, <1>3, <1>4

LEMMA NextReservations == ASSUME IInv, Next PROVE ReservationsMatch'
<1>1. TypeOK /\ ReservationsMatch
  BY DEF IInv
<1> DEFINE Frame == /\ pendingIds' = pendingIds
                    /\ \A u \in Thread : Reserving(u)' <=> Reserving(u)
                    /\ \A u \in Thread : Reserving(u) => arg'[u] = arg[u]
<1>2. Frame => ReservationsMatch'
  BY <1>1, ReservationsFrame
<1> USE <1>1 DEF Reserving, TypeOK, Goto, At, Thread, captureVars, deviceVars,
     targetVars, localVars
<1>3. ASSUME NEW t \in Thread, RemoveCall(t) PROVE Frame
  BY <1>3 DEF RemoveCall, RemoveErase, RemoveJoin, AfterRemove
<1>4. ASSUME NEW t \in Thread, t # "cap", CheckCall(t) PROVE Frame
  BY <1>4 DEF CheckCall, CheckDefault, CheckOld, CheckTarget, CheckUnwant,
     CheckBridge, CheckWant, CheckTrack, AfterCheck
<1>5. ASSUME NoticeStep PROVE Frame
  BY <1>5 DEF NoticeStep, NoticeBegin, NoticeRunning, NoticeRestart, ClearCall
<1>6. ASSUME CommandStep PROVE Frame
  BY <1>6 DEF CommandStep, Issue, Command, AddCommand, RemoveCommand, StartCommand,
     StopCommand, WantAdded, UnwantRemoved, Reply, ClearCall
<1>7. ASSUME StartStep PROVE Frame
  <2>1. StartRun => pc["cap"] = "off"
    BY NoThreadAtStart
  <2> QED BY <1>7, <2>1 DEF StartStep, StartJoin, StartRecord, StartRun
<1>8. ASSUME StopStep PROVE Frame
  BY <1>8 DEF StopStep, StopFlags, StopRestart, StopJoin, StopReset, StopLock,
     StopTarget, StopWait, StopClear
<1>9. ASSUME SessionStep PROVE Frame
  BY <1>9 DEF SessionStep, CapInit, CapTop, CapOpen, CapPublish, CapReinit, CapStart,
     CapLeave, CapBreak, CapEnd, CapClose, CallForEach, LoopDone
<1>10. ASSUME RestartStep PROVE Frame
  BY <1>10 DEF RestartStep, CapDecide, CapCollect, CapTeardown, CapPark, CallForEach,
     LoopDone
<1>11. ASSUME NEW o \in Obj, RenderStop(o) \/ RenderFail(o) PROVE Frame
  BY <1>11 DEF RenderStop, RenderFail, RenderExit
<1>12. ASSUME Outside PROVE Frame
  BY <1>12 DEF Outside
<1> QED BY <1>2, <1>3, <1>4, <1>5, <1>6, <1>7, <1>8, <1>9, <1>10, <1>11, <1>12,
           NextGroups, AddCallReservations

(***************************************************************************)
(* Ownership of the render targets                                         *)
(***************************************************************************)

\* A step that creates, moves and destroys no object.
LEMMA OwnershipFrame ==
    ASSUME TypeOK, Ownership, UNCHANGED <<targets, device>>,
           \A u \in Thread : pc'[u] \in {"addPush", "rmJoin"} <=>
                             pc[u] \in {"addPush", "rmJoin"},
           \A u \in Thread : pc[u] \in {"addPush", "rmJoin"} => cur'[u] = cur[u],
           \A o \in Obj : alive'[o] => alive[o]
    PROVE  Ownership'
<1>1. \A u \in Thread : \A o \in Obj : Holds(u, o)' <=> Holds(u, o)
  BY DEF Holds
<1> QED BY <1>1 DEF Ownership

\* AddRenderDevice creates an object that it alone holds and gives it to targets_.
LEMMA AddCallOwnership == ASSUME IInv, NEW t \in Thread, AddCall(t) PROVE Ownership'
<1>1. TypeOK /\ Ownership
  BY DEF IInv
<1> USE DEF Goto, At, Obj, NoObj, TypeOK, captureVars, deviceVars, targetVars,
     heapVars, localVars
<1>2. CASE AddSpawn(t)
  <2>1. PICK o \in Obj :
           /\ device[o] = NoDevice
           /\ device' = [device EXCEPT ![o] = arg[t]]
           /\ alive'  = [alive EXCEPT ![o] = TRUE]
           /\ cur'    = [cur EXCEPT ![t] = o]
    BY <1>2 DEF AddSpawn
  <2>2. /\ pc[t] = "addSpawn" /\ pc' = [pc EXCEPT ![t] = "addPush"]
        /\ targets' = targets
    BY <1>2 DEF AddSpawn
  <2>3. arg[t] # NoDevice
    BY <2>2, DeviceAssumption DEF IInv, IdsGiven, AddLabels
  <2>4. o \notin targets /\ \A u \in Thread : ~Holds(u, o)
    BY <1>1, <2>1 DEF Ownership, Holds
  <2>5. \A u \in Thread : \A p \in Obj :
           Holds(u, p)' <=> IF u = t THEN p = o ELSE Holds(u, p)
    BY <1>1, <2>1, <2>2 DEF Holds
  <2>6. \A u \in Thread : pc'[u] \in {"addPush", "rmJoin"} => cur'[u] \in Obj \ targets'
    BY <1>1, <2>1, <2>2, <2>3, <2>4, <2>5 DEF Ownership, Holds
  <2>7. \A u \in Thread : pc'[u] \in {"addPush", "rmJoin"} => device'[cur'[u]] # NoDevice
    BY <1>1, <2>1, <2>2, <2>3, <2>4, <2>5 DEF Ownership, Holds
  <2>8. \A u, v \in Thread : \A p \in Obj : Holds(u, p)' /\ Holds(v, p)' => u = v
    BY <1>1, <2>1, <2>2, <2>3, <2>4, <2>5 DEF Ownership
  <2>9. \A p \in targets' : device'[p] # NoDevice
    BY <1>1, <2>1, <2>2, <2>3, <2>4, <2>5 DEF Ownership
  <2>10. ASSUME NEW p \in Obj, device'[p] # NoDevice, p \notin targets'
         PROVE  \E u \in Thread : Holds(u, p)'
    <3>1. CASE p = o
      BY <2>5, <3>1
    <3>2. CASE p # o
      <4>1. PICK u \in Thread : Holds(u, p)
        BY <1>1, <2>1, <2>2, <2>10, <3>2 DEF Ownership
      <4>2. u # t
        BY <2>2, <4>1 DEF Holds
      <4> QED BY <2>5, <4>1, <4>2
    <3> QED BY <3>1, <3>2
  <2>11. \A p \in Obj : alive'[p] => device'[p] # NoDevice
    BY <1>1, <2>1, <2>2, <2>3, <2>4, <2>5 DEF Ownership
  <2> QED BY <2>6, <2>7, <2>8, <2>9, <2>10, <2>11 DEF Ownership
<1>3. CASE AddPush(t)
  <2>1. /\ pc[t] = "addPush" /\ pc' = [pc EXCEPT ![t] = "addDone"]
        /\ targets' = targets \cup {cur[t]} /\ cur' = [cur EXCEPT ![t] = NoObj]
        /\ UNCHANGED <<device, alive>>
    BY <1>3 DEF AddPush
  <2>2. \A u \in Thread : \A p \in Obj : Holds(u, p)' <=> u # t /\ Holds(u, p)
    BY <1>1, <2>1 DEF Holds
  <2>3. Holds(t, cur[t]) /\ cur[t] \in Obj
    BY <1>1, <2>1 DEF Holds, Ownership
  <2> QED BY <1>1, <2>1, <2>2, <2>3 DEF Ownership, Holds
<1>4. CASE ~AddSpawn(t) /\ ~AddPush(t)
  BY <1>1, <1>4, OwnershipFrame DEF AddCall, AddCheck, AddDefault, AddReserve, AddOpen,
     AddAbort, AddReturn, AfterAdd
<1> QED BY <1>2, <1>3, <1>4

\* RemoveRenderDevice takes an object out of targets_, holds it, and destroys it
\* when its thread has returned.
LEMMA RemoveCallOwnership ==
    ASSUME IInv, NEW t \in Thread, RemoveCall(t) PROVE Ownership'
<1>1. TypeOK /\ Ownership
  BY DEF IInv
<1> USE DEF Goto, At, Obj, NoObj, TypeOK, captureVars, deviceVars, targetVars,
     heapVars, localVars
<1>2. CASE RemoveErase(t) /\ Bridged(arg[t])
  <2>1. PICK o \in targets :
           /\ targets' = targets \ {o}
           /\ cur' = [cur EXCEPT ![t] = o]
           /\ pc' = [pc EXCEPT ![t] = "rmJoin"]
    BY <1>2 DEF RemoveErase, Bridged
  <2>2. pc[t] = "rmErase" /\ UNCHANGED <<device, alive>>
    BY <1>2 DEF RemoveErase
  <2>3. \A u \in Thread : \A p \in Obj :
           Holds(u, p)' <=> IF u = t THEN p = o ELSE Holds(u, p)
    BY <1>1, <2>1, <2>2 DEF Holds
  <2>4. \A u \in Thread : ~Holds(u, o)
    BY <1>1, <2>1 DEF Ownership, Holds
  <2>6. \A u \in Thread : pc'[u] \in {"addPush", "rmJoin"} => cur'[u] \in Obj \ targets'
    BY <1>1, <2>1, <2>2, <2>3, <2>4 DEF Ownership, Holds
  <2>7. \A u \in Thread : pc'[u] \in {"addPush", "rmJoin"} => device'[cur'[u]] # NoDevice
    BY <1>1, <2>1, <2>2, <2>3, <2>4 DEF Ownership, Holds
  <2>8. \A u, v \in Thread : \A p \in Obj : Holds(u, p)' /\ Holds(v, p)' => u = v
    BY <1>1, <2>1, <2>2, <2>3, <2>4 DEF Ownership
  <2>9. \A p \in targets' : device'[p] # NoDevice
    BY <1>1, <2>1, <2>2, <2>3, <2>4 DEF Ownership
  <2>10. ASSUME NEW p \in Obj, device'[p] # NoDevice, p \notin targets'
         PROVE  \E u \in Thread : Holds(u, p)'
    <3>1. CASE p = o
      BY <2>3, <3>1
    <3>2. CASE p # o
      <4>1. PICK u \in Thread : Holds(u, p)
        BY <1>1, <2>1, <2>2, <2>10, <3>2 DEF Ownership
      <4>2. u # t
        BY <2>2, <4>1 DEF Holds
      <4> QED BY <2>3, <4>1, <4>2
    <3> QED BY <3>1, <3>2
  <2>11. \A p \in Obj : alive'[p] => device'[p] # NoDevice
    BY <1>1, <2>1, <2>2, <2>3, <2>4 DEF Ownership
  <2> QED BY <2>6, <2>7, <2>8, <2>9, <2>10, <2>11 DEF Ownership
<1>3. CASE RemoveJoin(t)
  <2>1. /\ pc[t] = "rmJoin" /\ pc' = [pc EXCEPT ![t] = AfterRemove(t)]
        /\ device' = [device EXCEPT ![cur[t]] = NoDevice]
        /\ cur' = [cur EXCEPT ![t] = NoObj]
        /\ ~alive[cur[t]] /\ UNCHANGED <<targets, alive>>
    BY <1>3 DEF RemoveJoin
  <2>2. \A u \in Thread : \A p \in Obj : Holds(u, p)' <=> u # t /\ Holds(u, p)
    BY <1>1, <2>1 DEF Holds, AfterRemove
  <2>3. Holds(t, cur[t]) /\ cur[t] \in Obj /\ cur[t] \notin targets
    BY <1>1, <2>1 DEF Holds, Ownership
  <2>4. \A u \in Thread : u # t => ~Holds(u, cur[t])
    BY <1>1, <2>3 DEF Ownership
  <2>5. \A u \in Thread : pc'[u] \in {"addPush", "rmJoin"} =>
           /\ u # t /\ cur'[u] = cur[u] /\ Holds(u, cur[u])
           /\ cur[u] \in Obj \ targets /\ device[cur[u]] # NoDevice
    BY <1>1, <2>1 DEF Ownership, Holds, AfterRemove
  <2>6. \A u \in Thread : pc'[u] \in {"addPush", "rmJoin"} => cur'[u] \in Obj \ targets'
    BY <2>1, <2>5
  <2>7. \A u \in Thread : pc'[u] \in {"addPush", "rmJoin"} => device'[cur'[u]] # NoDevice
    <3> SUFFICES ASSUME NEW u \in Thread, pc'[u] \in {"addPush", "rmJoin"}
                 PROVE  device'[cur[u]] # NoDevice
      BY <2>5
    <3>1. cur[u] # cur[t]
      BY <2>4, <2>5
    <3> QED BY <1>1, <2>1, <2>5, <3>1
  <2>8. \A u, v \in Thread : \A p \in Obj : Holds(u, p)' /\ Holds(v, p)' => u = v
    BY <1>1, <2>1, <2>2, <2>3, <2>4 DEF Ownership
  <2>9. \A p \in targets' : device'[p] # NoDevice
    BY <1>1, <2>1, <2>2, <2>3, <2>4 DEF Ownership
  <2>10. ASSUME NEW p \in Obj, device'[p] # NoDevice, p \notin targets'
         PROVE  \E u \in Thread : Holds(u, p)'
    <3>1. p # cur[t]
      BY <1>1, <2>1, <2>10
    <3>2. PICK u \in Thread : Holds(u, p)
      BY <1>1, <2>1, <2>10, <3>1 DEF Ownership
    <3>3. u # t
      BY <3>1, <3>2 DEF Holds
    <3> QED BY <2>2, <3>2, <3>3
  <2>11. \A p \in Obj : alive'[p] => device'[p] # NoDevice
    BY <1>1, <2>1, <2>2, <2>3, <2>4 DEF Ownership
  <2> QED BY <2>6, <2>7, <2>8, <2>9, <2>10, <2>11 DEF Ownership
<1>4. CASE RemoveErase(t) /\ ~Bridged(arg[t])
  BY <1>1, <1>4, OwnershipFrame DEF RemoveErase, AfterRemove, Bridged
<1> QED BY <1>2, <1>3, <1>4 DEF RemoveCall

LEMMA NextOwnership == ASSUME IInv, Next PROVE Ownership'
<1>1. TypeOK /\ Ownership
  BY DEF IInv
<1> DEFINE Frame == /\ targets' = targets /\ device' = device
                    /\ \A u \in Thread : pc'[u] \in {"addPush", "rmJoin"} <=>
                                         pc[u] \in {"addPush", "rmJoin"}
                    /\ \A u \in Thread : pc[u] \in {"addPush", "rmJoin"} =>
                                         cur'[u] = cur[u]
                    /\ \A o \in Obj : alive'[o] => alive[o]
<1>2. Frame => Ownership'
  BY <1>1, OwnershipFrame
<1> USE <1>1 DEF TypeOK, Goto, At, Thread, captureVars, deviceVars, targetVars,
     heapVars, localVars
<1>3. ASSUME NEW t \in Thread, t # "cap", CheckCall(t) PROVE Frame
  BY <1>3 DEF CheckCall, CheckDefault, CheckOld, CheckTarget, CheckUnwant,
     CheckBridge, CheckWant, CheckTrack, AfterCheck
<1>4. ASSUME NoticeStep PROVE Frame
  BY <1>4 DEF NoticeStep, NoticeBegin, NoticeRunning, NoticeRestart, ClearCall
<1>5. ASSUME CommandStep PROVE Frame
  BY <1>5 DEF CommandStep, Issue, Command, AddCommand, RemoveCommand, StartCommand,
     StopCommand, WantAdded, UnwantRemoved, Reply, ClearCall
<1>6. ASSUME StartStep PROVE Frame
  <2>1. StartRun => pc["cap"] = "off"
    BY NoThreadAtStart
  <2> QED BY <1>6, <2>1 DEF StartStep, StartJoin, StartRecord, StartRun
<1>7. ASSUME StopStep, ~StopClear PROVE Frame
  BY <1>7 DEF StopStep, StopFlags, StopRestart, StopJoin, StopReset, StopLock,
     StopTarget, StopWait
<1>8. ASSUME StopClear PROVE Ownership'
  <2>1. /\ pc["ctl"] = "stopTargets" /\ pc' = [pc EXCEPT !["ctl"] = "reply"]
        /\ toJoin = {} /\ targets' = {} /\ UNCHANGED <<alive, cur>>
        /\ device' = [o \in Obj |-> IF o \in targets THEN NoDevice ELSE device[o]]
    BY <1>8 DEF StopClear
  <2>2. \A o \in targets : ~alive[o]
    BY <2>1 DEF IInv, StopJoins
  <2>3. \A u \in Thread : \A p \in Obj : Holds(u, p)' <=> Holds(u, p)
    BY <2>1 DEF Holds
  <2> QED BY <2>1, <2>2, <2>3 DEF Ownership
<1>9. ASSUME SessionStep PROVE Frame
  BY <1>9 DEF SessionStep, CapInit, CapTop, CapOpen, CapPublish, CapReinit, CapStart,
     CapLeave, CapBreak, CapEnd, CapClose, CallForEach, LoopDone
<1>10. ASSUME RestartStep PROVE Frame
  BY <1>10 DEF RestartStep, CapDecide, CapCollect, CapTeardown, CapPark, CallForEach,
     LoopDone
<1>11. ASSUME NEW o \in Obj, RenderStop(o) \/ RenderFail(o) PROVE Frame
  BY <1>11 DEF RenderStop, RenderFail, RenderExit
<1>12. ASSUME Outside PROVE Frame
  BY <1>12 DEF Outside
<1> QED BY <1>2, <1>3, <1>4, <1>5, <1>6, <1>7, <1>8, <1>9, <1>10, <1>11, <1>12,
           NextGroups, AddCallOwnership, RemoveCallOwnership

\* While Stop holds targets_mutex_ nobody else touches targets_ or what Stop
\* keeps of it, and a render thread that has returned stays so.
LEMMA NextStopJoins == ASSUME IInv, Next PROVE StopJoins'
<1>1. TypeOK /\ Ownership /\ StopJoins
  BY DEF IInv
<1> DEFINE Joining == pc["ctl"] \in {"stopTargets", "stopWait"}
           Frame == /\ pc'["ctl"] = pc["ctl"] \/ ~Joining'
                    /\ Joining => /\ targets' = targets /\ toJoin' = toJoin
                                  /\ cur'["ctl"] = cur["ctl"]
                                  /\ \A o \in targets : alive'[o] => alive[o]
<1>2. Frame => StopJoins'
  BY <1>1 DEF StopJoins
<1> USE <1>1 DEF TypeOK, Goto, At, Thread, Unlocked, captureVars, deviceVars, targetVars,
     heapVars, localVars
<1>3. ASSUME NEW t \in Thread, AddCall(t) PROVE Frame
  BY <1>3 DEF AddCall, AddCheck, AddDefault, AddReserve, AddOpen, AddAbort, AddSpawn,
     AddPush, AddReturn, AfterAdd, Ownership
<1>4. ASSUME NEW t \in Thread, RemoveCall(t) PROVE Frame
  BY <1>4 DEF RemoveCall, RemoveErase, RemoveJoin, AfterRemove
<1>5. ASSUME NEW t \in Thread, t # "cap", CheckCall(t) PROVE Frame
  BY <1>5 DEF CheckCall, CheckDefault, CheckOld, CheckTarget, CheckUnwant,
     CheckBridge, CheckWant, CheckTrack, AfterCheck
<1>6. ASSUME NoticeStep PROVE Frame
  BY <1>6 DEF NoticeStep, NoticeBegin, NoticeRunning, NoticeRestart, ClearCall
<1>7. ASSUME CommandStep PROVE Frame
  BY <1>7 DEF CommandStep, Issue, Command, AddCommand, RemoveCommand, StartCommand,
     StopCommand, WantAdded, UnwantRemoved, Reply, ClearCall
<1>8. ASSUME StartStep PROVE Frame
  BY <1>8 DEF StartStep, StartJoin, StartRecord, StartRun
<1>9. ASSUME StopStep PROVE StopJoins'
  <2>1. ASSUME StopFlags \/ StopRestart \/ StopJoin \/ StopReset \/ StopClear
        PROVE  ~Joining'
    BY <2>1 DEF StopFlags, StopRestart, StopJoin, StopReset, StopClear
  <2>2. ASSUME StopLock PROVE StopJoins'
    BY <2>2 DEF StopLock, StopJoins
  <2>3. ASSUME StopTarget PROVE StopJoins'
    BY <2>3 DEF StopTarget, StopJoins
  <2>4. ASSUME StopWait PROVE StopJoins'
    BY <2>4 DEF StopWait, StopJoins
  <2> QED BY <1>9, <2>1, <2>2, <2>3, <2>4 DEF StopStep, StopJoins
<1>10. ASSUME SessionStep PROVE Frame
  BY <1>10 DEF SessionStep, CapInit, CapTop, CapOpen, CapPublish, CapReinit, CapStart,
     CapLeave, CapBreak, CapEnd, CapClose, CallForEach, LoopDone
<1>11. ASSUME RestartStep PROVE Frame
  BY <1>11 DEF RestartStep, CapDecide, CapCollect, CapTeardown, CapPark, CallForEach,
     LoopDone
<1>12. ASSUME NEW o \in Obj, RenderStop(o) \/ RenderFail(o) PROVE Frame
  BY <1>12 DEF RenderStop, RenderFail, RenderExit
<1>13. ASSUME Outside PROVE Frame
  BY <1>13 DEF Outside
<1> QED BY <1>2, <1>3, <1>4, <1>5, <1>6, <1>7, <1>8, <1>9, <1>10, <1>11, <1>12, <1>13,
           NextGroups

\* Only AddPush adds a target, and to a device that has none; no step changes
\* the device of a target that stays.
LEMMA NextNoDuplicates == ASSUME IInv, Next PROVE NoDuplicateTargets'
<1>1. TypeOK /\ Ownership /\ ReservedIsFree /\ NoDuplicateTargets
  BY DEF IInv
<1> DEFINE Frame == /\ targets' \subseteq targets
                    /\ \A o \in targets' : device'[o] = device[o]
<1>2. Frame => NoDuplicateTargets'
  BY <1>1 DEF NoDuplicateTargets
<1> USE <1>1 DEF TypeOK, Goto, captureVars, deviceVars, targetVars, heapVars, localVars
<1>3. ASSUME NEW t \in Thread, AddCall(t), ~AddPush(t) PROVE Frame
  BY <1>3 DEF AddCall, AddCheck, AddDefault, AddReserve, AddOpen, AddAbort, AddSpawn,
     AddReturn, Ownership
<1>4. ASSUME NEW t \in Thread, AddPush(t) PROVE NoDuplicateTargets'
  <2>1. pc[t] = "addPush" /\ targets' = targets \cup {cur[t]} /\ device' = device
    BY <1>4 DEF AddPush, At
  <2>2. device[cur[t]] = arg[t] /\ \A o \in targets : device[o] # arg[t]
    BY <2>1 DEF ReservedIsFree, Bridged
  <2> QED BY <2>1, <2>2 DEF NoDuplicateTargets
<1>5. ASSUME NEW t \in Thread, RemoveCall(t) PROVE Frame
  BY <1>5 DEF RemoveCall, RemoveErase, RemoveJoin, Ownership, At
<1>6. ASSUME NEW t \in Thread, t # "cap", CheckCall(t) PROVE Frame
  BY <1>6 DEF CheckCall, CheckDefault, CheckOld, CheckTarget, CheckUnwant,
     CheckBridge, CheckWant, CheckTrack
<1>7. ASSUME NoticeStep \/ CommandStep \/ StartStep PROVE Frame
  BY <1>7 DEF NoticeStep, NoticeBegin, NoticeRunning, NoticeRestart,
     CommandStep, Issue, Command, AddCommand, RemoveCommand, StartCommand,
     StopCommand, WantAdded, UnwantRemoved, Reply, StartStep, StartJoin, StartRecord,
     StartRun
<1>8. ASSUME StopStep PROVE Frame
  BY <1>8 DEF StopStep, StopFlags, StopRestart, StopJoin, StopReset, StopLock,
     StopTarget, StopWait, StopClear
<1>9. ASSUME SessionStep \/ RestartStep PROVE Frame
  BY <1>9 DEF SessionStep, CapInit, CapTop, CapOpen, CapPublish, CapReinit, CapStart,
     CapLeave, CapBreak, CapEnd, CapClose, RestartStep, CapDecide, CapCollect,
     CapTeardown, CapPark
<1>10. ASSUME NEW o \in Obj, RenderStop(o) \/ RenderFail(o) PROVE Frame
  BY <1>10 DEF RenderStop, RenderFail, RenderExit
<1>11. ASSUME Outside PROVE Frame
  BY <1>11 DEF Outside
<1> QED BY <1>2, <1>3, <1>4, <1>5, <1>6, <1>7, <1>8, <1>9, <1>10, <1>11, NextGroups

\* A device is reserved only when it has no target, and the one call that adds a
\* target of a device is the call that reserved it.
LEMMA NextReservedIsFree == ASSUME IInv, Next PROVE ReservedIsFree'
<1>1. TypeOK /\ IdsGiven /\ Ownership /\ ReservationsMatch /\ ReservedIsFree
  BY DEF IInv
<1> USE <1>1 DEF TypeOK, ReservedIsFree, Bridged, Goto, At, Thread,
     captureVars, deviceVars, targetVars, heapVars, checkVars, capVars,
     localVars
<1>2. ASSUME NEW t \in Thread, AddCall(t) PROVE ReservedIsFree'
  BY <1>2, DeviceAssumption DEF AddCall, AddCheck, AddDefault, AddReserve, AddOpen,
     AddAbort, AddSpawn, AddPush, AddReturn, AfterAdd, AddLabels, IdsGiven, Ownership, Holds,
     ReservationsMatch, Reserving
<1>3. ASSUME NEW t \in Thread, RemoveCall(t) PROVE ReservedIsFree'
  BY <1>3 DEF RemoveCall, RemoveErase, RemoveJoin, AfterRemove, Ownership, Holds
<1>4. ASSUME NEW t \in Thread, t # "cap", CheckCall(t) PROVE ReservedIsFree'
  BY <1>4 DEF CheckCall, CheckDefault, CheckOld, CheckTarget, CheckUnwant,
     CheckBridge, CheckWant, CheckTrack, AfterCheck
<1>5. ASSUME NoticeStep PROVE ReservedIsFree'
  BY <1>5 DEF NoticeStep, NoticeBegin, NoticeRunning, NoticeRestart, ClearCall
<1>6. ASSUME CommandStep PROVE ReservedIsFree'
  BY <1>6 DEF CommandStep, Issue, Command, AddCommand, RemoveCommand,
     StartCommand, StopCommand, WantAdded, UnwantRemoved, Reply, ClearCall
<1>7. ASSUME StartStep PROVE ReservedIsFree'
  <2>1. StartRun => pc["cap"] = "off"
    BY NoThreadAtStart
  <2> QED BY <1>7, <2>1 DEF StartStep, StartJoin, StartRecord, StartRun
<1>8. ASSUME StopStep PROVE ReservedIsFree'
  BY <1>8 DEF StopStep, StopFlags, StopRestart, StopJoin, StopReset, StopLock,
     StopTarget, StopWait, StopClear, Ownership
<1>9. ASSUME SessionStep PROVE ReservedIsFree'
  BY <1>9 DEF SessionStep, CapInit, CapTop, CapOpen, CapPublish, CapReinit,
     CapStart, CapLeave, CapBreak, CapEnd, CapClose, CallForEach, LoopDone
<1>10. ASSUME RestartStep PROVE ReservedIsFree'
  BY <1>10 DEF RestartStep, CapDecide, CapCollect, CapTeardown, CapPark,
     CallForEach, LoopDone
<1>11. ASSUME NEW o \in Obj, RenderStop(o) \/ RenderFail(o) PROVE ReservedIsFree'
  BY <1>11 DEF RenderStop, RenderFail, RenderExit
<1>12. ASSUME Outside PROVE ReservedIsFree'
  BY <1>12 DEF Outside
<1> QED BY <1>2, <1>3, <1>4, <1>5, <1>6, <1>7, <1>8, <1>9, <1>10, <1>11, <1>12,
           NextGroups


(***************************************************************************)
(* Ids, commands and the capture thread                                    *)
(***************************************************************************)

\* Each id handed to a call was compared with the empty id, came from a command or
\* from a set of ids of devices.
LEMMA NextIdsGiven == ASSUME IInv, Next PROVE IdsGiven'
<1>1. TypeOK /\ IdsGiven /\ Ownership /\ Protocol
  BY DEF IInv
<1> USE <1>1 DEF TypeOK, DeviceTypeOK, DeviceId, IdsGiven, InCheck, AddLabels,
     RemoveLabels, CheckLabels, Goto, At, Thread, captureVars, deviceVars,
     targetVars, heapVars, checkVars, capVars, localVars
<1>2. ASSUME NEW t \in Thread, AddCall(t) PROVE IdsGiven'
  BY <1>2 DEF AddCall, AddCheck, AddDefault, AddReserve, AddOpen, AddAbort,
     AddSpawn, AddPush, AddReturn, AfterAdd
<1>3. ASSUME NEW t \in Thread, RemoveCall(t) PROVE IdsGiven'
  BY <1>3 DEF RemoveCall, RemoveErase, RemoveJoin, AfterRemove
<1>4. ASSUME NEW t \in Thread, t # "cap", CheckCall(t) PROVE IdsGiven'
  BY <1>4 DEF CheckCall, CheckDefault, CheckOld, CheckTarget, CheckUnwant,
     CheckBridge, CheckWant, CheckTrack, AfterCheck, Protocol
<1>5. ASSUME NoticeStep PROVE IdsGiven'
  BY <1>5 DEF NoticeStep, NoticeBegin, NoticeRunning, NoticeRestart, ClearCall
<1>6. ASSUME CommandStep PROVE IdsGiven'
  BY <1>6 DEF CommandStep, Issue, Command, AddCommand, RemoveCommand,
     StartCommand, StopCommand, WantAdded, UnwantRemoved, Reply, ClearCall
<1>7. ASSUME StartStep PROVE IdsGiven'
  BY <1>7 DEF StartStep, StartJoin, StartRecord, StartRun
<1>8. ASSUME StopStep PROVE IdsGiven'
  BY <1>8 DEF StopStep, StopFlags, StopRestart, StopJoin, StopReset, StopLock,
     StopTarget, StopWait, StopClear
<1>9. ASSUME SessionStep PROVE IdsGiven'
  BY <1>9 DEF SessionStep, CapInit, CapTop, CapOpen, CapPublish, CapReinit,
     CapStart, CapLeave, CapBreak, CapEnd, CapClose, CallForEach, LoopDone
<1>10. ASSUME RestartStep PROVE IdsGiven'
  BY <1>10 DEF RestartStep, CapDecide, CapCollect, CapTeardown, CapPark,
     CallForEach, LoopDone
<1>11. ASSUME NEW o \in Obj, RenderStop(o) \/ RenderFail(o) PROVE IdsGiven'
  BY <1>11 DEF RenderStop, RenderFail, RenderExit
<1>12. ASSUME Outside PROVE IdsGiven'
  BY <1>12 DEF Outside
<1> QED BY <1>2, <1>3, <1>4, <1>5, <1>6, <1>7, <1>8, <1>9, <1>10, <1>11, <1>12,
           NextGroups

\* Start and Stop join the capture thread before they forget it, and only the
\* calls of a command touch what the command relies on.
LEMMA NextProtocol == ASSUME IInv, Next PROVE Protocol'
<1>1. TypeOK /\ Protocol
  BY DEF IInv
<1> USE <1>1 DEF TypeOK, Protocol, CallLabels, AddLabels, RemoveLabels,
     CheckLabels, Goto, At, Thread, captureVars, deviceVars, targetVars,
     heapVars, checkVars, capVars, localVars
<1>2. ASSUME NEW t \in Thread, AddCall(t) PROVE Protocol'
  BY <1>2 DEF AddCall, AddCheck, AddDefault, AddReserve, AddOpen, AddAbort,
     AddSpawn, AddPush, AddReturn, AfterAdd
<1>3. ASSUME NEW t \in Thread, RemoveCall(t) PROVE Protocol'
  BY <1>3 DEF RemoveCall, RemoveErase, RemoveJoin, AfterRemove
<1>4. ASSUME NEW t \in Thread, t # "cap", CheckCall(t) PROVE Protocol'
  BY <1>4 DEF CheckCall, CheckDefault, CheckOld, CheckTarget, CheckUnwant,
     CheckBridge, CheckWant, CheckTrack, AfterCheck
<1>5. ASSUME NoticeStep PROVE Protocol'
  BY <1>5 DEF NoticeStep, NoticeBegin, NoticeRunning, NoticeRestart, ClearCall
<1>6. ASSUME CommandStep PROVE Protocol'
  BY <1>6 DEF CommandStep, Issue, Command, AddCommand, RemoveCommand,
     StartCommand, StopCommand, WantAdded, UnwantRemoved, Reply, ClearCall
<1>7. ASSUME StartStep PROVE Protocol'
  <2>1. ASSUME StartJoin PROVE Protocol'
    <3>1. pc["cap"] = "off" /\ ~joinable'
      BY <2>1 DEF StartJoin
    <3>2. pc' = [pc EXCEPT !["ctl"] = "startRecord"] /\ command' = command
      BY <2>1 DEF StartJoin
    <3> QED BY <2>1, <3>1, <3>2 DEF StartJoin
  <2>2. ASSUME StartRecord PROVE Protocol'
    BY <2>2 DEF StartRecord
  <2>3. ASSUME StartRun PROVE Protocol'
    BY <2>3 DEF StartRun
  <2> QED BY <1>7, <2>1, <2>2, <2>3 DEF StartStep
<1>8. ASSUME StopStep PROVE Protocol'
  BY <1>8 DEF StopStep, StopFlags, StopRestart, StopJoin, StopReset, StopLock,
     StopTarget, StopWait, StopClear
<1>9. ASSUME SessionStep PROVE Protocol'
  BY <1>9 DEF SessionStep, CapInit, CapTop, CapOpen, CapPublish, CapReinit,
     CapStart, CapLeave, CapBreak, CapEnd, CapClose, CallForEach, LoopDone
<1>10. ASSUME RestartStep PROVE Protocol'
  BY <1>10 DEF RestartStep, CapDecide, CapCollect, CapTeardown, CapPark,
     CallForEach, LoopDone
<1>11. ASSUME NEW o \in Obj, RenderStop(o) \/ RenderFail(o) PROVE Protocol'
  BY <1>11 DEF RenderStop, RenderFail, RenderExit
<1>12. ASSUME Outside PROVE Protocol'
  BY <1>12 DEF Outside
<1> QED BY <1>2, <1>3, <1>4, <1>5, <1>6, <1>7, <1>8, <1>9, <1>10, <1>11, <1>12,
           NextGroups

\* The ids parked by a restart are taken over when the next session opens.
LEMMA NextParked == ASSUME IInv, Next PROVE Parked'
<1>1. TypeOK /\ Parked
  BY DEF IInv
<1> USE <1>1 DEF TypeOK, Parked, Goto, At, Thread, captureVars, deviceVars,
     targetVars, heapVars, checkVars, capVars, localVars
<1>2. ASSUME NEW t \in Thread, AddCall(t) PROVE Parked'
  BY <1>2 DEF AddCall, AddCheck, AddDefault, AddReserve, AddOpen, AddAbort,
     AddSpawn, AddPush, AddReturn, AfterAdd
<1>3. ASSUME NEW t \in Thread, RemoveCall(t) PROVE Parked'
  BY <1>3 DEF RemoveCall, RemoveErase, RemoveJoin, AfterRemove
<1>4. ASSUME NEW t \in Thread, t # "cap", CheckCall(t) PROVE Parked'
  BY <1>4 DEF CheckCall, CheckDefault, CheckOld, CheckTarget, CheckUnwant,
     CheckBridge, CheckWant, CheckTrack, AfterCheck
<1>5. ASSUME NoticeStep PROVE Parked'
  BY <1>5 DEF NoticeStep, NoticeBegin, NoticeRunning, NoticeRestart, ClearCall
<1>6. ASSUME CommandStep PROVE Parked'
  BY <1>6 DEF CommandStep, Issue, Command, AddCommand, RemoveCommand,
     StartCommand, StopCommand, WantAdded, UnwantRemoved, Reply, ClearCall
<1>7. ASSUME StartStep PROVE Parked'
  BY <1>7 DEF StartStep, StartJoin, StartRecord, StartRun
<1>8. ASSUME StopStep PROVE Parked'
  BY <1>8 DEF StopStep, StopFlags, StopRestart, StopJoin, StopReset, StopLock,
     StopTarget, StopWait, StopClear
<1>9. ASSUME SessionStep PROVE Parked'
  BY <1>9 DEF SessionStep, CapInit, CapTop, CapOpen, CapPublish, CapReinit,
     CapStart, CapLeave, CapBreak, CapEnd, CapClose, CallForEach, LoopDone
<1>10. ASSUME RestartStep PROVE Parked'
  BY <1>10 DEF RestartStep, CapDecide, CapCollect, CapTeardown, CapPark,
     CallForEach, LoopDone
<1>11. ASSUME NEW o \in Obj, RenderStop(o) \/ RenderFail(o) PROVE Parked'
  BY <1>11 DEF RenderStop, RenderFail, RenderExit
<1>12. ASSUME Outside PROVE Parked'
  BY <1>12 DEF Outside
<1> QED BY <1>2, <1>3, <1>4, <1>5, <1>6, <1>7, <1>8, <1>9, <1>10, <1>11, <1>12,
           NextGroups

\* A notice is owed from the moment the default changes, the callback runs until it
\* has requested a restart, and the request is cleared before a device is opened.
LEMMA NextFollows == ASSUME IInv, Next PROVE Follows'
<1>1. TypeOK /\ Protocol /\ Follows
  BY DEF IInv
<1> USE <1>1 DEF TypeOK, DeviceTypeOK, Follows, SessionLabels, AddLabels,
     RemoveLabels, CheckLabels, Goto, At, Thread, captureVars, deviceVars,
     targetVars, heapVars, checkVars, capVars, localVars
<1>2. ASSUME NEW t \in Thread, AddCall(t) PROVE Follows'
  BY <1>2 DEF AddCall, AddCheck, AddDefault, AddReserve, AddOpen, AddAbort,
     AddSpawn, AddPush, AddReturn, AfterAdd
<1>3. ASSUME NEW t \in Thread, RemoveCall(t) PROVE Follows'
  BY <1>3 DEF RemoveCall, RemoveErase, RemoveJoin, AfterRemove
<1>4. ASSUME NEW t \in Thread, t # "cap", CheckCall(t) PROVE Follows'
  BY <1>4 DEF CheckCall, CheckDefault, CheckOld, CheckTarget, CheckUnwant,
     CheckBridge, CheckWant, CheckTrack, AfterCheck, AddWantedDevice,
     RemoveWantedDevice
<1>5. ASSUME NoticeStep PROVE Follows'
  BY <1>5 DEF NoticeStep, NoticeBegin, NoticeRunning, NoticeRestart, ClearCall, Deliver
<1>6. ASSUME CommandStep PROVE Follows'
  BY <1>6 DEF CommandStep, Issue, Command, AddCommand, RemoveCommand, StartCommand,
     StopCommand, WantAdded, UnwantRemoved, Reply, ClearCall, AddWantedDevice,
     RemoveWantedDevice
<1>7. ASSUME StartStep PROVE Follows'
  BY <1>7, NoThreadAtStart DEF StartStep, StartJoin, StartRecord, StartRun
<1>8. ASSUME StopStep PROVE Follows'
  BY <1>8 DEF StopStep, StopFlags, StopRestart, StopJoin, StopReset, StopLock,
     StopTarget, StopWait, StopClear
<1>9. ASSUME SessionStep PROVE Follows'
  BY <1>9 DEF SessionStep, CapInit, CapTop, CapOpen, CapPublish, CapReinit,
     CapStart, CapLeave, CapBreak, CapEnd, CapClose, CallForEach, LoopDone
<1>10. ASSUME RestartStep PROVE Follows'
  BY <1>10 DEF RestartStep, CapDecide, CapCollect, CapTeardown, CapPark,
     CallForEach, LoopDone
<1>11. ASSUME NEW o \in Obj, RenderStop(o) \/ RenderFail(o) PROVE Follows'
  BY <1>11 DEF RenderStop, RenderFail, RenderExit
<1>12. ASSUME Outside PROVE Follows'
  BY <1>12 DEF Outside, Environment, RoleNotice, SwitchDefault, Unplug, Plug, Happens,
     Notify
<1> QED BY <1>2, <1>3, <1>4, <1>5, <1>6, <1>7, <1>8, <1>9, <1>10, <1>11, <1>12,
           NextGroups

(***************************************************************************)
(* The theorems                                                            *)
(***************************************************************************)

LEMMA NextIInv == IInv /\ [Next]_vars => IInv'
<1>1. ASSUME IInv, Next PROVE IInv'
  <2>1. TypeOK'
    BY <1>1, NextGroups, AddCallTypes, RemoveCallTypes, CheckCallTypes, NoticeTypes,
       CommandTypes, StartTypes, StopTypes, SessionTypes, RestartTypes, RenderTypes,
       OutsideTypes
  <2> QED BY <1>1, <2>1, NextIdsGiven, NextOwnership, NextStopJoins, NextReservations,
             NextReservedIsFree, NextNoDuplicates, NextProtocol, NextParked, NextFollows
         DEF IInv
<1>2. ASSUME IInv, UNCHANGED vars PROVE IInv'
  <2> USE <1>2 DEF IInv, vars, deviceVars, captureVars, targetVars, heapVars, checkVars,
       capVars, localVars
  <2>1. TypeOK' /\ Protocol' /\ Parked' /\ Follows'
    BY DEF TypeOK, DeviceTypeOK, Protocol, Parked, Follows
  <2>2. IdsGiven' /\ StopJoins'
    BY DEF IdsGiven, InCheck, StopJoins
  <2>3. Ownership'
    BY DEF Ownership, Holds
  <2>4. ReservationsMatch' /\ ReservedIsFree' /\ NoDuplicateTargets'
    BY DEF ReservationsMatch, Reserving, ReservedIsFree, Bridged, NoDuplicateTargets
  <2> QED BY <2>1, <2>2, <2>3, <2>4
<1> QED BY <1>1, <1>2

\* Every state the engine reaches satisfies the inductive invariant.
THEOREM Invariance == Spec => []IInv
BY InitIInv, NextIInv, PTL DEF Spec

\* The variables keep their types whatever the devices do, whichever calls fail and
\* however many targets there are.
THEOREM TypeCorrect == Spec => []TypeOK
<1>1. IInv => TypeOK
  BY DEF IInv
<1> QED BY <1>1, Invariance, PTL

\* pending_ids_ holds exactly the devices being set up, each by one call: the guard
\* of AddRenderDevice (audio_engine.cpp:142-145) leaks and steals no reservation.
THEOREM ReservationsKept == Spec => []ReservationsMatch
<1>1. IInv => ReservationsMatch
  BY DEF IInv
<1> QED BY <1>1, Invariance, PTL

\* However the pipe, notification and capture threads interleave their calls of
\* AddRenderDevice, no device has two render targets (audio_engine.h:91-94).
THEOREM OneTargetPerDevice == Spec => []NoDuplicateTargets
<1>1. IInv => NoDuplicateTargets
  BY DEF IInv
<1> QED BY <1>1, Invariance, PTL

\* A RenderTarget whose thread runs exists and has exactly one owner to join it:
\* no render thread outlives its object (audio_engine.cpp:292-293).
THEOREM ThreadsJoined == Spec => []JoinedBeforeDestroyed
<1>1. IInv => JoinedBeforeDestroyed
  <2> SUFFICES ASSUME IInv, NEW o \in Obj, alive[o]
               PROVE  /\ device[o] # NoDevice
                      /\ o \in targets <=> \A t \in Thread : ~Holds(t, o)
                      /\ \A t, u \in Thread : Holds(t, o) /\ Holds(u, o) => t = u
    BY DEF JoinedBeforeDestroyed
  <2>1. device[o] # NoDevice
    BY DEF IInv, Ownership
  <2>2. o \in targets => \A t \in Thread : ~Holds(t, o)
    BY DEF IInv, Ownership, Holds
  <2>3. o \notin targets => \E t \in Thread : Holds(t, o)
    BY <2>1 DEF IInv, Ownership
  <2>4. \A t, u \in Thread : Holds(t, o) /\ Holds(u, o) => t = u
    BY DEF IInv, Ownership
  <2> QED BY <2>1, <2>2, <2>3, <2>4
<1> QED BY <1>1, Invariance, PTL

\* Start never assigns to a joinable std::thread and a capture thread that has not
\* returned can be joined (audio_engine.cpp:51-53).
THEOREM NeverTerminates == Spec => []NoTerminate
<1>1. IInv => NoTerminate
  BY DEF IInv, Protocol, NoTerminate, At
<1> QED BY <1>1, Invariance, PTL

\* A restart never overwrites ids that an earlier restart parked and no session
\* has taken over (audio_engine.cpp:654-668).
THEOREM ParkedIdsKept == Spec => []NothingParkedLost
<1>1. IInv => NothingParkedLost
  BY DEF IInv, Parked, NothingParkedLost, At
<1> QED BY <1>1, Invariance, PTL

\* No change of the default device is lost: when every notice has been handled and no
\* restart is due, a running bridge captures from the device that is the default
\* (main.cpp:59-72, audio_engine.cpp:426, 564, 647).
THEOREM SessionFollowsDefault == Spec => []CaptureFollowsDefault
<1>1. IInv => CaptureFollowsDefault
  BY DEF IInv, Follows, SessionLabels, CaptureFollowsDefault, Settled, At
<1> QED BY <1>1, Invariance, PTL

(***************************************************************************)
(* No feedback                                                             *)
(*                                                                         *)
(* A target on the default device is a danger for as long as nothing looks *)
(* for it.  NoFeedback is owed by a bridge that is only started, stopped   *)
(* and has devices removed, while the calls succeed (Quiet).               *)
(***************************************************************************)

Quiet == ~Failures /\ "add" \notin Commands

\* A callback is still to look for a target on the default device.
Covered == notes > 0 \/ pc["ntf"] \in {"ckDefault", "ckOld", "ckTarget", "rmErase"}

\* A change of the default is to be delivered, being handled, or has requested a
\* restart, which removes all targets and adds none on the default.
Alert == notes > 0 \/ pc["ntf"] # "idle" \/ restartCapture

\* The capture thread is past its check for the default device.
Adding(d) == /\ pc["cap"] \in {"addReserve", "addOpen", "addSpawn", "addPush"}
             /\ arg["cap"] = d

\* The callback knows the default device, or another callback will come, and adds
\* none but the former one.
NoticeKnows ==
    /\ pc["ntf"] \in AddLabels \cup {"ckOld", "ckTarget", "rmErase", "rmJoin",
                                     "unwantNew", "ckBridge"} =>
          newDefault["ntf"] = default \/ notes > 0
    /\ pc["ntf"] = "rmErase" => arg["ntf"] = newDefault["ntf"]
    /\ pc["ntf"] \in AddLabels => arg["ntf"] # newDefault["ntf"]

\* Start looks for a target on the default device, and adds none.
StartLooks ==
    /\ pc["ctl"] \notin AddLabels \cup {"wantOld"}
    /\ pc["ctl"] = "rmErase" /\ command = "start" => arg["ctl"] = newDefault["ctl"]
    /\ pc["ctl"] \in {"ckOld", "ckTarget", "rmErase"} /\ command = "start" =>
          (Bridged(default) => newDefault["ctl"] = default \/ Covered)
    /\ pc["ctl"] \in {"rmJoin", "unwantNew", "ckBridge", "track", "startRun"}
       /\ command = "start" =>
          (Bridged(default) => Covered)

\* No session of a running bridge begins with a target on the default device that
\* nothing looks for, and none is added in it without a restart to come.
SessionLooks ==
    captureRunning =>
       /\ pc["cap"] \in {"capInit", "capTop", "capOpen", "capPublish", "capPark"} =>
             (Bridged(default) => Covered)
       /\ pc["cap"] \in {"capTeardown", "rmErase", "rmJoin"} =>
             (Bridged(default) => \/ Covered \/ default \in todo
                                  \/ pc["cap"] = "rmErase" /\ arg["cap"] = default)
       /\ pc["cap"] \in AddLabels \cup {"capReinit", "capStart", "capLoop"} =>
             (Bridged(default) \/ Adding(default) => Alert)
       /\ pc["cap"] = "capClosed" => restartCapture

FeedbackInv == IInv /\ NoticeKnows /\ StartLooks /\ SessionLooks

\* The callback reads the default after its notice was taken, and a later change
\* is a notice of its own.
LEMMA NextNoticeKnows == ASSUME FeedbackInv, Next PROVE NoticeKnows'
<1>1. TypeOK /\ NoticeKnows
  BY DEF FeedbackInv, IInv
<1> USE <1>1 DEF TypeOK, DeviceTypeOK, NoticeKnows, AddLabels, RemoveLabels, CheckLabels,
     Goto, At, Thread, captureVars, deviceVars, targetVars, heapVars, checkVars, capVars,
     localVars
<1>2. ASSUME NEW t \in Thread, AddCall(t) PROVE NoticeKnows'
  BY <1>2 DEF AddCall, AddCheck, AddDefault, AddReserve, AddOpen, AddAbort,
     AddSpawn, AddPush, AddReturn, AfterAdd
<1>3. ASSUME NEW t \in Thread, RemoveCall(t) PROVE NoticeKnows'
  BY <1>3 DEF RemoveCall, RemoveErase, RemoveJoin, AfterRemove
<1>4. ASSUME NEW t \in Thread, t # "cap", CheckCall(t) PROVE NoticeKnows'
  BY <1>4 DEF CheckCall, CheckDefault, CheckOld, CheckTarget, CheckUnwant,
     CheckBridge, CheckWant, CheckTrack, AfterCheck, AddWantedDevice,
     RemoveWantedDevice, GetDefaultOutputDeviceId
<1>5. ASSUME NoticeStep PROVE NoticeKnows'
  BY <1>5 DEF NoticeStep, NoticeBegin, NoticeRunning, NoticeRestart, ClearCall, Deliver
<1>6. ASSUME CommandStep PROVE NoticeKnows'
  BY <1>6 DEF CommandStep, Issue, Command, AddCommand, RemoveCommand, StartCommand,
     StopCommand, WantAdded, UnwantRemoved, Reply, ClearCall, AddWantedDevice,
     RemoveWantedDevice
<1>7. ASSUME StartStep PROVE NoticeKnows'
  BY <1>7 DEF StartStep, StartJoin, StartRecord, StartRun
<1>8. ASSUME StopStep PROVE NoticeKnows'
  BY <1>8 DEF StopStep, StopFlags, StopRestart, StopJoin, StopReset, StopLock,
     StopTarget, StopWait, StopClear
<1>9. ASSUME SessionStep PROVE NoticeKnows'
  BY <1>9 DEF SessionStep, CapInit, CapTop, CapOpen, CapPublish, CapReinit,
     CapStart, CapLeave, CapBreak, CapEnd, CapClose, CallForEach, LoopDone
<1>10. ASSUME RestartStep PROVE NoticeKnows'
  BY <1>10 DEF RestartStep, CapDecide, CapCollect, CapTeardown, CapPark,
     CallForEach, LoopDone
<1>11. ASSUME NEW o \in Obj, RenderStop(o) \/ RenderFail(o) PROVE NoticeKnows'
  BY <1>11 DEF RenderStop, RenderFail, RenderExit
<1>12. ASSUME Outside PROVE NoticeKnows'
  BY <1>12 DEF Outside, Environment, RoleNotice, SwitchDefault, Unplug, Plug, Happens,
     Notify
<1> QED BY <1>2, <1>3, <1>4, <1>5, <1>6, <1>7, <1>8, <1>9, <1>10, <1>11, <1>12,
           NextGroups

\* A change of the default device comes with a notice.
LEMMA ChangeIsNoticed == ASSUME IInv, Next PROVE default' = default \/ notes' > 0
<1>1. TypeOK
  BY DEF IInv
<1> USE <1>1 DEF TypeOK, DeviceTypeOK, captureVars, deviceVars, targetVars, heapVars,
     checkVars, capVars, localVars
<1>2. ASSUME NEW t \in Thread, AddCall(t) PROVE default' = default
  BY <1>2 DEF AddCall, AddCheck, AddDefault, AddReserve, AddOpen, AddAbort,
     AddSpawn, AddPush, AddReturn
<1>3. ASSUME NEW t \in Thread, RemoveCall(t) PROVE default' = default
  BY <1>3 DEF RemoveCall, RemoveErase, RemoveJoin
<1>4. ASSUME NEW t \in Thread, CheckCall(t) PROVE default' = default
  BY <1>4 DEF CheckCall, CheckDefault, CheckOld, CheckTarget, CheckUnwant,
     CheckBridge, CheckWant, CheckTrack, AddWantedDevice, RemoveWantedDevice
<1>5. NoticeStep => default' = default
  BY DEF NoticeStep, NoticeBegin, NoticeRunning, NoticeRestart, Deliver
<1>6. CommandStep => default' = default
  BY DEF CommandStep, Issue, Command, AddCommand, RemoveCommand, StartCommand,
     StopCommand, WantAdded, UnwantRemoved, Reply, AddWantedDevice, RemoveWantedDevice
<1>7. StartStep => default' = default
  BY DEF StartStep, StartJoin, StartRecord, StartRun
<1>8. StopStep => default' = default
  BY DEF StopStep, StopFlags, StopRestart, StopJoin, StopReset, StopLock, StopTarget,
     StopWait, StopClear
<1>9. SessionStep => default' = default
  BY DEF SessionStep, CapInit, CapTop, CapOpen, CapPublish, CapReinit, CapStart,
     CapLeave, CapBreak, CapEnd, CapClose
<1>10. RestartStep => default' = default
  BY DEF RestartStep, CapDecide, CapCollect, CapTeardown, CapPark
<1>11. ASSUME NEW o \in Obj, RenderStop(o) \/ RenderFail(o) PROVE default' = default
  BY <1>11 DEF RenderStop, RenderFail, RenderExit
<1>12. Outside => default' = default \/ notes' > 0
  BY DEF Outside, Environment, RoleNotice, SwitchDefault, Unplug, Plug, Happens, Notify
<1> QED BY <1>2, <1>3, <1>4, <1>5, <1>6, <1>7, <1>8, <1>9, <1>10, <1>11, <1>12,
           NextGroups

\* A device becomes a target by AddPush and by nothing else.
LEMMA NewTarget ==
    ASSUME IInv, Next, NEW d, Bridged(d)'
    PROVE  Bridged(d) \/ \E t \in Thread : AddPush(t) /\ arg[t] = d
<1>1. TypeOK /\ Ownership /\ ReservedIsFree
  BY DEF IInv
<1>2. PICK o \in targets' : device'[o] = d
  BY DEF Bridged
<1> DEFINE Old == o \in targets /\ device[o] = d
<1>3. Old => Bridged(d)
  BY DEF Bridged
<1> USE DEF captureVars, deviceVars, targetVars, heapVars, checkVars, capVars, localVars
<1>4. ASSUME NEW t \in Thread, AddCall(t) PROVE Old \/ (AddPush(t) /\ arg[t] = d)
  <2>1. CASE AddPush(t)
    BY <1>1, <1>2, <2>1 DEF AddPush, At, ReservedIsFree
  <2>2. CASE AddSpawn(t)
    <3>1. PICK p \in Obj : /\ device[p] = NoDevice
                           /\ device' = [device EXCEPT ![p] = arg[t]]
      BY <2>2 DEF AddSpawn
    <3>2. targets' = targets
      BY <2>2 DEF AddSpawn
    <3> QED BY <1>1, <1>2, <3>1, <3>2 DEF Ownership, TypeOK
  <2>3. CASE ~AddPush(t) /\ ~AddSpawn(t)
    BY <1>2, <1>4, <2>3 DEF AddCall, AddCheck, AddDefault, AddReserve, AddOpen, AddAbort,
       AddReturn
  <2> QED BY <2>1, <2>2, <2>3
<1>5. ASSUME NEW t \in Thread, RemoveCall(t) PROVE Old
  <2>1. CASE RemoveErase(t)
    BY <1>2, <2>1 DEF RemoveErase
  <2>2. CASE RemoveJoin(t)
    BY <1>1, <1>2, <2>2 DEF RemoveJoin, At, Ownership, TypeOK
  <2> QED BY <1>5, <2>1, <2>2 DEF RemoveCall
<1>6. ASSUME NEW t \in Thread, CheckCall(t) PROVE Old
  BY <1>2, <1>6 DEF CheckCall, CheckDefault, CheckOld, CheckTarget, CheckUnwant,
     CheckBridge, CheckWant, CheckTrack
<1>7. NoticeStep => Old
  BY <1>2 DEF NoticeStep, NoticeBegin, NoticeRunning, NoticeRestart
<1>8. CommandStep => Old
  BY <1>2 DEF CommandStep, Issue, Command, AddCommand, RemoveCommand, StartCommand,
     StopCommand, WantAdded, UnwantRemoved, Reply
<1>9. StartStep => Old
  BY <1>2 DEF StartStep, StartJoin, StartRecord, StartRun
<1>10. StopStep => Old
  BY <1>2 DEF StopStep, StopFlags, StopRestart, StopJoin, StopReset, StopLock, StopTarget,
     StopWait, StopClear
<1>11. SessionStep => Old
  BY <1>2 DEF SessionStep, CapInit, CapTop, CapOpen, CapPublish, CapReinit, CapStart,
     CapLeave, CapBreak, CapEnd, CapClose
<1>12. RestartStep => Old
  BY <1>2 DEF RestartStep, CapDecide, CapCollect, CapTeardown, CapPark
<1>13. ASSUME NEW p \in Obj, RenderStop(p) \/ RenderFail(p) PROVE Old
  BY <1>2, <1>13 DEF RenderStop, RenderFail, RenderExit
<1>14. Outside => Old
  BY <1>2 DEF Outside
<1> HIDE DEF Old
<1> QED BY <1>3, <1>4, <1>5, <1>6, <1>7, <1>8, <1>9, <1>10, <1>11, <1>12, <1>13, <1>14,
           NextGroups

\* A removed target was the only one on its device.
LEMMA ErasedIsGone ==
    ASSUME IInv, NEW t \in Thread, RemoveErase(t) PROVE ~Bridged(arg[t])'
<1>1. TypeOK /\ NoDuplicateTargets
  BY DEF IInv
<1>2. UNCHANGED <<device, arg>>
  BY DEF RemoveErase
<1>3. CASE ~Bridged(arg[t])
  <2>1. targets' = targets
    BY <1>3 DEF RemoveErase, Bridged
  <2> QED BY <1>2, <1>3, <2>1 DEF Bridged
<1>4. CASE Bridged(arg[t])
  <2>1. PICK o \in targets : device[o] = arg[t] /\ targets' = targets \ {o}
    BY <1>4 DEF RemoveErase
  <2> QED BY <1>1, <1>2, <2>1 DEF Bridged, NoDuplicateTargets
<1> QED BY <1>3, <1>4

\* A call that succeeds returns the default device.
LEMMA DefaultKnown == ASSUME Quiet PROVE GetDefaultOutputDeviceId = {default}
BY DEF Quiet, GetDefaultOutputDeviceId

\* The callback is done looking only when the default device is no target.
LEMMA CoverLasts ==
    ASSUME FeedbackInv, Quiet, Next, Covered, Bridged(default)' PROVE Covered'
<1>1. IInv /\ TypeOK /\ Ownership /\ NoticeKnows
  BY DEF FeedbackInv, IInv
<1>2. default' # NoDevice
  <2>1. Ownership'
    BY <1>1, NextOwnership
  <2> QED BY <2>1 DEF Ownership, Bridged
<1> USE <1>1 DEF TypeOK, DeviceTypeOK, Covered, Goto, At, Thread, captureVars, deviceVars,
     targetVars, heapVars, checkVars, capVars, localVars
<1>3. ASSUME NEW t \in Thread, AddCall(t) PROVE Covered'
  BY <1>3 DEF AddCall, AddCheck, AddDefault, AddReserve, AddOpen, AddAbort,
     AddSpawn, AddPush, AddReturn
<1>4. ASSUME NEW t \in Thread, RemoveCall(t) PROVE Covered'
  <2>1. CASE RemoveErase(t) /\ t = "ntf"
    <3>1. ~Bridged(arg[t])' /\ UNCHANGED <<arg, default, notes>> /\ pc[t] = "rmErase"
      BY <2>1, ErasedIsGone DEF RemoveErase
    <3>2. arg'["ntf"] = newDefault["ntf"] /\ (newDefault["ntf"] = default \/ notes > 0)
      BY <2>1, <3>1 DEF NoticeKnows
    <3> QED BY <2>1, <3>1, <3>2 DEF Bridged
  <2>2. CASE ~(RemoveErase(t) /\ t = "ntf")
    BY <1>4, <2>2 DEF RemoveCall, RemoveErase, RemoveJoin
  <2> QED BY <2>1, <2>2
<1>5. ASSUME NEW t \in Thread, t # "cap", CheckCall(t) PROVE Covered'
  <2>1. CASE CheckDefault(t)
    BY <1>2, <2>1, DefaultKnown DEF CheckDefault
  <2>2. CASE CheckTarget(t) /\ t = "ntf" /\ ~Bridged(newDefault[t])
    <3>1. UNCHANGED <<targets, device, default, notes>> /\ pc["ntf"] = "ckTarget"
      BY <2>2 DEF CheckTarget
    <3>2. newDefault["ntf"] # default
      BY <2>2, <3>1 DEF Bridged
    <3> QED BY <3>1, <3>2 DEF NoticeKnows
  <2>3. CASE CheckTarget(t) /\ ~(t = "ntf" /\ ~Bridged(newDefault[t]))
    BY <2>3 DEF CheckTarget
  <2>4. CASE ~CheckDefault(t) /\ ~CheckTarget(t)
    BY <1>5, <2>4 DEF CheckCall, CheckOld, CheckUnwant, CheckBridge, CheckWant, CheckTrack,
       AddWantedDevice, RemoveWantedDevice
  <2> QED BY <2>1, <2>2, <2>3, <2>4
<1>6. NoticeStep => Covered'
  BY DEF NoticeStep, NoticeBegin, NoticeRunning, NoticeRestart, Deliver
<1>7. CommandStep => Covered'
  BY DEF CommandStep, Issue, Command, AddCommand, RemoveCommand, StartCommand,
     StopCommand, WantAdded, UnwantRemoved, Reply, AddWantedDevice, RemoveWantedDevice
<1>8. StartStep => Covered'
  BY DEF StartStep, StartJoin, StartRecord, StartRun
<1>9. StopStep => Covered'
  BY DEF StopStep, StopFlags, StopRestart, StopJoin, StopReset, StopLock, StopTarget,
     StopWait, StopClear
<1>10. SessionStep => Covered'
  BY DEF SessionStep, CapInit, CapTop, CapOpen, CapPublish, CapReinit, CapStart,
     CapLeave, CapBreak, CapEnd, CapClose, CallForEach, LoopDone
<1>11. RestartStep => Covered'
  BY DEF RestartStep, CapDecide, CapCollect, CapTeardown, CapPark, CallForEach, LoopDone
<1>12. ASSUME NEW o \in Obj, RenderStop(o) \/ RenderFail(o) PROVE Covered'
  BY <1>12 DEF RenderStop, RenderFail, RenderExit
<1>13. Outside => Covered'
  BY DEF Outside, Environment, RoleNotice, SwitchDefault, Unplug, Plug, Happens, Notify
<1> QED BY <1>3, <1>4, <1>5, <1>6, <1>7, <1>8, <1>9, <1>10, <1>11, <1>12, <1>13,
           NextGroups

\* What is uncovered after a step was so before it, unless the capture thread adds it.
LEMMA Uncovered ==
    ASSUME FeedbackInv, Quiet, Next, Bridged(default)', ~Covered'
    PROVE  /\ default' = default /\ ~Covered
           /\ Bridged(default) \/ (AddPush("cap") /\ arg["cap"] = default)
<1>1. IInv /\ TypeOK /\ NoticeKnows /\ StartLooks /\ TypeOK'
  BY NextIInv DEF FeedbackInv, IInv
<1>2. ~Covered
  BY CoverLasts
<1>3. default' = default
  BY <1>1, ChangeIsNoticed DEF Covered
<1>4. Bridged(default)' => \E o \in targets' : device'[o] = default
  BY <1>3 DEF Bridged
<1>5. \A e : (\E o \in targets' : device'[o] = e)
              => Bridged(e) \/ \E t \in Thread : AddPush(t) /\ arg[t] = e
  BY <1>1, NewTarget DEF Bridged
<1>6. Bridged(default) \/ \E t \in Thread : AddPush(t) /\ arg[t] = default
  BY <1>4, <1>5
<1>7. ~(AddPush("ctl"))
  BY <1>1 DEF StartLooks, AddPush, AddLabels, At
<1>8. ~(AddPush("ntf") /\ arg["ntf"] = default)
  BY <1>1, <1>2 DEF NoticeKnows, Covered, AddPush, AddLabels, At
<1> QED BY <1>2, <1>3, <1>6, <1>7, <1>8 DEF Thread

\* While the pipe thread is in CheckAndRemoveDefaultDevice there is no capture thread.
LEMMA StartIsAlone ==
    ASSUME IInv, pc["ctl"] \in CheckLabels \cup {"startRecord", "startRun"} \/
                 (pc["ctl"] \in RemoveLabels /\ command = "start")
    PROVE  pc["cap"] = "off" /\ ~captureRunning /\ ~joinable
BY DEF IInv, Protocol, Follows, CallLabels

\* Start finds a target on the default device, or another callback will.
LEMMA NextStartLooks == ASSUME FeedbackInv, Quiet, Next PROVE StartLooks'
<1>1. IInv /\ TypeOK /\ Protocol /\ NoticeKnows /\ StartLooks
  BY DEF FeedbackInv, IInv
<1>2. pc["ctl"] \in CheckLabels \cup {"startRecord", "startRun"} \/
         (pc["ctl"] \in RemoveLabels /\ command = "start")
      => pc["cap"] = "off" /\ ~captureRunning
  BY <1>1, StartIsAlone
<1>3. ASSUME Bridged(default)', ~Covered'
      PROVE  /\ default' = default /\ ~Covered
             /\ Bridged(default) \/ pc["cap"] = "addPush"
  BY <1>3, Uncovered DEF AddPush, At
<1> DEFINE Bad == Bridged(default)' /\ ~Covered'
<1>4. Bad => default' = default /\ ~Covered /\ (Bridged(default) \/ pc["cap"] = "addPush")
  BY <1>3
<1>5. default' # NoDevice \/ ~Bad
  <2>1. Ownership'
    BY <1>1, NextOwnership
  <2> QED BY <2>1 DEF Ownership, Bridged
<1> DEFINE Goal ==
      /\ pc'["ctl"] \notin AddLabels \cup {"wantOld"}
      /\ pc'["ctl"] = "rmErase" /\ command' = "start" => arg'["ctl"] = newDefault'["ctl"]
      /\ pc'["ctl"] \in {"ckOld", "ckTarget", "rmErase"} /\ command' = "start" =>
            (Bad => newDefault'["ctl"] = default')
      /\ pc'["ctl"] \in {"rmJoin", "unwantNew", "ckBridge", "track", "startRun"}
         /\ command' = "start" => ~Bad
<1>6. Goal => StartLooks'
  BY DEF StartLooks
<1>7. /\ pc["ctl"] \notin AddLabels \cup {"wantOld"}
      /\ pc["ctl"] = "rmErase" /\ command = "start" => arg["ctl"] = newDefault["ctl"]
      /\ pc["ctl"] \in {"ckOld", "ckTarget", "rmErase"} /\ command = "start" =>
            (Bad => newDefault["ctl"] = default)
      /\ pc["ctl"] \in {"rmJoin", "unwantNew", "ckBridge", "track", "startRun"}
         /\ command = "start" => ~Bad
  BY <1>1, <1>2, <1>4 DEF StartLooks, CheckLabels, RemoveLabels
<1>8. ASSUME NEW t \in Thread, t = "ctl", RemoveErase(t), command = "start" PROVE ~Bad
  <2>1. ~Bridged(arg[t])' /\ UNCHANGED <<arg, default>> /\ pc["ctl"] = "rmErase"
    BY <1>1, <1>8, ErasedIsGone DEF RemoveErase, At, deviceVars
  <2>2. Bad => arg["ctl"] = default
    BY <1>7, <1>8, <2>1
  <2> QED BY <1>8, <2>1, <2>2 DEF Bridged
<1>9. ASSUME CheckTarget("ctl"), ~Bridged(newDefault["ctl"]) PROVE ~Bad
  <2>1. UNCHANGED <<targets, device, default>> /\ pc["ctl"] = "ckTarget"
    BY <1>9 DEF CheckTarget, At, deviceVars, targetVars, heapVars
  <2>2. Bad => newDefault["ctl"] = default
    BY <1>1, <1>7, <2>1 DEF Protocol, CheckLabels
  <2> QED BY <1>9, <2>1, <2>2 DEF Bridged
<1> HIDE DEF Bad
<1> USE <1>1, <1>2, <1>4, <1>5, <1>7 DEF TypeOK, Goto, At, Thread, captureVars, deviceVars,
     targetVars, heapVars, checkVars, capVars, localVars, AddLabels, RemoveLabels,
     CheckLabels, Protocol
<1>10. ASSUME NEW t \in Thread, AddCall(t) PROVE Goal
  BY <1>10 DEF AddCall, AddCheck, AddDefault, AddReserve, AddOpen, AddAbort,
     AddSpawn, AddPush, AddReturn, AfterAdd
<1>11. ASSUME NEW t \in Thread, RemoveCall(t) PROVE Goal
  BY <1>8, <1>11 DEF RemoveCall, RemoveErase, RemoveJoin, AfterRemove
<1>12. ASSUME NEW t \in Thread, t # "cap", CheckCall(t) PROVE Goal
  <2>1. CASE CheckTarget(t)
    BY <1>9, <2>1 DEF CheckTarget
  <2>2. CASE CheckDefault(t)
    <3>1. /\ newDefault' = [newDefault EXCEPT ![t] = default]
          /\ Goto(t, IF default = NoDevice THEN AfterCheck(t) ELSE "ckOld")
      BY <2>2, DefaultKnown DEF CheckDefault
    <3> QED BY <2>2, <3>1 DEF CheckDefault, AfterCheck
  <2>3. CASE CheckBridge(t)
    BY <2>3 DEF CheckBridge
  <2>4. CASE ~CheckTarget(t) /\ ~CheckDefault(t) /\ ~CheckBridge(t)
    BY <1>12, <2>4 DEF CheckCall, CheckOld, CheckUnwant, CheckWant, CheckTrack, AfterCheck,
       AddWantedDevice, RemoveWantedDevice
  <2> QED BY <2>1, <2>2, <2>3, <2>4
<1>13. ASSUME NoticeStep PROVE Goal
  BY <1>13 DEF NoticeStep, NoticeBegin, NoticeRunning, NoticeRestart, ClearCall, Deliver
<1>14. ASSUME CommandStep PROVE Goal
  BY <1>14 DEF CommandStep, Issue, Command, AddCommand, RemoveCommand, StartCommand,
     StopCommand, WantAdded, UnwantRemoved, Reply, ClearCall, Quiet, AddWantedDevice,
     RemoveWantedDevice
<1>15. ASSUME StartStep PROVE Goal
  BY <1>15 DEF StartStep, StartJoin, StartRecord, StartRun
<1>16. ASSUME StopStep PROVE Goal
  BY <1>16 DEF StopStep, StopFlags, StopRestart, StopJoin, StopReset, StopLock,
     StopTarget, StopWait, StopClear
<1>17. ASSUME SessionStep PROVE Goal
  BY <1>17 DEF SessionStep, CapInit, CapTop, CapOpen, CapPublish, CapReinit,
     CapStart, CapLeave, CapBreak, CapEnd, CapClose, CallForEach, LoopDone
<1>18. ASSUME RestartStep PROVE Goal
  BY <1>18 DEF RestartStep, CapDecide, CapCollect, CapTeardown, CapPark,
     CallForEach, LoopDone
<1>19. ASSUME NEW o \in Obj, RenderStop(o) \/ RenderFail(o) PROVE Goal
  BY <1>19 DEF RenderStop, RenderFail, RenderExit
<1>20. ASSUME Outside PROVE Goal
  BY <1>20 DEF Outside
<1> HIDE DEF Goal
<1> QED BY <1>6, <1>10, <1>11, <1>12, <1>13, <1>14, <1>15, <1>16, <1>17, <1>18, <1>19,
           <1>20, NextGroups

\* A restart that is due is served by a session that begins, or by Stop.
LEMMA AlertLasts ==
    ASSUME FeedbackInv, Next, Alert, captureRunning, captureRunning', ~CapTop
    PROVE  Alert'
<1>1. IInv /\ TypeOK /\ Follows
  BY DEF FeedbackInv, IInv
<1> USE <1>1 DEF TypeOK, DeviceTypeOK, Alert, Goto, At, Thread, captureVars, deviceVars,
     targetVars, heapVars, checkVars, capVars, localVars
<1>2. ASSUME NEW t \in Thread, AddCall(t) PROVE Alert'
  BY <1>2 DEF AddCall, AddCheck, AddDefault, AddReserve, AddOpen, AddAbort,
     AddSpawn, AddPush, AddReturn, AfterAdd
<1>3. ASSUME NEW t \in Thread, RemoveCall(t) PROVE Alert'
  BY <1>3 DEF RemoveCall, RemoveErase, RemoveJoin, AfterRemove
<1>4. ASSUME NEW t \in Thread, t # "cap", CheckCall(t) PROVE Alert'
  BY <1>4 DEF CheckCall, CheckDefault, CheckOld, CheckTarget, CheckUnwant,
     CheckBridge, CheckWant, CheckTrack, AfterCheck, AddWantedDevice,
     RemoveWantedDevice
<1>5. NoticeStep => Alert'
  BY DEF NoticeStep, NoticeBegin, NoticeRunning, NoticeRestart, Deliver
<1>6. CommandStep => Alert'
  BY DEF CommandStep, Issue, Command, AddCommand, RemoveCommand, StartCommand,
     StopCommand, WantAdded, UnwantRemoved, Reply, AddWantedDevice, RemoveWantedDevice
<1>7. StartStep => Alert'
  BY DEF StartStep, StartJoin, StartRecord, StartRun
<1>8. StopStep => Alert'
  BY DEF StopStep, StopFlags, StopRestart, StopJoin, StopReset, StopLock, StopTarget,
     StopWait, StopClear, Follows
<1>9. SessionStep => Alert'
  BY DEF SessionStep, CapInit, CapOpen, CapPublish, CapReinit, CapStart,
     CapLeave, CapBreak, CapEnd, CapClose, CallForEach, LoopDone
<1>10. RestartStep => Alert'
  BY DEF RestartStep, CapDecide, CapCollect, CapTeardown, CapPark, CallForEach, LoopDone
<1>11. ASSUME NEW o \in Obj, RenderStop(o) \/ RenderFail(o) PROVE Alert'
  BY <1>11 DEF RenderStop, RenderFail, RenderExit
<1>12. Outside => Alert'
  BY DEF Outside, Environment, RoleNotice, SwitchDefault, Unplug, Plug, Happens, Notify
<1> QED BY <1>2, <1>3, <1>4, <1>5, <1>6, <1>7, <1>8, <1>9, <1>10, <1>11, <1>12,
           NextGroups

\* A session of a running bridge begins with no target on the default device, and
\* what is added to it was compared with the default.
LEMMA NextSessionLooks == ASSUME FeedbackInv, Quiet, Next PROVE SessionLooks'
<1>1. /\ IInv /\ TypeOK /\ Protocol /\ Follows /\ StartLooks /\ SessionLooks
      /\ TypeOK' /\ Follows' /\ ~Failures
  BY NextIInv DEF FeedbackInv, IInv, Quiet
<1>2. SUFFICES ASSUME captureRunning' PROVE SessionLooks'
  BY DEF SessionLooks
<1> DEFINE Bad   == Bridged(default)' /\ ~Covered'
           Alarm == (Bridged(default)' \/ Adding(default)') /\ ~Alert'
           Goal  == /\ pc'["cap"] \in {"capInit", "capTop", "capOpen", "capPublish",
                                       "capPark"} => ~Bad
                    /\ pc'["cap"] \in {"capTeardown", "rmErase", "rmJoin"} =>
                          (Bad => \/ default' \in todo'
                                  \/ pc'["cap"] = "rmErase" /\ arg'["cap"] = default')
                    /\ pc'["cap"] \in AddLabels \cup {"capReinit", "capStart", "capLoop"} =>
                          ~Alarm
                    /\ pc'["cap"] = "capClosed" => restartCapture'
<1>3. Goal => SessionLooks'
  BY DEF SessionLooks
<1>4. Bad => /\ default' = default /\ ~Covered
             /\ Bridged(default) \/ (pc["cap"] = "addPush" /\ pc'["cap"] = "addDone")
  BY <1>1, Uncovered DEF AddPush, At, Goto, TypeOK, Thread
<1>5. CASE ~captureRunning
  <2>1. StartRun
    <3> USE <1>1, <1>2, <1>5 DEF captureVars, deviceVars, targetVars, heapVars,
         checkVars, capVars, localVars
    <3>1. ASSUME NEW t \in Thread, AddCall(t) PROVE FALSE
      BY <3>1 DEF AddCall, AddCheck, AddDefault, AddReserve, AddOpen, AddAbort,
         AddSpawn, AddPush, AddReturn
    <3>2. ASSUME NEW t \in Thread, RemoveCall(t) PROVE FALSE
      BY <3>2 DEF RemoveCall, RemoveErase, RemoveJoin
    <3>3. ASSUME NEW t \in Thread, t # "cap", CheckCall(t) PROVE FALSE
      BY <3>3 DEF CheckCall, CheckDefault, CheckOld, CheckTarget, CheckUnwant,
         CheckBridge, CheckWant, CheckTrack
    <3>4. ~NoticeStep
      BY DEF NoticeStep, NoticeBegin, NoticeRunning, NoticeRestart
    <3>5. ~CommandStep
      BY DEF CommandStep, Issue, Command, AddCommand, RemoveCommand, StartCommand,
         StopCommand, WantAdded, UnwantRemoved, Reply
    <3>6. StartStep => StartRun
      BY DEF StartStep, StartJoin, StartRecord
    <3>7. ~StopStep
      BY DEF StopStep, StopFlags, StopRestart, StopJoin, StopReset, StopLock, StopTarget,
         StopWait, StopClear
    <3>8. ~SessionStep
      BY DEF SessionStep, CapInit, CapTop, CapOpen, CapPublish, CapReinit, CapStart,
         CapLeave, CapBreak, CapEnd, CapClose
    <3>9. ~RestartStep
      BY DEF RestartStep, CapDecide, CapCollect, CapTeardown, CapPark
    <3>10. ASSUME NEW o \in Obj, RenderStop(o) \/ RenderFail(o) PROVE FALSE
      BY <3>10 DEF RenderStop, RenderFail, RenderExit
    <3>11. ~Outside
      BY DEF Outside
    <3> QED BY <3>1, <3>2, <3>3, <3>4, <3>5, <3>6, <3>7, <3>8, <3>9, <3>10, <3>11,
               NextGroups
  <2>2. pc["ctl"] = "startRun" /\ command = "start" /\ pc["cap"] = "off"
    BY <1>1, <2>1, NoThreadAtStart DEF StartRun, At, Protocol
  <2>3. ~Bad
    BY <1>1, <1>4, <2>2 DEF StartLooks
  <2>4. pc'["cap"] = "capInit"
    BY <1>1, <2>1 DEF StartRun, TypeOK, Thread
  <2> QED BY <1>3, <2>3, <2>4 DEF AddLabels
<1>6. CASE captureRunning
  <2>1. Alarm => /\ default' = default
                 /\ CapTop \/ (~Alert /\ ~Covered)
                 /\ Bridged(default)' =>
                       Bridged(default) \/ (pc["cap"] = "addPush" /\ Adding(default))
    <3>1. Alarm => ~Covered' /\ default' = default
      BY <1>1, ChangeIsNoticed DEF Alert, Covered
    <3>2. Alarm => CapTop \/ ~Alert
      BY <1>2, <1>6, AlertLasts
    <3>3. ~Alert => ~Covered
      BY DEF Alert, Covered
    <3>4. Alarm /\ Bridged(default)' =>
             Bridged(default) \/ (pc["cap"] = "addPush" /\ Adding(default))
      BY <3>1, Uncovered DEF AddPush, Adding, At
    <3> QED BY <3>1, <3>2, <3>3, <3>4
  <2>2. pc["cap"] # "off"
    BY <1>1, <1>6 DEF Follows
  <2>3. /\ pc["cap"] \in {"capInit", "capTop", "capOpen", "capPublish", "capPark"} =>
              ~(Bridged(default) /\ ~Covered)
        /\ pc["cap"] \in {"capTeardown", "rmErase", "rmJoin"} =>
              (Bridged(default) => \/ Covered \/ default \in todo
                                   \/ pc["cap"] = "rmErase" /\ arg["cap"] = default)
        /\ pc["cap"] \in AddLabels \cup {"capReinit", "capStart", "capLoop"} =>
              (Bridged(default) \/ Adding(default) => Alert)
        /\ pc["cap"] = "capClosed" => restartCapture
    BY <1>1, <1>6 DEF SessionLooks
  <2>4. ASSUME NEW t \in Thread, t = "cap", RemoveErase(t), Bad PROVE default \in todo
    <3>1. ~Bridged(arg[t])' /\ UNCHANGED <<arg, default>> /\ pc["cap"] = "rmErase"
      BY <1>1, <2>4, ErasedIsGone DEF RemoveErase, At, deviceVars
    <3>2. arg["cap"] # default
      BY <2>4, <3>1 DEF Bridged
    <3> QED BY <1>4, <2>3, <2>4, <3>1, <3>2
  <2>5. CapCollect /\ Bad => default \in todo'
    <3>1. CapCollect => todo' = {device[o] : o \in targets}
      BY DEF CapCollect
    <3>2. CapCollect => pc["cap"] = "capCollect"
      BY DEF CapCollect, At
    <3> QED BY <1>4, <3>1, <3>2 DEF Bridged
  <2> HIDE DEF Bad
  <2>6. Adding(default)' <=> /\ pc'["cap"] \in {"addReserve", "addOpen", "addSpawn", "addPush"}
                             /\ arg'["cap"] = default'
    BY DEF Adding
  <2>7. Adding(default) <=> /\ pc["cap"] \in {"addReserve", "addOpen", "addSpawn", "addPush"}
                            /\ arg["cap"] = default
    BY DEF Adding
  <2> DEFINE BadAdd == Adding(default)' /\ ~Alert'
             BadOld == Bridged(default)' /\ ~Alert'
  <2>8. /\ Alarm => BadAdd \/ BadOld
        /\ BadAdd => /\ pc'["cap"] \in {"addReserve", "addOpen", "addSpawn", "addPush"}
                     /\ arg'["cap"] = default /\ default' = default
        /\ BadAdd \/ BadOld => CapTop \/ (~Alert /\ ~Covered)
        /\ BadOld => Bridged(default) \/ (pc["cap"] = "addPush" /\ Adding(default))
    BY <2>1, <2>6
  <2> HIDE DEF BadAdd, BadOld, Alarm
  <2> USE <1>1, <1>2, <1>4, <1>6, <2>2, <2>3, <2>7, <2>8 DEF TypeOK, Goto, At, Thread,
       captureVars, deviceVars, targetVars, heapVars, checkVars, capVars, localVars, AddLabels,
       RemoveLabels, CheckLabels
  <2>9. ASSUME NEW t \in Thread, AddCall(t) PROVE Goal
    <3>1. ~CapTop
      BY <2>9 DEF CapTop, AddCall, AddCheck, AddDefault, AddReserve, AddOpen, AddAbort,
         AddSpawn, AddPush, AddReturn, AfterAdd
    <3> QED BY <2>9, <3>1 DEF AddCall, AddCheck, AddDefault, AddReserve, AddOpen, AddAbort,
         AddSpawn, AddPush, AddReturn, AfterAdd, GetDefaultOutputDeviceId
  <2>10. ASSUME NEW t \in Thread, RemoveCall(t) PROVE Goal
    BY <2>4, <2>10 DEF RemoveCall, RemoveErase, RemoveJoin, AfterRemove, CapTop
  <2>11. ASSUME NEW t \in Thread, t # "cap", CheckCall(t) PROVE Goal
    BY <2>11 DEF CheckCall, CheckDefault, CheckOld, CheckTarget, CheckUnwant,
       CheckBridge, CheckWant, CheckTrack, AfterCheck, CapTop
  <2>12. NoticeStep => Goal
    BY DEF NoticeStep, NoticeBegin, NoticeRunning, NoticeRestart, ClearCall, CapTop
  <2>13. CommandStep => Goal
    BY DEF CommandStep, Issue, Command, AddCommand, RemoveCommand, StartCommand,
       StopCommand, WantAdded, UnwantRemoved, Reply, ClearCall, CapTop
  <2>14. StartStep => Goal
    BY NoThreadAtStart DEF StartStep, StartJoin, StartRecord, StartRun, CapTop
  <2>15. StopStep => Goal
    BY DEF StopStep, StopFlags, StopRestart, StopJoin, StopReset, StopLock, StopTarget,
       StopWait, StopClear, CapTop, Follows
  <2>16. SessionStep => Goal
    BY DEF SessionStep, CapInit, CapTop, CapOpen, CapPublish, CapReinit, CapStart,
       CapLeave, CapBreak, CapEnd, CapClose, CallForEach, LoopDone
  <2>17. RestartStep => Goal
    BY <2>5 DEF RestartStep, CapDecide, CapCollect, CapTeardown, CapPark, CallForEach,
       LoopDone, CapTop
  <2>18. ASSUME NEW o \in Obj, RenderStop(o) \/ RenderFail(o) PROVE Goal
    BY <2>18 DEF RenderStop, RenderFail, RenderExit, CapTop
  <2>19. Outside => Goal
    BY DEF Outside, CapTop
  <2> HIDE DEF Goal
  <2> QED BY <1>3, <2>9, <2>10, <2>11, <2>12, <2>13, <2>14, <2>15, <2>16, <2>17, <2>18,
             <2>19, NextGroups
<1> QED BY <1>5, <1>6

LEMMA InitFeedbackInv == Init => FeedbackInv
<1> SUFFICES ASSUME Init PROVE FeedbackInv
  OBVIOUS
<1>1. /\ pc = [t \in Thread |-> IF t = "cap" THEN "off" ELSE "idle"]
      /\ captureRunning = FALSE
  BY DEF Init
<1>2. NoticeKnows /\ StartLooks /\ SessionLooks
  BY <1>1 DEF NoticeKnows, StartLooks, SessionLooks, AddLabels, Thread
<1> QED BY <1>2, InitIInv DEF FeedbackInv

LEMMA NextFeedbackInv ==
    ASSUME Quiet PROVE FeedbackInv /\ [Next]_vars => FeedbackInv'
<1>1. ASSUME FeedbackInv, Next PROVE FeedbackInv'
  BY <1>1, NextIInv, NextNoticeKnows, NextStartLooks, NextSessionLooks DEF FeedbackInv
<1>2. ASSUME FeedbackInv, UNCHANGED vars PROVE FeedbackInv'
  <2>1. IInv'
    BY <1>2, NextIInv DEF FeedbackInv
  <2>2. NoticeKnows' /\ StartLooks' /\ SessionLooks'
    BY <1>2 DEF FeedbackInv, NoticeKnows, StartLooks, SessionLooks, Bridged, Covered, Alert,
       Adding, vars, deviceVars, captureVars, targetVars, heapVars, checkVars, capVars,
       localVars
  <2> QED BY <2>1, <2>2 DEF FeedbackInv
<1> QED BY <1>1, <1>2

\* While the calls succeed, a bridge that is only started, stopped and has devices
\* removed does not settle in a state in which it renders to the device it captures
\* from, wherever the default moves and whatever is being set up meanwhile
\* (audio_engine.h:54-56).
THEOREM NeverFeedsBack ==
    ASSUME ~Failures, "add" \notin Commands
    PROVE  Spec => []NoFeedback
<1>1. Quiet
  BY DEF Quiet
<1>2. FeedbackInv /\ [Next]_vars => FeedbackInv'
  BY <1>1, NextFeedbackInv
<1>3. FeedbackInv => NoFeedback
  <2> SUFFICES ASSUME FeedbackInv, Settled, captureRunning PROVE ~Bridged(session)
    BY DEF NoFeedback
  <2>1. pc["cap"] = "capLoop" /\ ~Alert
    BY DEF FeedbackInv, IInv, TypeOK, DeviceTypeOK, Follows, Settled, At, Alert
  <2>2. session = default
    BY <2>1 DEF FeedbackInv, IInv, Follows, SessionLabels, Alert
  <2> QED BY <2>1, <2>2 DEF FeedbackInv, SessionLooks
<1> QED BY <1>2, <1>3, InitFeedbackInv, PTL DEF Spec
=============================================================================
