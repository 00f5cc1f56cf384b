---------------------------- MODULE UserInterface ----------------------------
(***************************************************************************)
(* The user interface above its connection: MainViewModel, the check boxes *)
(* of AudioDeviceViewModel, DeviceReconnectService, and the start and end  *)
(* of App, against the engine as its commands show it.                     *)
(*                                                                         *)
(* Everything here runs on the UI thread, as asynchronous methods that     *)
(* interleave at their awaits.  A task gives a command, the engine carries *)
(* it out and answers at some later moment (the actions Ask...), and the   *)
(* task goes on with that answer at a moment later still, when it may be   *)
(* out of date.  EngineClient says why a command takes effect at most once *)
(* and its answer reaches the task that gave it.  Device has the devices   *)
(* that are never the default.                                             *)
(***************************************************************************)
EXTENDS Naturals, SequencesExt

CONSTANTS
    Device,
    Poll,          \* bound: the polls that may overlap; the timer does not wait for one
    AutoReconnect, \* the setting: whether the reconnect service runs
    MaxRetries,    \* MaxRetries of DeviceReconnectService
    Moves,         \* what the user, devices, engine and connection do by themselves
    MaxMoves       \* bound: how much of it

\* Poll: PollEngineAsync; init: InitializeAsync; rec: the reconnect service; box: a
\* check box; toggle, refresh: the buttons; tray: the menu item; app: OnStartup and the
\* exit.
Other     == {"init", "refresh", "rec", "box", "toggle", "tray", "app"}
Refresher == Poll \cup {"init"}
Task      == Poll \cup Other

\* The clicks, and: a device is plugged in or out, the capture fails or changes, the engine
\* crashes, the pipe breaks or takes too long to connect.
MoveKind == {"box", "toggle", "tray", "refresh", "setting", "plug", "capture", "crash", "pipe"}

ASSUME UIAssumption ==
    /\ AutoReconnect \in BOOLEAN /\ {MaxRetries, MaxMoves} \subseteq Nat
    /\ Poll \cap Other = {} /\ Moves \subseteq MoveKind

\* delay: the second before an InitializeAsync; connect: in ConnectAsync; lost: there too,
\* with its pipe closed by another task; backoff: before a retry.
Waits   == {"idle", "delay", "connect", "lost", "backoff"}
Command == {"get_devices", "get_status", "add", "remove", "start", "stop", "shutdown"}

VARIABLES
    up, bridge, targets, playing, present,   \* the engine and the active devices
    link,          \* the pipe: "none", "live", or "broken" and not yet noticed
    listed,        \* Devices of the view model
    flags,         \* those with IsBridged
    shown,         \* _isBridgeRunning
    saved,         \* BridgedDevices in the settings file
    attempts,      \* _retryAttempts
    stage,         \* where the application is between its start and its end
    doing,         \* what each task waits for: one of Waits, or a command
    ans,           \* the answer it has got
    line,          \* tasks in the order of their commands, the answered ones first
    arg,           \* the device of its command
    left,          \* the devices rec and app have still to try, and the row box belongs to
    chosen,        \* history: flags when the exit began
    unchecked,     \* history: the devices the user has unchecked and not checked since
    moves

engineVars == <<up, bridge, targets, playing, present>>
viewVars   == <<listed, flags, shown>>
taskVars   == <<doing, ans, line, arg, left>>
vars == <<engineVars, link, viewVars, saved, attempts, stage, taskVars, chosen, unchecked, moves>>

Answer == [ok : BOOLEAN, bridge : BOOLEAN, devices : SUBSET Device]

\* No answer yet, and the null of SendCommandAsync.
Awaited == [ok |-> FALSE, bridge |-> TRUE, devices |-> {}]
Null    == [ok |-> FALSE, bridge |-> FALSE, devices |-> {}]
Reply(ok, b, ds) == [ok |-> ok, bridge |-> b, devices |-> ds]

IsConnected == link # "none"
Idle(t)     == doing[t] = "idle"

\* _isToggling
IsToggling == ~Idle("toggle")

\* The first launch after devices were bridged: some are there again.
Init ==
    /\ up = TRUE /\ bridge = FALSE /\ targets = {} /\ playing = {}
    /\ present \in SUBSET Device
    /\ link = "none"
    /\ listed = {} /\ flags = {} /\ shown = FALSE
    /\ saved \in SUBSET Device
    /\ attempts = [d \in Device |-> 0]
    /\ stage = "boot"
    /\ doing = [t \in Task |-> IF t = "init" THEN "connect" ELSE "idle"]
    /\ ans = [t \in Task |-> Awaited]
    /\ line = <<>>
    /\ arg = [t \in Task |-> {}]
    /\ left = [t \in {"rec", "app", "box"} |-> {}]
    /\ chosen = {} /\ unchecked = {}
    /\ moves = 0

\* A crash, which brings InitializeAsync with it, counts for two.
Move(kind) ==
    /\ kind \in Moves
    /\ moves' = moves + (IF kind = "crash" THEN 2 ELSE 1)
    /\ moves' <= MaxMoves

-----------------------------------------------------------------------------
(* The engine carries out a command. *)

\* _sendLock serves the commands in order.  An answer goes through two more
\* continuations before its task goes on, and a command through as many before
\* it is written: at most two answers wait.
Serves(t) ==
    \E i \in 1..2 : /\ i <= Len(line) /\ line[i] = t /\ ans[t] = Awaited
                    /\ i = 2 => ans[line[1]] # Awaited

\* The answer may be lost with the pipe when the command has been carried out.
Answers(t, a) ==
    \/ ans' = [ans EXCEPT ![t] = a] /\ UNCHANGED <<link, moves>>
    \/ ans' = [ans EXCEPT ![t] = Null] /\ link' = "none" /\ Move("pipe")

askFrame ==
    <<up, present, viewVars, saved, attempts, stage, doing, line, arg, left, chosen, unchecked>>

AskDevices(t) ==
    /\ doing[t] = "get_devices"
    /\ Answers(t, Reply(TRUE, FALSE, present))
    /\ UNCHANGED <<bridge, targets, playing>>

AskStatus(t) ==
    /\ doing[t] = "get_status"
    /\ Answers(t, Reply(TRUE, bridge, targets))
    /\ UNCHANGED <<bridge, targets, playing>>

\* A device that is a target already is added with success, and nothing happens;
\* one that is there may still fail to open.
AskAdd(t) ==
    /\ doing[t] = "add"
    /\ \E d \in arg[t] :
          /\ arg[t] = {d}
          /\ \/ /\ d \in targets
                /\ Answers(t, Reply(TRUE, FALSE, {}))
                /\ UNCHANGED <<targets, playing>>
             \/ /\ d \in present \ targets
                /\ targets' = targets \cup {d} /\ playing' = playing \cup {d}
                /\ Answers(t, Reply(TRUE, FALSE, {}))
             \/ /\ d \notin targets
                /\ Answers(t, Reply(FALSE, FALSE, {}))
                /\ UNCHANGED <<targets, playing>>
    /\ UNCHANGED bridge

AskRemove(t) ==
    /\ doing[t] = "remove"
    /\ targets' = targets \ arg[t] /\ playing' = playing \ arg[t]
    /\ Answers(t, Reply(TRUE, FALSE, {}))
    /\ UNCHANGED bridge

AskStart(t) ==
    /\ doing[t] = "start"
    /\ bridge' = TRUE
    /\ Answers(t, Reply(TRUE, FALSE, {}))
    /\ UNCHANGED <<targets, playing>>

AskStop(t) ==
    /\ doing[t] \in {"stop", "shutdown"}
    /\ bridge' = FALSE /\ targets' = {} /\ playing' = {}
    /\ Answers(t, Reply(TRUE, FALSE, {}))

\* The pipe is gone, or goes before the engine has the command.
AskInVain(t) ==
    /\ ans' = [ans EXCEPT ![t] = Null]
    /\ link' = "none"
    /\ IF link = "live" THEN Move("pipe") ELSE UNCHANGED moves
    /\ UNCHANGED <<bridge, targets, playing>>

Ask(t) ==
    /\ Serves(t)
    /\ \/ /\ link = "live"
          /\ \/ AskDevices(t) \/ AskStatus(t) \/ AskAdd(t)
             \/ AskRemove(t) \/ AskStart(t) \/ AskStop(t)
       \/ AskInVain(t)
    /\ UNCHANGED askFrame

-----------------------------------------------------------------------------
(* How a task goes on. *)

\* Answers are taken in their order; null without a connection is there at once.
Answered(t, c) ==
    /\ doing[t] = c /\ ans[t] # Awaited
    /\ line # <<>> /\ ans[line[1]] # Awaited => t = line[1] \/ ans[t] = Null

\* The task gives its next command, or ends.
Proceed(t, c, connected) ==
    LET queued == c \in Command /\ connected
        others == RemoveFirst(line, t)
    IN  /\ doing' = [doing EXCEPT ![t] = c]
        /\ ans' = [ans EXCEPT ![t] = IF c \in Command /\ ~connected THEN Null ELSE Awaited]
        /\ line' = IF queued THEN Append(others, t) ELSE others

GoOn(t, c) == Proceed(t, c, IsConnected)

engineFrame == <<engineVars, link, moves>>
appFrame    == <<saved, attempts, stage, chosen, unchecked>>

\* Disconnect, called by t: the pipe there is may be one that another task connects.
Disconnect(t, c) ==
    /\ link' = "none"
    /\ doing' = [u \in Task |-> IF u = t THEN c
                                ELSE IF doing[u] = "connect" THEN "lost" ELSE doing[u]]
    /\ UNCHANGED <<ans, line>>

connectFrame == <<engineVars, viewVars, appFrame, arg, left>>

\* ConnectAsync as far as its await.
ConnectBegin(t) == Disconnect(t, "connect")

\* InitializeAsync, a second after the end of the engine.
Initialize ==
    /\ doing["init"] = "delay"
    /\ ConnectBegin("init")
    /\ UNCHANGED <<connectFrame, moves>>

\* A task whose pipe was closed when it had just been connected goes on with the pipe
\* that is there now.
Connected(t) ==
    /\ up
    /\ \/ doing[t] = "connect" /\ link' = "live" /\ Proceed(t, "get_devices", TRUE)
       \/ doing[t] = "lost" /\ GoOn(t, "get_devices") /\ UNCHANGED link
    /\ UNCHANGED <<connectFrame, moves>>

\* The three seconds are over, or the pipe was closed.
ConnectFails(t) ==
    /\ doing[t] \in {"connect", "lost"}
    /\ IF up /\ doing[t] = "connect" THEN Move("pipe") ELSE UNCHANGED moves
    /\ Disconnect(t, "idle")
    /\ UNCHANGED connectFrame

\* Mutant: rows are never removed.
MergeDeviceListAdds(ds) ==
    /\ listed' = listed \cup ds
    /\ UNCHANGED <<flags, left>>

\* RefreshDevicesAsync.  A null answer is a list without devices.
MergeDeviceList(ds) ==
    /\ listed' = ds
    /\ flags' = flags \cap ds
    /\ left' = [left EXCEPT !["box"] = @ \cap ds]

RefreshDevices(t) ==
    /\ Answered(t, "get_devices")
    /\ MergeDeviceList(ans[t].devices)
    /\ GoOn(t, IF t = "refresh" THEN "idle" ELSE "get_status")
    /\ UNCHANGED <<engineFrame, appFrame, shown, arg>>

\* Mutant: does not look at _isToggling.
RefreshStatusAlways(t) ==
    /\ Answered(t, "get_status")
    /\ IF ans[t].ok
       THEN /\ shown' = ans[t].bridge
            /\ flags' = listed \cap ans[t].devices
       ELSE UNCHANGED <<shown, flags>>
    /\ GoOn(t, "idle")
    /\ UNCHANGED <<engineFrame, appFrame, listed, arg, left>>

RefreshStatus(t) ==
    /\ Answered(t, "get_status")
    /\ IF ans[t].ok
       THEN /\ shown' = IF IsToggling THEN shown ELSE ans[t].bridge
            /\ flags' = listed \cap ans[t].devices
       ELSE UNCHANGED <<shown, flags>>
    /\ GoOn(t, "idle")
    /\ UNCHANGED <<engineFrame, appFrame, listed, arg, left>>

\* PollEngineAsync, as far as its first await.  Only a ConnectAsync with no engine to
\* connect to takes longer than the two seconds to the next tick, which does not wait.
Tick(t) ==
    /\ stage # "over" /\ Idle(t)
    /\ t = CHOOSE p \in Poll : Idle(p)
    /\ \A p \in Poll : ~Idle(p) => ~up /\ doing[p] \in {"connect", "lost"}
    /\ IF IsConnected THEN GoOn(t, "get_devices") /\ UNCHANGED link ELSE ConnectBegin(t)
    /\ UNCHANGED <<connectFrame, moves>>

Refresh(t) == Connected(t) \/ ConnectFails(t) \/ RefreshDevices(t) \/ RefreshStatus(t)

-----------------------------------------------------------------------------
(* DeviceReconnectService *)

RecBegin ==
    /\ AutoReconnect /\ stage \in {"run", "stopping", "shutting"} /\ Idle("rec")
    /\ IsConnected /\ saved # {}
    /\ GoOn("rec", "get_devices")
    /\ left' = [left EXCEPT !["rec"] = saved]
    /\ UNCHANGED <<engineFrame, viewVars, appFrame, arg>>

RecDevices ==
    /\ Answered("rec", "get_devices")
    /\ GoOn("rec", IF ans["rec"].devices = {} THEN "idle" ELSE "get_status")
    /\ left' = [left EXCEPT !["rec"] = @ \cap ans["rec"].devices]
    /\ UNCHANGED <<engineFrame, viewVars, appFrame, arg>>

\* A task adds one of these devices after the other, after a wait for some.
AddOneOf(t, ds, tried) ==
    \E d \in ds :
       /\ GoOn(t, IF d \in tried THEN "backoff" ELSE "add")
       /\ arg' = [arg EXCEPT ![t] = {d}]
       /\ left' = [left EXCEPT ![t] = ds \ {d}]

\* Mutant: the test for the active devices is the wrong way round.
MissingNegated(wanted, active) == {d \in wanted \cap active : attempts[d] < MaxRetries}

\* The wanted devices that are there, not bridged, and not given up.
Missing(wanted, active) == {d \in wanted \ active : attempts[d] < MaxRetries}

TryNext(missing) ==
    \/ AddOneOf("rec", missing, {d \in missing : attempts[d] > 0})
    \/ /\ missing = {}
       /\ GoOn("rec", "idle")
       /\ arg' = [arg EXCEPT !["rec"] = {}]
       /\ left' = [left EXCEPT !["rec"] = {}]

RecStatus ==
    /\ Answered("rec", "get_status")
    /\ TryNext(Missing(left["rec"], ans["rec"].devices))
    /\ UNCHANGED <<engineFrame, viewVars, appFrame>>

RecRetry ==
    /\ doing["rec"] = "backoff"
    /\ GoOn("rec", "add")
    /\ UNCHANGED <<engineFrame, viewVars, appFrame, arg, left>>

RecAdded ==
    /\ Answered("rec", "add")
    /\ attempts' = [d \in Device |->
                      IF d \notin arg["rec"] THEN attempts[d]
                      ELSE IF ans["rec"].ok THEN 0 ELSE attempts[d] + 1]
    /\ TryNext(left["rec"])
    /\ UNCHANGED <<engineFrame, viewVars, saved, stage, chosen, unchecked>>

Rec == RecBegin \/ RecDevices \/ RecStatus \/ RecRetry \/ RecAdded

-----------------------------------------------------------------------------
(* The user *)

Click(what) ==
    /\ stage = "run" /\ Move(what)
    /\ UNCHANGED <<engineVars, link, viewVars, attempts, stage, chosen>>

ClickBox(d) ==
    /\ Click("box")
    /\ Idle("box") /\ d \in listed
    /\ GoOn("box", IF d \in flags THEN "remove" ELSE "add")
    /\ arg' = [arg EXCEPT !["box"] = {d}]
    /\ left' = [left EXCEPT !["box"] = {d}]
    /\ unchecked' = IF d \in flags THEN unchecked ELSE unchecked \ {d}
    /\ UNCHANGED saved

\* The button, or the menu item in the tray.
ClickSwitch(t) ==
    /\ Click(t)
    /\ Idle(t)
    /\ GoOn(t, IF shown THEN "stop" ELSE "start")
    /\ UNCHANGED <<arg, left, saved, unchecked>>

ClickRefresh ==
    /\ Click("refresh")
    /\ Idle("refresh")
    /\ GoOn("refresh", "get_devices")
    /\ UNCHANGED <<arg, left, saved, unchecked>>

SaveCurrentSettings == saved' = flags

\* StartWithWindows and AutoStartBridge are saved when they are set, with the
\* devices as the view shows them.
ClickSetting ==
    /\ Click("setting")
    /\ SaveCurrentSettings
    /\ UNCHANGED <<taskVars, unchecked>>

\* What the history makes of the answer.
Unchecked == IF doing["box"] = "remove" /\ ans["box"].ok
             THEN unchecked \cup arg["box"] ELSE unchecked

\* Mutant: sets the row that the device has by now.
BoxDoneByDevice ==
    /\ doing["box"] \in {"add", "remove"} /\ Answered("box", doing["box"])
    /\ flags' = IF ~ans["box"].ok THEN flags
                ELSE IF doing["box"] = "add" THEN flags \cup arg["box"]
                ELSE flags \ arg["box"]
    /\ GoOn("box", "idle")
    /\ arg' = [arg EXCEPT !["box"] = {}]
    /\ left' = [left EXCEPT !["box"] = {}]
    /\ unchecked' = Unchecked
    /\ UNCHANGED <<engineFrame, listed, shown, saved, attempts, stage, chosen>>

BoxDone ==
    /\ doing["box"] \in {"add", "remove"} /\ Answered("box", doing["box"])
    /\ flags' = IF ~ans["box"].ok THEN flags
                ELSE IF doing["box"] = "add" THEN flags \cup left["box"]
                ELSE flags \ left["box"]
    /\ GoOn("box", "idle")
    /\ arg' = [arg EXCEPT !["box"] = {}]
    /\ left' = [left EXCEPT !["box"] = {}]
    /\ unchecked' = Unchecked
    /\ UNCHANGED <<engineFrame, listed, shown, saved, attempts, stage, chosen>>

SwitchDone(t) ==
    /\ doing[t] \in {"start", "stop"} /\ Answered(t, doing[t])
    /\ shown' = IF t = "toggle" /\ ans[t].ok THEN ~shown ELSE shown
    /\ GoOn(t, "idle")
    /\ UNCHANGED <<engineFrame, appFrame, listed, flags, arg, left>>

-----------------------------------------------------------------------------
(* App: OnStartup *)

\* RestoreBridgedDevicesAsync, and then the status is asked for.
RestoreNext(ds) ==
    \/ AddOneOf("app", ds, {}) /\ stage' = "restore"
    \/ /\ ds = {}
       /\ GoOn("app", "get_status") /\ stage' = "sync"
       /\ arg' = [arg EXCEPT !["app"] = {}]
       /\ UNCHANGED left

\* InitializeAsync is over.
Restore ==
    /\ stage = "boot" /\ Idle("init")
    /\ RestoreNext(IF IsConnected THEN saved ELSE {})
    /\ UNCHANGED <<engineFrame, viewVars, saved, attempts, chosen, unchecked>>

Restored ==
    /\ Answered("app", "add")
    /\ RestoreNext(left["app"])
    /\ UNCHANGED <<engineFrame, viewVars, saved, attempts, chosen, unchecked>>

\* SyncBridgedStateFromEngineAsync, and the start of the bridge if the setting
\* asks for it.
Sync ==
    /\ stage = "sync" /\ Answered("app", "get_status")
    /\ flags' = flags \cup (listed \cap ans["app"].devices)
    /\ \/ IsConnected /\ GoOn("app", "start") /\ stage' = "start"
       \/ GoOn("app", "idle") /\ stage' = "run"
    /\ UNCHANGED <<engineFrame, listed, shown, saved, attempts, arg, left, chosen, unchecked>>

Started ==
    /\ Answered("app", "start")
    /\ GoOn("app", "idle")
    /\ stage' = "run"
    /\ UNCHANGED <<engineFrame, viewVars, saved, attempts, arg, left, chosen, unchecked>>

-----------------------------------------------------------------------------
(* App: the end *)

\* TrayExit_Click
TrayExit ==
    /\ stage = "run"
    /\ SaveCurrentSettings
    /\ chosen' = flags
    /\ IF shown
       THEN stage' = "stopping" /\ GoOn("app", "stop")
       ELSE stage' = "shutting" /\ GoOn("app", "shutdown")
    /\ UNCHANGED <<engineFrame, viewVars, attempts, arg, left, unchecked>>

Stopped ==
    /\ stage = "stopping" /\ Answered("app", "stop")
    /\ stage' = "shutting"
    /\ GoOn("app", "shutdown")
    /\ UNCHANGED <<engineFrame, viewVars, saved, attempts, arg, left, chosen, unchecked>>

\* OnExit: nothing of the user interface runs after it.
OnExit ==
    /\ SaveCurrentSettings
    /\ stage' = "over"
    /\ doing' = [t \in Task |-> "idle"]
    /\ ans' = [t \in Task |-> Awaited]
    /\ line' = <<>>
    /\ arg' = [t \in Task |-> {}]
    /\ left' = [t \in DOMAIN left |-> {}]

\* StopEngineAsync is over, and Shutdown calls OnExit.
ShutDown ==
    /\ stage = "shutting" /\ Answered("app", "shutdown")
    /\ OnExit
    /\ up' = FALSE /\ bridge' = FALSE /\ targets' = {} /\ playing' = {}
    /\ link' = "none"
    /\ UNCHANGED <<present, viewVars, attempts, chosen, unchecked, moves>>

\* The user logs off, at any time.
SessionEnding ==
    /\ stage # "over"
    /\ chosen' = IF stage \in {"stopping", "shutting"} THEN chosen ELSE flags
    /\ OnExit
    /\ up' = FALSE /\ bridge' = FALSE /\ targets' = {} /\ playing' = {}
    /\ link' = "none"
    /\ UNCHANGED <<present, viewVars, attempts, unchecked, moves>>

-----------------------------------------------------------------------------
(* Devices, engine and process *)

eventFrame == <<viewVars, saved, attempts, stage, ans, line, arg, left, chosen, unchecked>>

Event(what) ==
    /\ stage # "over" /\ Move(what)

\* The render thread of an unplugged device ends; its target stays.
Unplug(d) ==
    /\ Event("plug")
    /\ d \in present
    /\ present' = present \ {d}
    /\ playing' = playing \ {d}
    /\ UNCHANGED <<eventFrame, up, bridge, targets, link, doing>>

Plug(d) ==
    /\ Event("plug")
    /\ d \notin present
    /\ present' = present \cup {d}
    /\ UNCHANGED <<eventFrame, up, bridge, targets, playing, link, doing>>

\* The capture thread gives up, or starts again in another format and opens the
\* targets anew.
CaptureChanges ==
    /\ Event("capture")
    /\ bridge
    /\ \/ bridge' = FALSE /\ UNCHANGED <<targets, playing>>
       \/ /\ targets' = targets \cap present /\ playing' = targets'
          /\ UNCHANGED bridge
    /\ UNCHANGED <<eventFrame, up, present, link, doing>>

\* OnEngineStatusChanged, once the application listens.
Crash ==
    /\ Event("crash")
    /\ up
    /\ up' = FALSE /\ bridge' = FALSE /\ targets' = {} /\ playing' = {}
    /\ link' = IF link = "live" THEN "broken" ELSE link
    /\ doing' = IF stage \in {"run", "stopping", "shutting"} /\ Idle("init")
                THEN [doing EXCEPT !["init"] = "delay"] ELSE doing
    /\ UNCHANGED <<eventFrame, present>>

EngineRestarts ==
    /\ stage \notin {"shutting", "over"} /\ ~up
    /\ up' = TRUE
    /\ UNCHANGED <<eventFrame, bridge, targets, playing, present, link, doing, moves>>

-----------------------------------------------------------------------------
TaskStep(t) ==
    \/ Ask(t)
    \/ t \in Refresher /\ Refresh(t)
    \/ t = "refresh" /\ RefreshDevices(t)
    \/ t \in Poll /\ Tick(t)
    \/ t = "init" /\ Initialize
    \/ t = "rec" /\ Rec
    \/ t = "box" /\ BoxDone
    \/ t \in {"toggle", "tray"} /\ SwitchDone(t)
    \/ t = "app" /\ (Restore \/ Restored \/ Sync \/ Started \/ Stopped \/ ShutDown)

Next ==
    \/ \E t \in Task : TaskStep(t)
    \/ \E d \in Device : ClickBox(d) \/ Unplug(d) \/ Plug(d)
    \/ \E t \in {"toggle", "tray"} : ClickSwitch(t)
    \/ ClickRefresh \/ ClickSetting \/ TrayExit \/ SessionEnding
    \/ CaptureChanges \/ Crash \/ EngineRestarts

Spec == Init /\ [][Next]_vars

FairSpec ==
    /\ Spec
    /\ \A t \in Task : WF_vars(TaskStep(t))
    /\ WF_vars(EngineRestarts)

-----------------------------------------------------------------------------
\* Type of the state; a row is shown as bridged only while it is shown, and what
\* plays is a target.
TypeOK ==
    /\ {up, bridge, shown} \subseteq BOOLEAN
    /\ {targets, playing, present, listed, flags, saved, chosen, unchecked}
          \subseteq SUBSET Device
    /\ link \in {"none", "live", "broken"}
    /\ attempts \in [Device -> 0..MaxRetries]
    /\ stage \in {"boot", "restore", "sync", "start", "run", "stopping", "shutting", "over"}
    /\ doing \in [Task -> Waits \cup Command]
    /\ ans \in [Task -> Answer]
    /\ line \in Seq({t \in Task : doing[t] \in Command})
    /\ arg \in [Task -> SUBSET Device]
    /\ left \in [DOMAIN left -> SUBSET Device]
    /\ moves \in 0..MaxMoves
    /\ flags \subseteq listed /\ playing \subseteq targets

ViewMatches ==
    /\ listed = present
    /\ flags = targets \cap listed
    /\ shown = bridge

\* The view comes to match the engine and stays so: stale answers of overlapping
\* refreshes, clicks and the reconnect service, lost connections, a crash, and
\* changes the engine made by itself leave it wrong for a while only.
ViewConverges == <>[](stage = "over" \/ ViewMatches)

GivenUp == {d \in Device : attempts[d] >= MaxRetries}

Wanted == saved \ unchecked

\* Every saved device that is there, and that the user has not unchecked, comes to be a
\* target of the engine and stays one, after a crash, a lost connection, a stop of the
\* bridge or adds that fail, unless its retries are used up (what that means for one that
\* comes back is ReaddedWhenBack).
ReconnectConverges == <>[](stage = "over" \/ Wanted \cap present \subseteq targets \cup GivenUp)

\* A toggle that succeeded shows what it asked for: the label is flipped when the
\* answer comes, so no refresh may have written it in between, whatever was
\* asked before the click or answered after it.
ToggleShowsResult ==
    [][~Idle("toggle") /\ doing'["toggle"] = "idle" /\ stage' # "over" /\ ans["toggle"].ok
          => shown' = (doing["toggle"] = "start")]_vars

\* DeviceReconnectService.cs:5-8: it "automatically re-adds previously bridged
\* devices when they become available again".
RejoinsWhenBack == <>[](stage = "over" \/ Wanted \cap present \subseteq playing \cup GivenUp)

\* The same lines, of a device whose adds failed and that was plugged in again since:
\* it is tried anew.
ReaddedWhenBack ==
    \A d \in Device :
       [](d \in GivenUp \ present =>
            (d \in Wanted \cap present
               ~> d \in targets \/ d \notin Wanted \cap present \/ stage = "over"))

\* src/README.md:14: "Uncheck it and the engine drops it."
UncheckDrops == <>[](stage = "over" \/ unchecked \cap targets = {})

\* App.xaml.cs:110-112 and 319-321: no poll tick between Stop and the save may
\* clear the devices that are saved; what the view showed when the exit began is
\* what the file has when it is over.
SavedIsChosen == stage = "over" => saved = chosen
=============================================================================
