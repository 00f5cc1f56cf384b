---------------------------- MODULE DeviceManager ----------------------------
(***************************************************************************)
(* DeviceManager (device_manager.h, device_manager.cpp) and the part of    *)
(* Windows it wraps: the render endpoints that are present, the default    *)
(* one, the OnDefaultDeviceChanged calls still to be delivered, and the    *)
(* in-memory list of wanted devices.                                       *)
(*                                                                         *)
(* Windows calls OnDefaultDeviceChanged once for each role whose default   *)
(* changed, one call at a time.  The handler ignores the role, so a change *)
(* of the communications role alone is a notice with no change of the      *)
(* console default that GetDefaultOutputDeviceId reads.                    *)
(***************************************************************************)
EXTENDS Integers, FiniteSets

CONSTANTS Device,     \* ids of render endpoints
          NoDevice,   \* the empty id
          EnvEvents,  \* which of "switch", "role", "unplug", "plug" may happen
          MaxEvents,  \* bound on how many of them happen
          Failures    \* whether COM and WASAPI calls may fail at any time

ASSUME DeviceAssumption ==
    /\ NoDevice \notin Device /\ MaxEvents \in Nat
    /\ Failures \in BOOLEAN

VARIABLES present,    \* endpoints in DEVICE_STATE_ACTIVE
          default,    \* the default render endpoint of role eConsole
          notes,      \* OnDefaultDeviceChanged calls not yet delivered
          events,     \* how many environment events have happened
          wanted      \* ids in wanted_devices_

deviceVars == <<present, default, notes, events, wanted>>

DeviceId == Device \cup {NoDevice}

DeviceTypeOK == /\ present \subseteq Device
                /\ default \in DeviceId
                /\ events \in 0 .. MaxEvents
                /\ notes \in 0 .. events
                /\ wanted \subseteq Device

DeviceInit == /\ present = Device
              /\ default \in Device
              /\ notes = 0 /\ events = 0
              /\ wanted = {}

Happens(kind) == /\ kind \in EnvEvents
                 /\ events < MaxEvents
                 /\ events' = events + 1

Notify == notes' = notes + 1

-----------------------------------------------------------------------------
(* The environment *)
SwitchDefault(d) == /\ Happens("switch")
                    /\ d \in present \ {default}
                    /\ default' = d
                    /\ Notify
                    /\ UNCHANGED <<present, wanted>>

RoleNotice == /\ Happens("role")
              /\ Notify
              /\ UNCHANGED <<present, default, wanted>>

\* When the default endpoint goes away Windows falls back to another one.
Unplug(d) == /\ Happens("unplug")
             /\ d \in present
             /\ present' = present \ {d}
             /\ UNCHANGED wanted
             /\ IF d # default
                  THEN UNCHANGED <<default, notes>>
                  ELSE /\ Notify
                       /\ \/ default' \in present \ {d}
                          \/ present = {d} /\ default' = NoDevice

Plug(d) == /\ Happens("plug")
           /\ d \in Device \ present
           /\ present' = present \cup {d}
           /\ UNCHANGED wanted
           /\ IF default # NoDevice
                THEN UNCHANGED <<default, notes>>
                ELSE default' = d /\ Notify

Environment == \/ RoleNotice
               \/ \E d \in Device : SwitchDefault(d) \/ Unplug(d) \/ Plug(d)

-----------------------------------------------------------------------------
(* What its callers use *)
\* What the call may return: the empty id when there is no default, or when
\* GetDefaultAudioEndpoint or GetId fails.
GetDefaultOutputDeviceId == {default} \cup (IF Failures THEN {NoDevice} ELSE {})

AddWantedDevice(id) == /\ wanted' = wanted \cup {id}
                       /\ UNCHANGED <<present, default, notes, events>>

RemoveWantedDevice(id) == /\ wanted' = wanted \ {id}
                          /\ UNCHANGED <<present, default, notes, events>>

\* Windows delivers one notice: OnDefaultDeviceChanged.
Deliver == /\ notes > 0
           /\ notes' = notes - 1
           /\ UNCHANGED <<present, default, events, wanted>>
=============================================================================
