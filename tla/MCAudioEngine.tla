---------------------------- MODULE MCAudioEngine ----------------------------
(***************************************************************************)
(* AudioEngine on two devices.                                             *)
(***************************************************************************)
EXTENDS AudioEngine, TLC

CONSTANTS speakers, headset, rate44, rate48

OneFormat  == [d \in Device |-> rate48]
TwoFormats == [d \in Device |-> IF d = speakers THEN rate44 ELSE rate48]

\* With one format the two devices are interchangeable.
Symmetry == Permutations(Device)

\* The wanted list is written and never read by the engine, and with one
\* format so are the formats: states that differ in nothing else are one.
ControlView ==
    <<present, default, notes, events, captureRunning, restartCapture, joinable,
      captureDeviceId, pendingReinit, targets, pendingIds, device, running, alive,
      pc, command, arg, cur, newDefault, oldCapture, session, ids, todo, toJoin>>
=============================================================================
