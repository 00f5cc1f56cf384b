SPECIFICATION Spec
CONSTANTS
  speakers = speakers
  headset = headset
  rate44 = rate44
  rate48 = rate48
  Device = {speakers, headset}
  NoDevice = NoDevice
  Format = {rate44, rate48}
  NoFormat = NoFormat
  MixFormat <- OneFormat
  MaxTargets = 5
  MaxEvents = 1
  Commands = {"add", "remove", "start"}
  EnvEvents = {"role"}
  Failures = FALSE
INVARIANTS TargetsAreWanted
