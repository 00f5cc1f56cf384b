SPECIFICATION Spec
CONSTANTS
  speakers = speakers
  headset = headset
  rate44 = rate44
  rate48 = rate48
  Device = {speakers, headset}
  NoDevice = NoDevice
  Format = {rate44, rate48}
  NoFormat = NoFormat
  MixFormat <- TwoFormats
  MaxTargets = 5
  MaxEvents = 1
  Commands = {"add", "start"}
  EnvEvents = {}
  Failures = FALSE
INVARIANTS FormatsMatch
