SPECIFICATION FairSpec
CONSTANTS
  speakers = speakers
  headset = headset
  rate44 = rate44
  rate48 = rate48
  Device = {speakers, headset}
  NoDevice = NoDevice
  Format = {rate44, rate48}
  NoFormat = NoFormat
  MixFormat <- OneFormat
  MaxTargets = 5
  MaxEvents = 2
  Commands = {"start", "stop"}
  EnvEvents = {"switch", "role", "unplug", "plug"}
  Failures = FALSE
VIEW ControlView
INVARIANTS NoFeedback CaptureFollowsDefault NothingParkedLost
PROPERTIES EveryCommandReturns CaptureConverges
