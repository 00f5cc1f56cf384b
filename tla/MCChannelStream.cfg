SPECIFICATION Spec
CONSTANTS
  Width = 64
  Requests <- MCRequests
  CaptureChannels = {1, 2, 3}
  RenderChannels = {1, 2, 3}
  BufferFrames = 1
  PacketFrames = {1, 3}
  DeviceFrames = 2
  MaxFrames = 7
  Silence = Silence
INVARIANTS TypeOK WholeFrames InOrder CapacityIsLeastPower
PROPERTY Headroom
