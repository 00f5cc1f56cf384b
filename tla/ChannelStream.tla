---------------------------- MODULE ChannelStream ----------------------------
(***************************************************************************)
(* The audio path from the capture thread to one render device             *)
(* (audio_engine.cpp): a packet is remapped to the channels of the device  *)
(* and pushed into its ring; the render thread pops what the device has    *)
(* room for and fills the rest with silence.                               *)
(*                                                                         *)
(* The ring is the queue that RingBuffer implements.  A push and a pop are *)
(* two steps each, the one in which they read how much they may move and   *)
(* the one in which they publish what they moved, because the other thread *)
(* may run in between.  Capture and device each keep their channels for as *)
(* long as the target lives: a change of the capture format removes it.    *)
(***************************************************************************)
EXTENDS PowerOfTwo, Sequences

CONSTANTS CaptureChannels,  \* channel counts of the capture device
          RenderChannels,   \* channel counts of the render device
          BufferFrames,     \* BUFFER_SIZE_FRAMES
          PacketFrames,     \* frames in a packet GetBuffer may return
          DeviceFrames,     \* buffer_frames of the render device
          MaxFrames,        \* bound on the frames captured
          Silence           \* 0.0f

ASSUME StreamAssumption ==
    /\ CaptureChannels \subseteq Nat \ {0} /\ RenderChannels \subseteq Nat \ {0}
    /\ PacketFrames \subseteq Nat \ {0}
    /\ BufferFrames \in Nat \ {0} /\ DeviceFrames \in Nat \ {0} /\ MaxFrames \in Nat
    /\ Silence \notin (1 .. MaxFrames) \X Nat

VARIABLES
  capChannels,  \* cap_channels
  channels,     \* channel_count of the target
  captured,     \* frames captured so far
  batch,        \* what the push under way will publish
  ring,         \* the samples in the ring, oldest first
  wanted,       \* samples_needed of the pop under way, 0 when there is none
  found,        \* how many of them the ring had
  device        \* what was last written to the render device

formats == <<capChannels, channels>>
vars    == <<formats, captured, batch, ring, wanted, found, device>>

\* Bug: room is computed in frames.
RingCapacityFrames(ch) == BufferFrames * 4

RingCapacitySamples(ch) == BufferFrames * ch * 4

Capacity(ch) == Value(NextPowerOfTwo(Bits(RingCapacitySamples(ch))))

AtMost(m, n) == IF m < n THEN m ELSE n

\* The frame and the channel, both from 0, of element i of interleaved samples.
FrameOf(i, ch)   == (i - 1) \div ch
ChannelOf(i, ch) == (i - 1) % ch

Init == /\ capChannels \in CaptureChannels /\ channels \in RenderChannels
        /\ captured = 0 /\ batch = <<>> /\ ring = <<>>
        /\ wanted = 0 /\ found = 0 /\ device = <<>>

-----------------------------------------------------------------------------
(* The capture thread *)

\* The packet of n frames as the device's channels: the first ones are copied,
\* what the capture has not is silent, what the device has not is left out.
Remapped(n) ==
    [i \in 1 .. n * channels |->
        IF ChannelOf(i, channels) < capChannels
          THEN <<captured + 1 + FrameOf(i, channels), ChannelOf(i, channels)>>
          ELSE Silence]

\* A packet flagged silent, or of a format that is not supported.
Silent(n) == [i \in 1 .. n * channels |-> Silence]

\* Bug: push is given the packet's count of samples, not the device's.
CapturePacketCount ==
    /\ batch = <<>>
    /\ \E n \in PacketFrames :
          /\ captured + n <= MaxFrames
          /\ captured' = captured + n
          /\ \E samples \in {Remapped(n), Silent(n)} :
                batch' = SubSeq(samples, 1, AtMost(AtMost(n * capChannels, Len(samples)),
                                                   Capacity(channels) - Len(ring)))
    /\ UNCHANGED <<formats, ring, wanted, found, device>>

\* GetBuffer returns a packet, and push reads how much of it fits.
CapturePacket ==
    /\ batch = <<>>
    /\ \E n \in PacketFrames :
          /\ captured + n <= MaxFrames
          /\ captured' = captured + n
          /\ \E samples \in {Remapped(n), Silent(n)} :
                batch' = SubSeq(samples, 1, AtMost(Len(samples),
                                                   Capacity(channels) - Len(ring)))
    /\ UNCHANGED <<formats, ring, wanted, found, device>>

PublishPush == /\ batch # <<>>
               /\ ring' = ring \o batch
               /\ batch' = <<>>
               /\ UNCHANGED <<formats, captured, wanted, found, device>>

-----------------------------------------------------------------------------
(* The render thread *)

\* Bug: pop moves what it is asked for, not what the ring has.
RenderRequestAll == /\ wanted = 0
                    /\ \E frames \in 1 .. DeviceFrames : wanted' = frames * channels
                    /\ found' = wanted'
                    /\ UNCHANGED <<formats, captured, batch, ring, device>>

\* The device has room for some frames, and pop reads how much there is.
RenderRequest == /\ wanted = 0
                 /\ \E frames \in 1 .. DeviceFrames : wanted' = frames * channels
                 /\ found' = AtMost(wanted', Len(ring))
                 /\ UNCHANGED <<formats, captured, batch, ring, device>>

\* Bug: the rest of the buffer keeps what the previous pop left in it.
RenderStale == /\ wanted > 0
               /\ device' = [i \in 1 .. wanted |->
                               IF i <= found THEN ring[i]
                               ELSE IF i <= Len(device) THEN device[i] ELSE Silence]
               /\ ring' = SubSeq(ring, found + 1, Len(ring))
               /\ wanted' = 0 /\ found' = 0
               /\ UNCHANGED <<formats, captured, batch>>

\* What was found is written to the device, and silence after it.
Render == /\ wanted > 0
          /\ device' = [i \in 1 .. wanted |-> IF i <= found THEN ring[i] ELSE Silence]
          /\ ring' = SubSeq(ring, found + 1, Len(ring))
          /\ wanted' = 0 /\ found' = 0
          /\ UNCHANGED <<formats, captured, batch>>

Next == CapturePacket \/ PublishPush \/ RenderRequest \/ Render

Spec == Init /\ [][Next]_vars

-----------------------------------------------------------------------------
(* Properties *)

Sample == ((1 .. MaxFrames) \X Nat) \cup {Silence}

\* The variables keep their types, and the ring its bound.
TypeOK == /\ capChannels \in CaptureChannels /\ channels \in RenderChannels
          /\ captured \in 0 .. MaxFrames
          /\ batch \in Seq(Sample) /\ ring \in Seq(Sample) /\ device \in Seq(Sample)
          /\ wanted \in {frames * channels : frames \in 0 .. DeviceFrames}
          /\ found \in 0 .. AtMost(wanted, Len(ring))
          /\ Len(ring) + Len(batch) <= Capacity(channels)

\* What is played is whole frames: each slot of a device frame has its own
\* channel of one captured frame, or silence if the capture has no such channel,
\* although a full ring takes only part of a packet.  This needs a ring of whole
\* frames (audio_engine.cpp:608-634, 744-757).
WholeFrames ==
    Capacity(channels) % channels = 0 =>
       \A i, j \in DOMAIN device :
          /\ device[i] # Silence => device[i][2] = ChannelOf(i, channels)
          /\ FrameOf(i, channels) = FrameOf(j, channels) /\ device[i] # Silence
                => \/ device[j] # Silence /\ device[j][1] = device[i][1]
                   \/ ChannelOf(j, channels) >= capChannels

\* What was played, is in the ring and is about to be published is in the order in
\* which it was captured, none of it twice (audio_engine.cpp:617, 632, 745).
InOrder ==
    LET stream == device \o ring \o batch
        Before(s, t) == s[1] < t[1] \/ (s[1] = t[1] /\ s[2] < t[2])
    IN  \A i, j \in DOMAIN stream :
           i < j /\ stream[i] # Silence /\ stream[j] # Silence
              => Before(stream[i], stream[j])

\* A ring is made with the least power of two that holds what is asked for, for
\* this device and for any other request (ring_buffer.h:5, 20-23).
CapacityIsLeastPower ==
    Init => \A v \in Requests \cup {Bits(RingCapacitySamples(channels))} :
               HasPower(v) => LeastPower(v, NextPowerOfTwo(v))

\* A packet is cut only when with it more than four buffers of frames would wait:
\* a stall of the render thread does not at once cost samples
\* (audio_engine.cpp:23-25).
Headroom == [][captured' # captured /\ Len(batch') < (captured' - captured) * channels
                 => Len(ring) + (captured' - captured) * channels
                       > 4 * BufferFrames * channels]_vars

-----------------------------------------------------------------------------
(* What a comment of the source says and the code does not always do *)

\* The channels that the capture has not are silent (audio_engine.cpp:619-620).
ZeroFilled == \A i \in DOMAIN device :
                 ChannelOf(i, channels) >= capChannels => device[i] = Silence
=============================================================================
