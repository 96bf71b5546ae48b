\* Two or three buffers (and one, which is refused), an endless capture and one
\* of two pictures, every fault.
CONSTANTS
    Granted = {1, 2, 3}
    FrameCounts = {0, 2}
    PipeSize = 1
    MaxShots = 3
    Faults = {"device", "encoder", "lose", "repeat", "relay"}
SPECIFICATION Spec
INVARIANTS
    TypeOK
    BuffersKept
    WholeFramesInOrder
    RecordingIsRelayed
PROPERTIES
    CameraIsReleased
