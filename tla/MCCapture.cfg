\* Every combination of failures while the capture is created, read, deleted.
\* The behaviour ends when the device is gone, or over a driver that
\* grants more buffers than it is asked for.
SPECIFICATION CaptureFairSpec
CONSTANTS
    NbBuffer = 3
    MaxGranted = 4
    MaxFrame = 4
    FormatList <- MCFormatList
    SizeOf <- MCSizeOf
    AnySize = {0, 1}
INVARIANTS
    WithinBuffer
    HandedOutWhole
    EachBufferOnce
    ReadsForward
    NothingLeft
    FramesFit
PROPERTY
    KeepsReading
CHECK_DEADLOCK FALSE
