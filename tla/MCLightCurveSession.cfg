SPECIFICATION Spec
CONSTANTS
    Capacity = 2
    Trackings <- MCTrackings
    PlotModes <- MCPlotModes
    Faults <- MCFaults
    Windows <- MCWindows
    MaxTime = 1
    MaxRuntime = 2
    MaxGen = 3
INVARIANTS
    TypeOK
    BufferMatchesReference
    TraceOfRuntime
    TraceEndsHistories
    KeyDescribesPlot
    FrameRequested
PROPERTIES
    UnchangedFramesKeepPreview
