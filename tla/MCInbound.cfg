\* Two frames in a turn, bundles of at most three packets.
CONSTANTS
    FramesPerTick = 2
    BundleLimit = 3
    MaxFrames = 6
SPECIFICATION FairSpec
INVARIANTS
    Delivered
    BundlesTogether
PROPERTY AllRead
CHECK_DEADLOCK FALSE
