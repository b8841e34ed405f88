SPECIFICATION UpdaterFairSpec
CONSTANTS
    Modes = {"image"}
    Retention = 2
    MaxVersion = 2
    MaxFaults = 1
PROPERTIES
    ImageCatchesUp
