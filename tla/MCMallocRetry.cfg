SPECIFICATION MemorySpec
CONSTANTS
    FboxNo = 3
    RoadSize = 1
    CellBlock = 2
    Page = 2
    MerLen = 1
    Flux = 2
    MaxUse = 3
    Scenes <- MCMemoScenes
    Keys = {1, 2, 3, 4}
    Vals = {1, 2}
    RootSlots = 2
    Base = 2
    Deep = 2
    MaxSizes = {0, 3}
    Mug <- MCMug
INVARIANT MallocFits
CHECK_DEADLOCK FALSE
