SPECIFICATION NounsSpec
CONSTANTS
    WordLog = 3
    WordBits = 4
    ByteMax = 5
    AtomTasks <- MCAtomTasks
    WalkTasks <- MCWalkTasks
    ListTasks <- MCListTasks
    RuleTasks <- MCRuleTasks
    JamTasks <- MCJamTasks
    CueTasks <- MCCueTasks
    NockTasks <- MCNockTasks
    Keys <- MCKeys
    Puts <- MCPuts
    Mugs <- MCMugs
    Remugs <- MCRemugs
INVARIANTS   NockRight
CHECK_DEADLOCK FALSE
