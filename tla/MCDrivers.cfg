SPECIFICATION DriversSpec
CONSTANTS
  Cars <- MCCars
  Cards = {"wack", "verb", "inject", "born", "wake", "trim"}
  Eggs = {1, 2, 3, 4}
  DepthWrap = 8
  Batch = 2
INVARIANTS OvaOwned AlarmKept
PROPERTY AlarmHeard
CHECK_DEADLOCK FALSE
