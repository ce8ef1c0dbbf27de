CONSTANTS
  FileOrder <- MCFileOrder
  TestFileOf <- MCTestFileOf
  MockFiles = {"mock_b.c"}
  RegisterFile = NoFile
  NoFile = NoFile
  Findings <- MCFindings
  CoverageGaps <- MCCoverage
  BuildProblems <- MCProblems
  Present = {"a.c", "a_test.c", "b.c"}
  Need = {"access"}
  Technique <- MCTechnique
  Detected <- MCDetected
  Undecided = "none"
  MaxAttempts = 2
  MayDrop = {3}
  Turn <- MCTurn
  MaxPartial = 1
  MaxUses <- MCUses
  MaxDeaths = 1
SPECIFICATION Spec
INVARIANT TypeOK
INVARIANT OnlyTheDeadLeaveAttempts
PROPERTY SeamKept
PROPERTY PlanCovers
PROPERTY RunFinishesThePlan
PROPERTY WavesKept
PROPERTY WaveChecked
CHECK_DEADLOCK FALSE
