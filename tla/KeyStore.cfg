\* Four keys, rotations in three seconds, kills at any step.
CONSTANTS
  MaxKeys = 4
  MaxTime = 2
SPECIFICATION Spec
INVARIANTS TypeOK SigningKeySurvives LoadedIsPair
CHECK_DEADLOCK FALSE
