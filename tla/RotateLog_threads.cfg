SPECIFICATION RotateSpec
CONSTANTS
  Writers = {t1, t2}
  rotate_file_number = 3
  SizeLimit = 2
  MaxRecords = 9
  MaxRestarts = 0
  NoFile = none
INVARIANTS
  OldestRemoved
CHECK_DEADLOCK FALSE
