\* The longest interval is the longest one TimerConstants allows.
CONSTANTS
  MillisMod = 16
  Intervals = {0, 1, 5, 13}
  MaxGap = 2
  MaxRefused = 2
SPECIFICATION FairSpec
INVARIANTS TypeOK NotTooLate
PROPERTIES NotTooSoon KeepsAdvertising
