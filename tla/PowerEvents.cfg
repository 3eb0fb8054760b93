SPECIFICATION FairSpec
CONSTANTS
  MaxSleeps = 2
  MaxEvents = 3
  MaxFaults = 1
  Limits = {0, 80}
  Levels = {50, 80}
INVARIANTS
  NoPhantomSleep
  RingComesBack
  IndicatorTells
  PortKeepsItsBits
PROPERTIES
  SettingsAreSaved
CHECK_DEADLOCK FALSE
